------------------------------- MODULE SslProofs -------------------------------
(***************************************************************************)
(* Two SSL_SOCKETs, for every size of a flight, a header, a trailer and a   *)
(* message: the handshake leaves nothing behind and fails only for a        *)
(* reason, and the connection implements ByteStream and loses nothing.      *)
(***************************************************************************)
EXTENDS SslConnection, SequenceTheorems, TLAPS

-----------------------------------------------------------------------------
(* The handshake *)

(* What a side still has to look at: what it has kept and what is on its    *)
(* way.                                                                    *)
Stock(kept, way) == kept \o way
AtServer == Stock(server.t, toServer)
AtClient == Stock(client.t, toClient)

(* A loop that returned -1 leaves no more to be said of the flights.        *)
Spoilt == client.pc = "failed" \/ server.pc = "failed"

(* Nothing was sent yet.                                                    *)
Phase0 ==
  /\ client.pc \in {"init", "hello", "zero"} /\ server.pc \in {"init", "recv"}
  /\ client.t = <<>> /\ toClient = <<>> /\ server.t = <<>> /\ toServer = <<>>
  /\ ~server.InitContext /\ dropped = <<>>
  /\ client.pc = "zero" => refused # {}

(* The hello was sent.  Only a hello in pieces is kept, and only that one   *)
(* makes AcceptSecurityContext fail.                                        *)
Phase1 ==
  /\ client.pc = "recv" /\ server.pc \in {"init", "recv"}
  /\ client.t = <<>> /\ toClient = <<>> /\ AtServer = Flight("hello") /\ dropped = <<>>
  /\ ~SplitHello => server.t = <<>> /\ ~server.InitContext

(* The server answered it.                                                  *)
Phase2 ==
  /\ client.pc = "recv" /\ server.pc = "recv" /\ server.hCtx
  /\ server.t = <<>> /\ toServer = <<>> /\ AtClient = Flight("serverHello") /\ dropped = <<>>

(* The client sent its keys.                                                *)
Phase3 ==
  /\ client.pc = "recv" /\ server.pc = "recv" /\ server.hCtx
  /\ client.t = <<>> /\ toClient = <<>> /\ AtServer = Flight("keys") /\ dropped = <<>>

(* The server is done, and may send data behind its last flight.            *)
Phase4 ==
  /\ client.pc = "recv" /\ server.pc = "ok"
  /\ server.t = <<>> /\ toServer = <<>> /\ dropped = <<>>
  /\ Len(AtClient) >= Size
  /\ \A i \in 1..Size : AtClient[i] = Flight("finished")[i]
  /\ \A i \in 1..Len(AtClient) : i > Size => AtClient[i].flight = "data"

(* Both are done.                                                           *)
Phase5 ==
  /\ client.pc = "ok" /\ server.pc = "ok"
  /\ client.t = <<>> /\ server.t = <<>> /\ toServer = <<>>
  /\ \A i \in 1..Len(toClient) : toClient[i].flight = "data"
  /\ \A i \in 1..Len(dropped) : dropped[i].flight = "data"

GoneInv ==
  /\ "client" \in gone => client.pc \in Returned
  /\ "server" \in gone => server.pc \in Returned

Sound ==
  /\ ~SplitHello => FailsForAReason
  /\ Spoilt \/ Phase0 \/ Phase1 \/ Phase2 \/ Phase3 \/ Phase4 \/ Phase5

HandshakeInv == HandshakeTypeOK /\ GoneInv /\ Sound

Joined(kept, way, n) == kept \o SubSeq(way, 1, n)
Later(way, n) == SubSeq(way, n + 1, Len(way))

(* Receiving moves the boundary between what is kept and what is on its     *)
(* way.                                                                    *)
LEMMA Receipt ==
  ASSUME NEW S, NEW kept \in Seq(S), NEW way \in Seq(S), NEW n \in 1..Len(way)
  PROVE  /\ Joined(kept, way, n) \in Seq(S) /\ Later(way, n) \in Seq(S)
         /\ Joined(kept, way, n) # <<>> /\ Stock(kept, way) \in Seq(S)
         /\ Len(Joined(kept, way, n)) = Len(kept) + n /\ Len(Later(way, n)) = Len(way) - n
         /\ Len(Stock(kept, way)) = Len(kept) + Len(way)
         /\ Stock(Joined(kept, way, n), Later(way, n)) = Stock(kept, way)
         /\ \A i \in 1..Len(Joined(kept, way, n)) :
              Joined(kept, way, n)[i] = Stock(kept, way)[i]
         /\ \A i \in 1..Len(Later(way, n)) :
              Later(way, n)[i] = Stock(kept, way)[Len(Joined(kept, way, n)) + i]
<1> DEFINE h == SubSeq(way, 1, n)
           rest == SubSeq(way, n + 1, Len(way))
           t == kept \o h
<1>1. Len(way) \in Nat /\ Len(kept) \in Nat /\ \A i \in 1..Len(way) : way[i] \in S
  BY LenProperties, ElementOfSeq
<1>2. /\ h \in Seq(S) /\ Len(h) = n /\ \A i \in 1..n : h[i] = way[i]
  <2>1. \A i \in 1..n : way[i] \in S BY <1>1
  <2> QED BY <1>1, <2>1, SubSeqProperties, Z3
<1>3. /\ rest \in Seq(S) /\ Len(rest) = Len(way) - n
      /\ \A i \in 1..Len(rest) : rest[i] = way[n + i]
  <2>1. \A i \in (n + 1)..Len(way) : way[i] \in S BY <1>1
  <2> QED BY <1>1, <2>1, SubSeqProperties, Z3
<1>4. /\ t \in Seq(S) /\ Len(t) = Len(kept) + n
      /\ \A i \in 1..Len(t) : t[i] = IF i <= Len(kept) THEN kept[i] ELSE h[i - Len(kept)]
  BY <1>1, <1>2, ConcatProperties, Z3
<1>5. /\ kept \o way \in Seq(S) /\ Len(kept \o way) = Len(kept) + Len(way)
      /\ \A i \in 1..(Len(kept) + Len(way)) :
           (kept \o way)[i] = IF i <= Len(kept) THEN kept[i] ELSE way[i - Len(kept)]
  BY ConcatProperties
<1>6. /\ t \o rest \in Seq(S) /\ Len(t \o rest) = Len(t) + Len(rest)
      /\ \A i \in 1..(Len(t) + Len(rest)) :
           (t \o rest)[i] = IF i <= Len(t) THEN t[i] ELSE rest[i - Len(t)]
  BY <1>3, <1>4, ConcatProperties
<1> HIDE DEF h, rest, t
<1>7. \A i \in 1..Len(t) : t[i] = (kept \o way)[i]
  BY <1>1, <1>2, <1>4, <1>5
<1>8. \A i \in 1..Len(rest) : rest[i] = (kept \o way)[Len(t) + i]
  BY <1>1, <1>3, <1>4, <1>5
<1>9. t \o rest = kept \o way
  <2>1. Len(t \o rest) = Len(kept \o way) BY <1>1, <1>3, <1>4, <1>5, <1>6
  <2>2. ASSUME NEW i \in 1..Len(t \o rest) PROVE (t \o rest)[i] = (kept \o way)[i]
    <3>1. CASE i <= Len(t) BY <1>1, <1>3, <1>4, <1>6, <1>7, <3>1
    <3>2. CASE i > Len(t)
      <4>1. i - Len(t) \in 1..Len(rest) /\ (t \o rest)[i] = rest[i - Len(t)]
        BY <1>1, <1>3, <1>4, <1>6, <3>2
      <4>2. Len(t) + (i - Len(t)) = i BY <1>1, <1>4
      <4> QED BY <1>8, <4>1, <4>2
    <3> QED BY <1>1, <1>3, <1>4, <1>6, <3>1, <3>2
  <2> QED BY <1>5, <1>6, <2>1, <2>2, SeqEqual
<1>10. t # <<>> BY <1>1, <1>4
<1> QED BY <1>3, <1>4, <1>5, <1>7, <1>8, <1>9, <1>10 DEF h, rest, t, Joined, Later, Stock

LEMMA CellsReceipt ==
  ASSUME NEW kept \in Seq(Cells), NEW way \in Seq(Cells), NEW n \in 1..Len(way)
  PROVE  /\ Joined(kept, way, n) \in Seq(Cells) /\ Later(way, n) \in Seq(Cells)
         /\ Joined(kept, way, n) # <<>> /\ Stock(kept, way) \in Seq(Cells)
         /\ Len(Joined(kept, way, n)) = Len(kept) + n /\ Len(Later(way, n)) = Len(way) - n
         /\ Len(Stock(kept, way)) = Len(kept) + Len(way)
         /\ Stock(Joined(kept, way, n), Later(way, n)) = Stock(kept, way)
         /\ \A i \in 1..Len(Joined(kept, way, n)) :
              Joined(kept, way, n)[i] = Stock(kept, way)[i]
         /\ \A i \in 1..Len(Later(way, n)) :
              Later(way, n)[i] = Stock(kept, way)[Len(Joined(kept, way, n)) + i]
BY Receipt

LEMMA Stocking ==
  ASSUME NEW S, NEW kept \in Seq(S), NEW way \in Seq(S), NEW more \in Seq(S)
  PROVE  Stock(Stock(kept, way), more) = Stock(kept, Stock(way, more))
BY ConcatAssociative DEF Stock

LEMMA FlightType ==
  ASSUME NEW f \in {"hello", "serverHello", "keys", "finished", "data"}
  PROVE  /\ Flight(f) \in Seq(Cells) /\ Len(Flight(f)) = Size /\ Size \in Nat \ {0}
         /\ Flight(f) # <<>>
         /\ \A i \in 1..Size : Flight(f)[i] = [flight |-> f, left |-> Size - i]
<1>1. Size \in Nat \ {0} BY HandshakeAssumption
<1>2. \A i \in 1..Size : [flight |-> f, left |-> Size - i] \in Cells
  BY <1>1 DEF Cells
<1>3. Flight(f) \in [1..Size -> Cells] /\ DOMAIN Flight(f) = 1..Size BY <1>2 DEF Flight
<1>4. Flight(f) \in Seq(Cells) /\ Len(Flight(f)) = Size BY <1>1, <1>3
<1> QED BY <1>1, <1>4 DEF Flight

(* A flight that was split is complete when all its cells are there, and    *)
(* nothing is behind it if nothing was sent behind it.                      *)
LEMMA WholeFlight ==
  ASSUME NEW f \in {"hello", "serverHello", "keys", "finished", "data"},
         NEW kept \in Seq(Cells), NEW way \in Seq(Cells), NEW n \in 1..Len(way),
         Stock(kept, way) = Flight(f)
  PROVE  LET t == Joined(kept, way, n)
             rest == Later(way, n)
         IN  /\ Head(t).flight = f /\ Head(t).left = Size - 1
             /\ Complete(t) => t = Flight(f) /\ rest = <<>> /\ Behind(t) = <<>>
             /\ ~Complete(t) => Len(t) < Size /\ Stock(t, rest) = Flight(f)
<1> DEFINE t == Joined(kept, way, n)
           rest == Later(way, n)
<1>1. /\ t \in Seq(Cells) /\ rest \in Seq(Cells) /\ t # <<>>
      /\ Len(t) = Len(kept) + n /\ Len(rest) = Len(way) - n
      /\ Len(kept) + Len(way) = Size /\ Stock(t, rest) = Flight(f)
      /\ \A i \in 1..Len(t) : t[i] = Flight(f)[i]
      /\ Len(kept) \in Nat /\ Len(way) \in Nat
  <2>1. /\ t \in Seq(Cells) /\ rest \in Seq(Cells) /\ t # <<>>
        /\ Len(t) = Len(kept) + n /\ Len(rest) = Len(way) - n
        /\ Len(Stock(kept, way)) = Len(kept) + Len(way) /\ Stock(t, rest) = Stock(kept, way)
        /\ \A i \in 1..Len(t) : t[i] = (Stock(kept, way))[i]
    BY Receipt
  <2> HIDE DEF t, rest
  <2> QED BY <2>1, FlightType, LenProperties
<1> HIDE DEF t, rest
<1>2. Head(t) = t[1] /\ 1 \in 1..Len(t) /\ Len(t) <= Size /\ Len(t) \in Nat /\ Size \in Nat
  <2>1. Size \in Nat \ {0} BY FlightType
  <2>2. Head(t) = t[1] BY <1>1
  <2> QED BY ONLY <1>1, <2>1, <2>2
<1>3. Head(t).flight = f /\ Head(t).left = Size - 1
  <2>1. t[1] = Flight(f)[1] BY <1>1, <1>2
  <2>2. 1 \in 1..Size BY <1>1, <1>2
  <2>3. Flight(f)[1] = [flight |-> f, left |-> Size - 1] BY <2>2, FlightType
  <2> QED BY <1>2, <2>1, <2>3
<1>4. ASSUME Complete(t) PROVE t = Flight(f) /\ rest = <<>> /\ Behind(t) = <<>>
  <2>1. Len(t) = Size BY ONLY <1>2, <1>3, <1>4 DEF Complete
  <2>2. Len(rest) = 0 BY ONLY <1>1, <2>1
  <2>3. rest = <<>> BY <1>1, <2>2, EmptySeq
  <2>4. Behind(t) = <<>>
    <3>1. Head(t).left + 2 \in Int /\ Len(t) \in Int /\ Len(t) < Head(t).left + 2
      BY ONLY <1>2, <1>3, <2>1
    <3> QED BY <3>1, SubSeqEmpty DEF Behind
  <2> QED BY <1>1, <2>1, <2>3, <2>4, FlightType, SeqEqual
<1>5. ASSUME ~Complete(t) PROVE Len(t) < Size
  BY ONLY <1>2, <1>3, <1>5 DEF Complete
<1> QED BY <1>1, <1>3, <1>4, <1>5 DEF t, rest

LEMMA HandshakeInits == HandshakeInit => HandshakeInv
<1> SUFFICES ASSUME HandshakeInit PROVE HandshakeInv OBVIOUS
<1>1. <<>> \in Seq(Cells) /\ Len(<<>>) = 0 /\ Size > 0
  BY EmptySeq, HandshakeAssumption
<1>2. HandshakeTypeOK
  BY <1>1 DEF HandshakeInit, Side, HandshakeTypeOK, Sides, Returned
<1> QED BY <1>2 DEF HandshakeInit, Side, HandshakeInv, GoneInv, Sound, FailsForAReason, Phase0

(* A flight that was not sent to its end. *)
LEMMA PartType ==
  ASSUME NEW f \in {"hello", "serverHello", "keys", "finished", "data"},
         NEW part \in CutShort(f), NEW way \in Seq(Cells)
  PROVE  way \o part \in Seq(Cells)
<1>1. PICK k \in 0..(Size - 1) : part = SubSeq(Flight(f), 1, k) BY DEF CutShort
<1>2. /\ Flight(f) \in Seq(Cells) /\ Len(Flight(f)) = Size /\ Size \in Nat \ {0}
      /\ \A i \in 1..Size : Flight(f)[i] = [flight |-> f, left |-> Size - i]
  BY FlightType
<1>3. \A i \in 1..k : Flight(f)[i] \in Cells BY <1>2, ElementOfSeq
<1>4. part \in Seq(Cells)
  <2> DEFINE F == Flight(f)
  <2>1. F \in Seq(Cells) /\ k \in 0..Len(F) /\ (\A i \in 1..k : F[i] \in Cells) BY <1>2, <1>3
  <2> HIDE DEF F
  <2>2. SubSeq(F, 1, k) \in Seq(Cells) BY <2>1, SubSeqProperties, LenProperties, Z3
  <2> QED BY <1>1, <2>2 DEF F
<1> QED BY <1>4, ConcatProperties

LEMMA SentType ==
  ASSUME NEW f \in {"hello", "serverHello", "keys", "finished", "data"}, NEW way \in Seq(Cells),
         NEW sent, \/ sent = way \o Flight(f)
                   \/ \E part \in CutShort(f) : sent = way \o part
  PROVE  sent \in Seq(Cells)
<1>1. CASE sent = way \o Flight(f) BY <1>1, FlightType, ConcatProperties
<1>2. ASSUME NEW part \in CutShort(f), sent = way \o part PROVE sent \in Seq(Cells)
  BY <1>2, PartType
<1> QED BY <1>1, <1>2

(* What is kept and what is thrown away consists of cells.                  *)
LEMMA KeptType ==
  ASSUME NEW t \in Seq(Cells), t # <<>>
  PROVE  /\ Behind(t) \in Seq(Cells) /\ (~Complete(t) => Len(t) < Size)
         /\ Head(t) = t[1] /\ Head(t) \in Cells
<1>1. Head(t) = t[1] /\ t[1] \in Cells /\ Len(t) \in Nat \ {0}
  BY EmptySeq, ElementOfSeq, LenProperties, HeadTailProperties
<1>2. Head(t).left \in 0..(Size - 1) /\ Size \in Nat BY <1>1, HandshakeAssumption DEF Cells
<1>3. ~Complete(t) => Len(t) < Size BY <1>1, <1>2 DEF Complete
<1>4. \A i \in (Head(t).left + 2)..Len(t) : t[i] \in Cells BY <1>1, <1>2, ElementOfSeq
<1>5. Behind(t) \in Seq(Cells) BY <1>1, <1>2, <1>4, SubSeqProperties DEF Behind
<1> QED BY <1>1, <1>3, <1>5

LEMMA ClientRecvType ==
  ASSUME HandshakeTypeOK, NEW n, ClientRecv(n)
  PROVE  HandshakeTypeOK'
<1> DEFINE t == Joined(client.t, toClient, n)
           rest == Later(toClient, n)
<1>1. /\ client \in Sides /\ client.t \in Seq(Cells) /\ toClient \in Seq(Cells)
      /\ toServer \in Seq(Cells) /\ dropped \in Seq(Cells)
      /\ n \in 1..Len(toClient) /\ toClient' = rest
      /\ UNCHANGED <<server, gone, refused>>
  BY DEF HandshakeTypeOK, Sides, ClientRecv, Later
<1>2. t \in Seq(Cells) /\ rest \in Seq(Cells) /\ t # <<>> BY <1>1, CellsReceipt
<1>3. \/ client' = [client EXCEPT !.t = t] /\ ~Complete(t) /\ UNCHANGED <<toServer, dropped>>
      \/ /\ client' \in {[client EXCEPT !.t = <<>>], [client EXCEPT !.t = <<>>, !.pc = "failed"],
                         [client EXCEPT !.t = <<>>, !.pc = "ok"]}
         /\ dropped' = dropped \o Behind(t)
         /\ \/ toServer' = toServer
            \/ toServer' = toServer \o Flight("keys")
            \/ \E part \in CutShort("keys") : toServer' = toServer \o part
  BY DEF ClientRecv, Joined
<1> HIDE DEF t, rest
<1>4. Behind(t) \in Seq(Cells) /\ (~Complete(t) => Len(t) < Size) BY <1>2, KeptType
<1>5. toServer' \in Seq(Cells)
  <2>1. CASE toServer' = toServer BY <1>1, <2>1
  <2>2. CASE \/ toServer' = toServer \o Flight("keys")
             \/ \E part \in CutShort("keys") : toServer' = toServer \o part
    BY <1>1, <2>2, SentType
  <2> QED BY <1>3, <2>1, <2>2
<1>6. dropped' \in Seq(Cells)
  <2>1. dropped \o Behind(t) \in Seq(Cells) BY <1>1, <1>4, ConcatProperties
  <2> QED BY <1>1, <1>3, <2>1
<1>7. client' \in Sides /\ Len(client'.t) < Size
  <2>1. <<>> \in Seq(Cells) /\ Len(<<>>) < Size BY EmptySeq, HandshakeAssumption
  <2>2. CASE client' = [client EXCEPT !.t = t] /\ ~Complete(t)
    BY <1>1, <1>2, <1>4, <2>2 DEF Sides
  <2>3. CASE client' = [client EXCEPT !.t = <<>>] BY <1>1, <2>1, <2>3 DEF Sides
  <2>4. CASE client' = [client EXCEPT !.t = <<>>, !.pc = "failed"]
    BY <1>1, <2>1, <2>4 DEF Sides, Returned
  <2>5. CASE client' = [client EXCEPT !.t = <<>>, !.pc = "ok"]
    BY <1>1, <2>1, <2>5 DEF Sides, Returned
  <2> QED BY <1>3, <2>2, <2>3, <2>4, <2>5
<1> QED BY <1>1, <1>2, <1>5, <1>6, <1>7 DEF HandshakeTypeOK

LEMMA ServerRecvType ==
  ASSUME HandshakeTypeOK, NEW n, ServerRecv(n)
  PROVE  HandshakeTypeOK'
<1> DEFINE t == Joined(server.t, toServer, n)
           rest == Later(toServer, n)
           next == [server EXCEPT !.t = <<>>, !.InitContext = TRUE]
<1>1. /\ server \in Sides /\ server.t \in Seq(Cells) /\ toServer \in Seq(Cells)
      /\ toClient \in Seq(Cells) /\ dropped \in Seq(Cells)
      /\ n \in 1..Len(toServer) /\ toServer' = rest
      /\ UNCHANGED <<client, gone, refused>>
  BY DEF HandshakeTypeOK, Sides, ServerRecv, Later
<1>2. t \in Seq(Cells) /\ rest \in Seq(Cells) /\ t # <<>> BY <1>1, CellsReceipt
<1>3. \/ server' = [next EXCEPT !.t = t] /\ ~Complete(t) /\ UNCHANGED <<toClient, dropped>>
      \/ /\ server' \in {[next EXCEPT !.pc = "failed"], [next EXCEPT !.hCtx = TRUE],
                         [next EXCEPT !.pc = "ok"], [next EXCEPT !.pc = "failed", !.hCtx = TRUE]}
         /\ dropped' = dropped \/ dropped' = dropped \o Behind(t)
         /\ \/ toClient' = toClient
            \/ \E f \in {"serverHello", "finished"} :
                 \/ toClient' = toClient \o Flight(f)
                 \/ \E part \in CutShort(f) : toClient' = toClient \o part
  <2>1. Head(t).flight \in {"hello", "keys"} => Answer[Head(t).flight] \in {"serverHello", "finished"}
    BY DEF Answer
  <2> QED BY <2>1 DEF ServerRecv, Joined
<1> HIDE DEF t, rest
<1>4. Behind(t) \in Seq(Cells) /\ (~Complete(t) => Len(t) < Size) BY <1>2, KeptType
<1>5. toClient' \in Seq(Cells)
  <2>1. CASE toClient' = toClient BY <1>1, <2>1
  <2>2. ASSUME NEW f \in {"serverHello", "finished"},
               \/ toClient' = toClient \o Flight(f)
               \/ \E part \in CutShort(f) : toClient' = toClient \o part
        PROVE  toClient' \in Seq(Cells)
    BY <1>1, <2>2, SentType
  <2> QED BY <1>3, <2>1, <2>2
<1>6. dropped' \in Seq(Cells)
  <2>1. dropped \o Behind(t) \in Seq(Cells) BY <1>1, <1>4, ConcatProperties
  <2> QED BY <1>1, <1>3, <2>1
<1>7. server' \in Sides /\ Len(server'.t) < Size
  <2>1. <<>> \in Seq(Cells) /\ Len(<<>>) < Size BY EmptySeq, HandshakeAssumption
  <2>2. next \in Sides /\ next.t = <<>> BY <1>1, <2>1 DEF Sides
  <2> HIDE DEF next
  <2>3. CASE server' = [next EXCEPT !.t = t] /\ ~Complete(t)
    BY <1>2, <1>4, <2>2, <2>3 DEF Sides
  <2>4. CASE server' = [next EXCEPT !.pc = "failed"] BY <2>1, <2>2, <2>4 DEF Sides, Returned
  <2>5. CASE server' = [next EXCEPT !.hCtx = TRUE] BY <2>1, <2>2, <2>5 DEF Sides
  <2>6. CASE server' = [next EXCEPT !.pc = "ok"] BY <2>1, <2>2, <2>6 DEF Sides, Returned
  <2>7. CASE server' = [next EXCEPT !.pc = "failed", !.hCtx = TRUE]
    BY <2>1, <2>2, <2>7 DEF Sides, Returned
  <2> QED BY <1>3, <2>3, <2>4, <2>5, <2>6, <2>7
<1> QED BY <1>1, <1>2, <1>5, <1>6, <1>7 DEF HandshakeTypeOK

(* Every step keeps the types and what it was that failed; a program closes *)
(* its socket only after its call has returned.                             *)
LEMMA HandshakeKeeps ==
  ASSUME HandshakeInv, HandshakeNext
  PROVE  HandshakeTypeOK' /\ GoneInv' /\ refused \subseteq refused' /\ gone \subseteq gone'
<1>1. HandshakeTypeOK /\ GoneInv BY DEF HandshakeInv
<1>2. CASE ClientInit
  BY <1>1, <1>2 DEF ClientInit, HandshakeTypeOK, Sides, Returned, GoneInv
<1>3. CASE ClientHello
  <2>1. toServer' \in Seq(Cells)
    BY <1>1, <1>3, SentType DEF ClientHello, HandshakeTypeOK
  <2>2. client' \in Sides /\ client'.t = client.t
    BY <1>1, <1>3 DEF ClientHello, HandshakeTypeOK, Sides, Returned
  <2> QED BY <1>1, <1>3, <2>1, <2>2 DEF ClientHello, HandshakeTypeOK, GoneInv, Returned
<1>4. CASE ClientRecvEnds
  BY <1>1, <1>4 DEF ClientRecvEnds, HandshakeTypeOK, Sides, Returned, GoneInv
<1>5. ASSUME NEW n, ClientRecv(n) PROVE HandshakeTypeOK' /\ GoneInv' /\ UNCHANGED <<refused, gone>>
  BY <1>1, <1>5, ClientRecvType DEF ClientRecv, GoneInv, Returned
<1>6. CASE ServerInit
  BY <1>1, <1>6 DEF ServerInit, HandshakeTypeOK, Sides, Returned, GoneInv
<1>7. CASE ServerRecvEnds
  BY <1>1, <1>7 DEF ServerRecvEnds, HandshakeTypeOK, Sides, Returned, GoneInv
<1>8. ASSUME NEW n, ServerRecv(n) PROVE HandshakeTypeOK' /\ GoneInv' /\ UNCHANGED <<refused, gone>>
  BY <1>1, <1>8, ServerRecvType DEF ServerRecv, GoneInv, Returned
<1>9. CASE ServerSends
  <2>1. toClient' \in Seq(Cells)
    BY <1>1, <1>9, FlightType, ConcatProperties DEF ServerSends, HandshakeTypeOK
  <2> QED BY <1>1, <1>9, <2>1 DEF ServerSends, HandshakeTypeOK, GoneInv
<1>10. CASE Closing \/ NetworkFails
  BY <1>1, <1>10 DEF Closing, Close, NetworkFails, HandshakeTypeOK, GoneInv
<1> QED BY <1>2, <1>3, <1>4, <1>5, <1>6, <1>7, <1>8, <1>9, <1>10
        DEF HandshakeNext, ClientStep, ServerStep

(* A call that has failed stays so, and its reason too.                     *)
LEMMA SpoiltStays ==
  ASSUME HandshakeInv, Spoilt, HandshakeNext
  PROVE  Sound'
<1>1. client.pc = "failed" => client' = client
  BY DEF HandshakeNext, ClientStep, ServerStep, ClientInit, ClientHello, ClientRecvEnds, ClientRecv,
         ServerInit, ServerRecvEnds, ServerRecv, ServerSends, Closing, Close, NetworkFails
<1>2. server.pc = "failed" => server' = server
  BY DEF HandshakeNext, ClientStep, ServerStep, ClientInit, ClientHello, ClientRecvEnds, ClientRecv,
         ServerInit, ServerRecvEnds, ServerRecv, ServerSends, Closing, Close, NetworkFails
<1>3. Spoilt' BY <1>1, <1>2 DEF Spoilt
<1>4. ~SplitHello => refused # {} \/ "network" \in gone
  BY DEF HandshakeInv, Sound, FailsForAReason, Spoilt
<1>5. refused \subseteq refused' /\ gone \subseteq gone' BY HandshakeKeeps
<1> QED BY <1>3, <1>4, <1>5 DEF Sound, FailsForAReason

(* What a call that gives up makes of a state.                              *)
LEMMA Spoils ==
  ASSUME Spoilt', ~SplitHello => refused' # {} \/ "network" \in gone'
  PROVE  Sound'
BY DEF Sound, FailsForAReason

(* As long as neither call gives up, neither program is gone before the     *)
(* other has all it waits for.                                              *)
LEMMA StillThere ==
  ASSUME HandshakeInv, ~Spoilt
  PROVE  /\ Phase0 => "server" \notin gone
         /\ Phase1 \/ Phase2 \/ Phase3 => gone \subseteq {"network"}
         /\ Phase4 => "client" \notin gone
BY DEF HandshakeInv, HandshakeTypeOK, GoneInv, Returned, Phase0, Phase1, Phase2, Phase3, Phase4

LEMMA ClientInitStep ==
  ASSUME HandshakeInv, ~Spoilt, ClientInit
  PROVE  Sound'
<1>1. Phase0
  BY DEF HandshakeInv, Sound, ClientInit, Phase1, Phase2, Phase3, Phase4, Phase5
<1>2. (~SplitHello => FailsForAReason)'
  BY DEF HandshakeInv, Sound, ClientInit, HandshakeTypeOK, Sides, FailsForAReason
<1>3. Phase0'
  BY <1>1 DEF ClientInit, HandshakeInv, HandshakeTypeOK, Sides, Phase0
<1> QED BY <1>2, <1>3 DEF Sound

LEMMA ClientHelloStep ==
  ASSUME HandshakeInv, ~Spoilt, ClientHello
  PROVE  Sound'
<1>1. Phase0
  BY DEF HandshakeInv, Sound, ClientHello, Phase1, Phase2, Phase3, Phase4, Phase5
<1>2. client \in Sides /\ UNCHANGED <<server, toClient, gone, refused, dropped>>
  BY DEF HandshakeInv, HandshakeTypeOK, ClientHello
<1>3. CASE SendMayFail("server") /\ client' = [client EXCEPT !.pc = "failed", !.hCtx = TRUE]
  <2>1. Spoilt' BY <1>2, <1>3 DEF Spoilt, Sides
  <2>2. "network" \in gone' BY <1>1, <1>2, <1>3, StillThere DEF SendMayFail
  <2> QED BY <2>1, <2>2, Spoils
<1>4. CASE /\ toServer' = toServer \o Flight("hello")
           /\ client' = [client EXCEPT !.pc = "recv", !.InitContext = TRUE, !.hCtx = TRUE]
  <2>1. toServer' = Flight("hello")
    BY <1>1, <1>4, FlightType, ConcatEmptySeq DEF Phase0
  <2>2. client'.pc = "recv" /\ client'.t = client.t BY <1>2, <1>4 DEF Sides
  <2>3. AtServer' = Flight("hello")
    BY <1>1, <1>2, <2>1, FlightType, ConcatEmptySeq DEF AtServer, Stock, Phase0
  <2>4. Phase1' BY <1>1, <1>2, <2>2, <2>3 DEF Phase0, Phase1
  <2>5. (~SplitHello => FailsForAReason)'
    BY <1>2, <2>2 DEF HandshakeInv, Sound, FailsForAReason
  <2> QED BY <2>4, <2>5 DEF Sound
<1> QED BY <1>3, <1>4 DEF ClientHello

(* While the client waits the server does not close the connection, unless  *)
(* the last flight is on its way.                                           *)
LEMMA ClientEndsStep ==
  ASSUME HandshakeInv, ~Spoilt, ClientRecvEnds
  PROVE  Sound'
<1>1. Phase1 \/ Phase2 \/ Phase3 \/ Phase4
  BY DEF HandshakeInv, Sound, ClientRecvEnds, Phase0, Phase5
<1>2. client \in Sides /\ UNCHANGED gone
  BY DEF HandshakeInv, ClientRecvEnds, HandshakeTypeOK
<1>3. CASE "network" \in gone /\ client' = [client EXCEPT !.pc = "failed"]
  <2>1. Spoilt' BY <1>2, <1>3 DEF Spoilt, Sides
  <2> QED BY <1>2, <1>3, <2>1, Spoils
<1>4. CASE toClient = <<>> /\ "server" \in gone
  <2>1. Phase4 BY <1>1, <1>4, StillThere
  <2>2. AtClient = client.t /\ Len(client.t) < Size /\ Size \in Nat /\ Len(client.t) \in Nat
    BY <1>2, <1>4, ConcatEmptySeq, FlightType, LenProperties
       DEF AtClient, Stock, HandshakeInv, HandshakeTypeOK, Sides
  <2> QED BY <2>1, <2>2 DEF Phase4
<1> QED BY <1>3, <1>4 DEF ClientRecvEnds

LEMMA ClientRecvStep ==
  ASSUME HandshakeInv, ~Spoilt, NEW n, ClientRecv(n)
  PROVE  Sound'
<1> DEFINE t == Joined(client.t, toClient, n)
           rest == Later(toClient, n)
<1>1. /\ client \in Sides /\ client.t \in Seq(Cells) /\ toClient \in Seq(Cells)
      /\ toServer \in Seq(Cells) /\ dropped \in Seq(Cells)
      /\ n \in 1..Len(toClient) /\ client.pc = "recv" /\ toClient' = rest
      /\ UNCHANGED <<server, gone, refused>>
      /\ toClient # <<>>
  BY EmptySeq DEF HandshakeInv, HandshakeTypeOK, Sides, ClientRecv, Later
<1>2. /\ t \in Seq(Cells) /\ rest \in Seq(Cells) /\ t # <<>> /\ Len(t) = Len(client.t) + n
      /\ Stock(t, rest) = AtClient /\ AtClient \in Seq(Cells)
      /\ Len(t) \in Nat /\ Len(rest) = Len(AtClient) - Len(t) /\ Len(rest) \in Nat
      /\ \A i \in 1..Len(t) : t[i] = AtClient[i]
      /\ \A i \in 1..Len(rest) : rest[i] = AtClient[Len(t) + i]
      /\ Head(t) = AtClient[1] /\ Head(t) \in Cells /\ Len(AtClient) \in Nat
  <2>1. /\ t \in Seq(Cells) /\ rest \in Seq(Cells) /\ t # <<>> /\ Len(t) = Len(client.t) + n
        /\ Stock(t, rest) = AtClient /\ AtClient \in Seq(Cells)
        /\ Len(rest) = Len(toClient) - n /\ Len(AtClient) = Len(client.t) + Len(toClient)
        /\ \A i \in 1..Len(t) : t[i] = AtClient[i]
        /\ \A i \in 1..Len(rest) : rest[i] = AtClient[Len(t) + i]
    <3> DEFINE all == Stock(client.t, toClient)
    <3>0. client.t \in Seq(Cells) /\ toClient \in Seq(Cells) /\ n \in 1..Len(toClient)
      BY <1>1
    <3>1. /\ t \in Seq(Cells) /\ rest \in Seq(Cells) /\ t # <<>> /\ Len(t) = Len(client.t) + n
          /\ Stock(t, rest) = all /\ all \in Seq(Cells)
          /\ Len(rest) = Len(toClient) - n /\ Len(all) = Len(client.t) + Len(toClient)
      BY <3>0, CellsReceipt
    <3>2. \A i \in 1..Len(t) : t[i] = all[i] BY <3>0, CellsReceipt
    <3>3. \A i \in 1..Len(rest) : rest[i] = all[Len(t) + i] BY <3>0, CellsReceipt
    <3> QED BY <3>1, <3>2, <3>3 DEF AtClient
  <2>2. /\ Len(t) \in Nat /\ Len(rest) \in Nat /\ Len(client.t) \in Nat
        /\ Len(toClient) \in Nat /\ Len(AtClient) \in Nat
    BY <1>1, <2>1, LenProperties
  <2> HIDE DEF t, rest
  <2>3. Head(t) = t[1] /\ Head(t) \in Cells /\ 1 \in 1..Len(t)
    BY <1>1, <2>1, <2>2, HeadTailProperties
  <2>4. Head(t) = AtClient[1] BY <2>1, <2>3
  <2>5. n <= Len(toClient) /\ n \in Nat BY <1>1, <2>2
  <2>6. Len(rest) = Len(AtClient) - Len(t) BY ONLY <2>1, <2>2, <2>5
  <2> QED BY ONLY <2>1, <2>2, <2>3, <2>4, <2>6
<1>3. Phase2 \/ Phase4
  BY <1>1 DEF HandshakeInv, Sound, Phase0, Phase1, Phase3, Phase5
<1> HIDE DEF t, rest
<1>4. ASSUME client'.pc \in {"recv", "ok"} PROVE (~SplitHello => FailsForAReason)'
  BY <1>1, <1>4 DEF HandshakeInv, Sound, FailsForAReason
<1>5. CASE Phase2
  <2>1. /\ Head(t).flight = "serverHello"
        /\ Complete(t) => rest = <<>> /\ Behind(t) = <<>>
        /\ ~Complete(t) => Stock(t, rest) = Flight("serverHello")
    <3>1. Stock(client.t, toClient) = Flight("serverHello") BY <1>5 DEF Phase2, AtClient
    <3> QED BY <1>1, <3>1, WholeFlight DEF t, rest
  <2>2. CASE ~Complete(t)
    <3>1. /\ client' = [client EXCEPT !.t = t] /\ UNCHANGED <<toServer, dropped>>
          /\ client'.t = t /\ client'.pc = "recv"
      BY <1>1, <2>2 DEF ClientRecv, Joined, t, Sides
    <3>2. AtClient' = Flight("serverHello")
      BY <1>1, <2>1, <2>2, <3>1 DEF AtClient
    <3>3. Phase2' BY <1>1, <1>5, <3>1, <3>2 DEF Phase2
    <3> QED BY <1>4, <3>1, <3>3 DEF Sound
  <2>3. CASE Complete(t) /\ client'.pc = "failed"
    <3>1. client' # [client EXCEPT !.t = <<>>] BY <1>1, <2>3 DEF Sides
    <3>2. SendMayFail("server") BY <2>1, <2>3, <3>1 DEF ClientRecv, Joined, t
    <3>3. "network" \in gone' BY <1>1, <1>5, <3>2, StillThere DEF SendMayFail
    <3> QED BY <2>3, <3>3, Spoils DEF Spoilt
  <2>4. CASE Complete(t) /\ client'.pc # "failed"
    <3>1. client' # [client EXCEPT !.t = <<>>, !.pc = "failed"] BY <1>1, <2>4 DEF Sides
    <3>2. /\ toServer' = toServer \o Flight("keys") /\ client' = [client EXCEPT !.t = <<>>]
          /\ dropped' = dropped \o Behind(t)
      BY <2>1, <2>4, <3>1 DEF ClientRecv, Joined, t
    <3>3. /\ toServer' = Flight("keys") /\ dropped' = <<>>
          /\ client'.t = <<>> /\ client'.pc = "recv"
      BY <1>1, <1>5, <2>1, <2>4, <3>2, FlightType, ConcatEmptySeq, EmptySeq DEF Phase2, Sides
    <3>4. AtServer' = Flight("keys")
      BY <1>1, <1>5, <3>3, FlightType, ConcatEmptySeq DEF AtServer, Stock, Phase2
    <3>5. Phase3' BY <1>1, <1>5, <2>1, <2>4, <3>3, <3>4 DEF Phase2, Phase3
    <3> QED BY <1>4, <3>3, <3>5 DEF Sound
  <2> QED BY <2>2, <2>3, <2>4
<1>6. CASE Phase4
  <2>1. /\ Head(t).flight = "finished" /\ Head(t).left = Size - 1 /\ Size \in Nat \ {0}
    <3>1. Size \in Nat \ {0} /\ 1 \in 1..Size BY FlightType
    <3>2. AtClient[1] = Flight("finished")[1] BY <1>6, <3>1 DEF Phase4
    <3>3. Flight("finished")[1] = [flight |-> "finished", left |-> Size - 1]
      BY <3>1, FlightType
    <3> QED BY <1>2, <3>1, <3>2, <3>3
  <2>2. CASE ~Complete(t)
    <3>1. /\ client' = [client EXCEPT !.t = t] /\ UNCHANGED <<toServer, dropped>>
          /\ client'.t = t /\ client'.pc = "recv"
      BY <1>1, <2>2 DEF ClientRecv, Joined, t, Sides
    <3>2. AtClient' = AtClient BY <1>1, <1>2, <3>1 DEF AtClient
    <3>3. Phase4' BY <1>1, <1>6, <3>1, <3>2 DEF Phase4
    <3> QED BY <1>4, <3>1, <3>3 DEF Sound
  <2>3. CASE Complete(t)
    <3>1. /\ client' = [client EXCEPT !.t = <<>>, !.pc = "ok"]
          /\ dropped' = dropped \o Behind(t) /\ UNCHANGED toServer
      BY <2>1, <2>3 DEF ClientRecv, Joined, t
    <3>2. client'.t = <<>> /\ client'.pc = "ok" BY <1>1, <3>1 DEF Sides
    <3>3. Len(t) >= Size BY <1>2, <2>1, <2>3 DEF Complete
    <3>4. \A i \in 1..Len(AtClient) : i > Size => AtClient[i].flight = "data"
      BY <1>6 DEF Phase4
    <3>5. \A i \in 1..Len(rest) : rest[i].flight = "data"
      <4> SUFFICES ASSUME NEW i \in 1..Len(rest) PROVE rest[i].flight = "data" OBVIOUS
      <4>1. Len(t) + i \in 1..Len(AtClient) /\ Len(t) + i > Size
        BY <1>2, <2>1, <3>3
      <4> QED BY <1>2, <3>4, <4>1
    <3>6. \A i \in 1..Len(dropped') : dropped'[i].flight = "data"
      <4>1. /\ \A i \in (Size + 1)..Len(t) : t[i].flight = "data"
            /\ \A i \in (Size + 1)..Len(t) : t[i] \in Cells
        <5>1. Len(t) <= Len(AtClient) BY <1>2
        <5>2. \A i \in (Size + 1)..Len(t) : i \in 1..Len(t) /\ i \in 1..Len(AtClient) /\ i > Size
          BY <1>2, <2>1, <5>1
        <5> QED BY <1>2, <3>4, <5>2, ElementOfSeq
      <4>2. /\ Behind(t) = SubSeq(t, Size + 1, Len(t)) /\ Size + 1 \in Int /\ Len(t) \in Int
        <5>1. Head(t).left + 2 = Size + 1 BY <2>1
        <5>2. Behind(t) = SubSeq(t, Size + 1, Len(t)) BY <5>1 DEF Behind
        <5>3. Size + 1 \in Int /\ Len(t) \in Int BY <1>2, <2>1
        <5> QED BY <5>2, <5>3
      <4>3. /\ Behind(t) \in Seq(Cells)
            /\ Len(Behind(t)) = IF Size + 1 <= Len(t) THEN Len(t) - (Size + 1) + 1 ELSE 0
            /\ \A i \in 1..(Len(t) - (Size + 1) + 1) : Behind(t)[i] = t[(Size + 1) + i - 1]
        BY <4>1, <4>2, SubSeqProperties, Z3
      <4>4. dropped' = Behind(t) BY <1>6, <3>1, <4>3, ConcatEmptySeq DEF Phase4
      <4> SUFFICES ASSUME NEW i \in 1..Len(Behind(t)) PROVE Behind(t)[i].flight = "data"
        BY <4>4
      <4>5. (Size + 1) + i - 1 \in (Size + 1)..Len(t) /\ i \in 1..(Len(t) - (Size + 1) + 1)
        BY <1>2, <2>1, <4>3
      <4> QED BY <4>1, <4>3, <4>5
    <3>7. Phase5' BY <1>1, <1>6, <3>1, <3>2, <3>5, <3>6 DEF Phase4, Phase5
    <3> QED BY <1>4, <3>2, <3>7 DEF Sound
  <2> QED BY <2>2, <2>3
<1> QED BY <1>3, <1>5, <1>6

LEMMA ServerInitStep ==
  ASSUME HandshakeInv, ~Spoilt, ServerInit
  PROVE  Sound'
<1>1. Phase0 \/ Phase1
  BY DEF HandshakeInv, Sound, ServerInit, Phase2, Phase3, Phase4, Phase5
<1>2. /\ server \in Sides /\ server.pc = "init"
      /\ UNCHANGED <<client, toClient, toServer, gone, dropped>>
  BY DEF HandshakeInv, ServerInit, HandshakeTypeOK
<1>3. CASE server' = [server EXCEPT !.pc = "failed"] /\ refused' = refused \cup {"server"}
  <2>1. Spoilt' BY <1>2, <1>3 DEF Spoilt, Sides
  <2>2. refused' # {} BY <1>3
  <2> QED BY <2>1, <2>2, Spoils
<1>4. CASE server' = [server EXCEPT !.pc = "recv"] /\ UNCHANGED refused
  <2>1. /\ server'.pc = "recv" /\ server'.t = server.t
        /\ server'.InitContext = server.InitContext
    BY <1>2, <1>4 DEF Sides
  <2>2. AtServer' = AtServer BY <1>2, <2>1 DEF AtServer
  <2>3. Phase0' \/ Phase1' BY <1>1, <1>2, <1>4, <2>1, <2>2 DEF Phase0, Phase1
  <2>4. (~SplitHello => FailsForAReason)'
    BY <1>2, <1>4, <2>1 DEF HandshakeInv, Sound, FailsForAReason
  <2> QED BY <2>3, <2>4 DEF Sound
<1> QED BY <1>3, <1>4 DEF ServerInit

LEMMA ServerEndsStep ==
  ASSUME HandshakeInv, ~Spoilt, ServerRecvEnds
  PROVE  Sound'
<1>1. Phase0 \/ Phase1 \/ Phase2 \/ Phase3
  BY DEF HandshakeInv, Sound, ServerRecvEnds, Phase4, Phase5
<1>2. Spoilt' /\ UNCHANGED <<gone, refused>>
  BY DEF HandshakeInv, ServerRecvEnds, HandshakeTypeOK, Sides, Spoilt
<1>3. CASE "network" \in gone BY <1>2, <1>3, Spoils
<1>4. CASE "client" \in gone
  <2>1. Phase0 BY <1>1, <1>4, StillThere
  <2>2. client.pc = "zero"
    BY <1>4, <2>1 DEF HandshakeInv, GoneInv, Returned, Phase0
  <2>3. refused # {} BY <2>1, <2>2 DEF Phase0
  <2> QED BY <1>2, <2>3, Spoils
<1> QED BY <1>3, <1>4 DEF ServerRecvEnds

LEMMA ServerRecvStep ==
  ASSUME HandshakeInv, ~Spoilt, NEW n, ServerRecv(n)
  PROVE  Sound'
<1> DEFINE t == Joined(server.t, toServer, n)
           rest == Later(toServer, n)
           invalid == server.InitContext /\ ~server.hCtx
           next == [server EXCEPT !.t = <<>>, !.InitContext = TRUE]
<1>1. /\ server \in Sides /\ server.t \in Seq(Cells) /\ toClient \in Seq(Cells)
      /\ toServer \in Seq(Cells) /\ dropped \in Seq(Cells)
      /\ n \in 1..Len(toServer) /\ server.pc = "recv" /\ toServer' = rest
      /\ UNCHANGED <<client, gone, refused>>
      /\ toServer # <<>>
  BY EmptySeq DEF HandshakeInv, HandshakeTypeOK, Sides, ServerRecv, Later
<1>2. /\ t \in Seq(Cells) /\ rest \in Seq(Cells) /\ t # <<>>
      /\ Len(t) = Len(server.t) + n /\ Len(t) \in Nat /\ Len(server.t) \in Nat
  <2>1. t \in Seq(Cells) /\ rest \in Seq(Cells) /\ t # <<>> /\ Len(t) = Len(server.t) + n
    BY <1>1, CellsReceipt
  <2> HIDE DEF t, rest
  <2> QED BY <1>1, <2>1, LenProperties
<1> HIDE DEF t, rest
<1>3. Phase1 \/ Phase3
  BY <1>1 DEF HandshakeInv, Sound, Phase0, Phase2, Phase4, Phase5
<1>4. ASSUME server'.pc \in {"recv", "ok"} PROVE (~SplitHello => FailsForAReason)'
  BY <1>1, <1>4 DEF HandshakeInv, Sound, FailsForAReason
(* A send that fails.                                                       *)
<1>5. ASSUME SendMayFail("client"), server'.pc = "failed" PROVE Sound'
  <2>1. "network" \in gone' BY <1>1, <1>3, <1>5, StillThere DEF SendMayFail
  <2> QED BY <1>5, <2>1, Spoils DEF Spoilt
<1>6. CASE Phase1
  <2>1. Stock(server.t, toServer) = Flight("hello") BY <1>6 DEF Phase1, AtServer
  <2>2. /\ Head(t).flight = "hello"
        /\ Complete(t) => rest = <<>> /\ Behind(t) = <<>>
        /\ ~Complete(t) => Len(t) < Size /\ Stock(t, rest) = Flight("hello")
    BY <1>1, <2>1, WholeFlight DEF t, rest
  <2>3. ASSUME ~SplitHello PROVE ~invalid /\ Complete(t)
    <3>1. server.t = <<>> /\ ~server.InitContext BY <1>6, <2>3 DEF Phase1
    <3>2. toServer = Flight("hello") BY <1>1, <2>1, <3>1, ConcatEmptySeq DEF Stock
    <3>3. Head(toServer).flight = "hello"
      <4>1. Head(toServer) = toServer[1] /\ 1 \in 1..Size BY <1>1, FlightType
      <4>2. toServer[1] = [flight |-> "hello", left |-> Size - 1] BY <3>2, <4>1, FlightType
      <4> QED BY <4>1, <4>2
    <3>4. n = Size BY <2>3, <3>1, <3>2, <3>3, FlightType DEF ServerRecv, Whole
    <3>5. Len(t) >= Size BY <1>1, <1>2, <3>4, FlightType
    <3> QED BY <1>2, <2>2, <3>1, <3>5, FlightType
  <2>4. CASE invalid
    <3>1. server' = [next EXCEPT !.pc = "failed"] BY <2>4 DEF ServerRecv
    <3>2. Spoilt' BY <1>1, <3>1 DEF Sides, Spoilt
    <3> QED BY <2>3, <2>4, <3>2, Spoils
  <2>5. CASE ~invalid /\ ~Complete(t)
    <3>1. server' = [next EXCEPT !.t = t] /\ UNCHANGED <<toClient, dropped>>
      BY <2>2, <2>5 DEF ServerRecv, Joined, t
    <3>2. server'.pc = "recv" /\ server'.t = t
      BY <1>1, <3>1 DEF Sides
    <3>3. AtServer' = Flight("hello") BY <1>1, <2>2, <2>5, <3>2 DEF AtServer
    <3>4. Phase1' BY <1>1, <1>6, <2>3, <2>5, <3>1, <3>2, <3>3 DEF Phase1
    <3> QED BY <1>4, <3>2, <3>4 DEF Sound
  <2>6. CASE ~invalid /\ Complete(t) /\ server'.pc = "failed"
    <3>1. server' # [next EXCEPT !.hCtx = TRUE] BY <1>1, <2>6 DEF Sides
    <3>2. SendMayFail("client") BY <2>2, <2>6, <3>1 DEF ServerRecv, Joined, t
    <3> QED BY <1>5, <2>6, <3>2
  <2>7. CASE ~invalid /\ Complete(t) /\ server'.pc # "failed"
    <3>1. server' # [next EXCEPT !.pc = "failed", !.hCtx = TRUE] BY <1>1, <2>7 DEF Sides
    <3>2. /\ toClient' = toClient \o Flight("serverHello")
          /\ server' = [next EXCEPT !.hCtx = TRUE] /\ dropped' = dropped \o Behind(t)
      BY <2>2, <2>7, <3>1 DEF ServerRecv, Joined, t
    <3>3. /\ server'.pc = "recv" /\ server'.t = <<>> /\ server'.hCtx /\ toServer' = <<>>
      BY <1>1, <2>2, <2>7, <3>2 DEF Sides
    <3>4. toClient' = Flight("serverHello") /\ dropped' = <<>>
      BY <1>1, <1>6, <2>2, <2>7, <3>2, FlightType, ConcatEmptySeq DEF Phase1
    <3>5. AtClient' = Flight("serverHello")
      BY <1>1, <1>6, <3>4, FlightType, ConcatEmptySeq DEF AtClient, Stock, Phase1
    <3>6. Phase2' BY <1>1, <1>6, <3>3, <3>4, <3>5 DEF Phase1, Phase2
    <3> QED BY <1>4, <3>3, <3>6 DEF Sound
  <2> QED BY <2>4, <2>5, <2>6, <2>7
<1>7. CASE Phase3
  <2>1. Stock(server.t, toServer) = Flight("keys") BY <1>7 DEF Phase3, AtServer
  <2>2. /\ Head(t).flight = "keys"
        /\ Complete(t) => rest = <<>> /\ Behind(t) = <<>>
        /\ ~Complete(t) => Stock(t, rest) = Flight("keys")
    BY <1>1, <2>1, WholeFlight DEF t, rest
  <2>3. ~invalid BY <1>7 DEF Phase3
  <2>4. CASE ~Complete(t)
    <3>1. server' = [next EXCEPT !.t = t] /\ UNCHANGED <<toClient, dropped>>
      BY <2>2, <2>3, <2>4 DEF ServerRecv, Joined, t
    <3>2. server'.pc = "recv" /\ server'.t = t /\ server'.hCtx
      BY <1>1, <1>7, <3>1 DEF Sides, Phase3
    <3>3. AtServer' = Flight("keys") BY <1>1, <2>2, <2>4, <3>2 DEF AtServer
    <3>4. Phase3' BY <1>1, <1>7, <3>1, <3>2, <3>3 DEF Phase3
    <3> QED BY <1>4, <3>2, <3>4 DEF Sound
  <2>5. CASE Complete(t) /\ server'.pc = "failed"
    <3>1. server' # [next EXCEPT !.pc = "ok"] BY <1>1, <2>5 DEF Sides
    <3>2. SendMayFail("client") BY <2>2, <2>3, <2>5, <3>1 DEF ServerRecv, Joined, t
    <3> QED BY <1>5, <2>5, <3>2
  <2>6. CASE Complete(t) /\ server'.pc # "failed"
    <3>1. server' # [next EXCEPT !.pc = "failed", !.hCtx = TRUE] BY <1>1, <2>6 DEF Sides
    <3>2. /\ toClient' = toClient \o Flight("finished")
          /\ server' = [next EXCEPT !.pc = "ok"] /\ dropped' = dropped \o Behind(t)
      BY <2>2, <2>3, <2>6, <3>1 DEF ServerRecv, Joined, t
    <3>3. /\ server'.pc = "ok" /\ server'.t = <<>> /\ toServer' = <<>>
      BY <1>1, <2>2, <2>6, <3>2 DEF Sides
    <3>4. toClient' = Flight("finished") /\ dropped' = <<>>
      BY <1>1, <1>7, <2>2, <2>6, <3>2, FlightType, ConcatEmptySeq DEF Phase3
    <3>5. AtClient' = Flight("finished")
      BY <1>1, <1>7, <3>4, FlightType, ConcatEmptySeq DEF AtClient, Stock, Phase3
    <3>6. Len(Flight("finished")) = Size /\ Size \in Nat BY FlightType
    <3>7. Phase4' BY <1>1, <1>7, <3>3, <3>4, <3>5, <3>6 DEF Phase3, Phase4
    <3> QED BY <1>4, <3>3, <3>7 DEF Sound
  <2> QED BY <2>4, <2>5, <2>6
<1> QED BY <1>3, <1>6, <1>7

(* What the server sends early lies behind its last flight.                 *)
LEMMA ServerSendsStep ==
  ASSUME HandshakeInv, ~Spoilt, ServerSends
  PROVE  Sound'
<1>1. /\ toClient \in Seq(Cells) /\ client.t \in Seq(Cells) /\ server.pc = "ok"
      /\ toClient' = toClient \o Flight("data")
      /\ UNCHANGED <<client, server, toServer, gone, refused, dropped>>
  BY DEF HandshakeInv, HandshakeTypeOK, Sides, ServerSends
<1>2. /\ toClient' \in Seq(Cells) /\ Len(toClient') = Len(toClient) + Size
      /\ Len(toClient) \in Nat /\ Size \in Nat
      /\ \A i \in 1..(Len(toClient) + Size) : toClient'[i] =
           IF i <= Len(toClient) THEN toClient[i] ELSE Flight("data")[i - Len(toClient)]
  BY <1>1, FlightType, ConcatProperties, LenProperties
<1>3. ASSUME NEW i \in 1..Size PROVE Flight("data")[i].flight = "data"
  <2>1. Flight("data")[i] = [flight |-> "data", left |-> Size - i] BY FlightType
  <2> QED BY <2>1
<1>4. (~SplitHello => FailsForAReason)' BY <1>1 DEF HandshakeInv, Sound, FailsForAReason
<1>5. CASE Phase4
  <2>1. /\ AtClient \in Seq(Cells) /\ Len(AtClient) \in Nat
        /\ AtClient' = AtClient \o Flight("data")
    <3>1. Flight("data") \in Seq(Cells) BY FlightType
    <3>2. AtClient \in Seq(Cells) BY <1>1, ConcatProperties DEF AtClient, Stock
    <3>3. AtClient' = Stock(client.t, Stock(toClient, Flight("data")))
      BY <1>1 DEF AtClient, Stock
    <3>4. AtClient' = Stock(AtClient, Flight("data"))
      BY <1>1, <3>1, <3>3, Stocking DEF AtClient
    <3> QED BY <3>2, <3>4, LenProperties DEF Stock
  <2>2. /\ Len(AtClient') = Len(AtClient) + Size
        /\ \A i \in 1..(Len(AtClient) + Size) : AtClient'[i] =
             IF i <= Len(AtClient) THEN AtClient[i] ELSE Flight("data")[i - Len(AtClient)]
    BY <2>1, FlightType, ConcatProperties
  <2>3. \A i \in 1..Size : AtClient'[i] = AtClient[i] /\ Len(AtClient) >= Size
    BY <1>2, <1>5, <2>1, <2>2 DEF Phase4
  <2>4. ASSUME NEW i \in 1..Len(AtClient'), i > Size PROVE AtClient'[i].flight = "data"
    <3>1. CASE i <= Len(AtClient) BY <1>2, <1>5, <2>1, <2>2, <2>4, <3>1 DEF Phase4
    <3>2. CASE i > Len(AtClient)
      <4>1. i - Len(AtClient) \in 1..Size /\ AtClient'[i] = Flight("data")[i - Len(AtClient)]
        BY <1>2, <2>1, <2>2, <3>2
      <4> QED BY <1>3, <4>1
    <3> QED BY <1>2, <2>1, <2>2, <3>1, <3>2
  <2>5. Len(AtClient') >= Size BY <1>2, <1>5, <2>1, <2>2 DEF Phase4
  <2>6. Phase4' BY <1>1, <1>5, <2>3, <2>4, <2>5 DEF Phase4
  <2> QED BY <1>4, <2>6 DEF Sound
<1>6. CASE Phase5
  <2>1. ASSUME NEW i \in 1..Len(toClient') PROVE toClient'[i].flight = "data"
    <3>1. CASE i <= Len(toClient) BY <1>2, <1>6, <3>1 DEF Phase5
    <3>2. CASE i > Len(toClient)
      <4>1. i - Len(toClient) \in 1..Size /\ toClient'[i] = Flight("data")[i - Len(toClient)]
        BY <1>2, <3>2
      <4> QED BY <1>3, <4>1
    <3> QED BY <1>2, <2>1, <3>1, <3>2
  <2>2. Phase5' BY <1>1, <1>6, <2>1 DEF Phase5
  <2> QED BY <1>4, <2>2 DEF Sound
<1> QED BY <1>1, <1>5, <1>6 DEF HandshakeInv, Sound, Phase0, Phase1, Phase2, Phase3

(* Closing a socket and a failing network change nothing of the flights.    *)
LEMMA GoneStep ==
  ASSUME HandshakeInv, ~Spoilt, Closing \/ NetworkFails
  PROVE  Sound'
<1>1. UNCHANGED <<client, server, toClient, toServer, refused, dropped>> /\ gone \subseteq gone'
  BY DEF Closing, Close, NetworkFails
<1>2. (~SplitHello => FailsForAReason)'
  BY <1>1 DEF HandshakeInv, Sound, FailsForAReason
<1>3. AtClient' = AtClient /\ AtServer' = AtServer BY <1>1 DEF AtClient, AtServer
<1>4. Phase0' \/ Phase1' \/ Phase2' \/ Phase3' \/ Phase4' \/ Phase5'
  BY <1>1, <1>3 DEF HandshakeInv, Sound, Phase0, Phase1, Phase2, Phase3, Phase4, Phase5
<1> QED BY <1>2, <1>4 DEF Sound

LEMMA HandshakeStays ==
  ASSUME HandshakeInv, UNCHANGED handshakeVars
  PROVE  HandshakeInv'
BY DEF handshakeVars, HandshakeInv, HandshakeTypeOK, GoneInv, Sound, Spoilt, FailsForAReason,
       AtClient, AtServer, Phase0, Phase1, Phase2, Phase3, Phase4, Phase5

LEMMA HandshakeInductive == HandshakeInv /\ [Next]_vars => HandshakeInv'
<1> SUFFICES ASSUME HandshakeInv, [Next]_vars PROVE HandshakeInv' OBVIOUS
<1>1. CASE UNCHANGED handshakeVars BY <1>1, HandshakeStays
<1>2. CASE HandshakeNext
  <2>1. ASSUME Spoilt PROVE Sound' BY <1>2, <2>1, SpoiltStays
  <2>2. ASSUME ~Spoilt PROVE Sound'
    BY <1>2, <2>2, ClientInitStep, ClientHelloStep, ClientEndsStep, ClientRecvStep, ServerInitStep,
       ServerEndsStep, ServerRecvStep, ServerSendsStep, GoneStep
       DEF HandshakeNext, ClientStep, ServerStep
  <2> QED BY <1>2, <2>1, <2>2, HandshakeKeeps DEF HandshakeInv
<1> QED BY <1>1, <1>2 DEF Next, Handshaking, Streaming, vars

LEMMA HandshakeInvariance == Spec => []HandshakeInv
<1>1. Init => HandshakeInv BY HandshakeInits DEF Init
<1> QED BY <1>1, HandshakeInductive, PTL DEF Spec

(* When both loops have ended in success nothing of the handshake is left,  *)
(* neither on its way nor in a buffer, and none of its cells was thrown     *)
(* away (ssl.cpp:435-568, 606-694), even if the hello came in pieces and    *)
(* whatever the server sends at once.                                      *)
THEOREM HandshakeEndsClean == Spec => []StreamsStartClean
<1>1. HandshakeInv => StreamsStartClean
  BY DEF HandshakeInv, Sound, Spoilt, StreamsStartClean, Phase0, Phase1, Phase2, Phase3, Phase4,
         Phase5
<1> QED BY <1>1, HandshakeInvariance, PTL

(* If the hello arrives whole, a handshake is only given up for want of     *)
(* credentials or because the network failed (ssl.cpp:482-485, 524-525,     *)
(* 632-634, 672-673), however the other flights are cut.                    *)
THEOREM HandshakeFailsForAReason == ~SplitHello => (Spec => []FailsForAReason)
<1> SUFFICES ASSUME ~SplitHello PROVE Spec => []FailsForAReason OBVIOUS
<1>1. HandshakeInv => FailsForAReason BY DEF HandshakeInv, Sound
<1> QED BY <1>1, HandshakeInvariance, PTL

-----------------------------------------------------------------------------
(* The stream *)

(* What s_ssend has still to send of the record at hand.                    *)
Unsent ==
  IF send.parts = <<>> THEN <<>>
  ELSE IF Len(send.parts) = 1 THEN send.parts[1]
  ELSE IF Len(send.parts) = 2 THEN Stock(send.parts[1], send.parts[2])
  ELSE Stock(send.parts[1], Stock(send.parts[2], send.parts[3]))

(* The cells the reader has still to look at, to the end of the record that *)
(* is being sent.                                                          *)
Flow == Stock(Stock(Stock(mmsg, extra), wire), Unsent)

(* A flow is made of records, the last of which may be cut off, and at most *)
(* a close notification at its end.                                         *)
Starts(S, i) == i = 1 \/ S[i - 1].left = 0

IsClose(S, i) == S[i].type = "close" /\ S[i].left = 0 /\ i = Len(S)
IsRecord(S, i) == \E m \in 1..MaxMessage :
  /\ S[i].left = Header + m + Trailer - 1
  /\ \A j \in 1..(Header + m + Trailer) :
       i + j - 1 <= Len(S) => S[i + j - 1] = Record(S[i].byte, m)[j]

Framed(S) == \A i \in 1..Len(S) : Starts(S, i) => IsClose(S, i) \/ IsRecord(S, i)

(* Each of its records goes on where the one before it, or the reader, is.  *)
Chained(S, given) == \A i \in 1..Len(S) :
  Starts(S, i) => S[i].byte = (IF i = 1 THEN given ELSE S[i - 1].byte)

(* It ends with a whole record, at byte e.                                  *)
EndsAt(S, given, e) ==
  IF S = <<>> THEN given = e ELSE S[Len(S)].left = 0 /\ S[Len(S)].byte = e

(* What the reader was given or will be given without another record, and   *)
(* what was cut into records.                                               *)
Given == Len(read) + Len(pending)
Sent == IF send.pc \in {"loop", "parts"} THEN written - send.sz + send.mPos ELSE written

SendRec == [pc : {"idle", "loop", "parts", "failed"}, sz : Nat, mPos : Nat,
            parts : Seq(Seq(Cell)), ret : Nat]

(* The record at hand ends where the next will begin.                       *)
UnsentEnds == \A i \in 1..Len(Unsent) : Unsent[i].left = 0 => Unsent[i].byte = Sent

SendInv ==
  /\ send \in SendRec
  /\ send.pc \in {"loop", "parts"} => send.sz <= written
  /\ conn = "broken" <=> send.pc = "failed"
  /\ send.pc = "parts" => Len(send.parts) \in 1..3 /\ send.mPos > 0
  /\ send.pc # "parts" => send.parts = <<>>
  /\ UnsentEnds

(* A record ends at byte e, or the reader is past it.                       *)
EndsBefore(S, given, e) == given >= e \/ \E i \in 1..Len(S) : S[i].left = 0 /\ S[i].byte = e

FlowInv ==
  /\ Framed(Flow) /\ Chained(Flow, Given)
  /\ Given <= written /\ \A i \in 1..Len(Flow) : Flow[i].byte <= written
  /\ send.pc # "failed" => EndsAt(Flow, Given, Sent)
  /\ send.pc \in {"loop", "parts"} => EndsBefore(Flow, Given, Owed)
  /\ \A i \in 1..Len(Flow) : Flow[i].type = "close" => conn = "closed" /\ send.pc = "idle"

(* s_recv looks at mmsg only when it holds something, and asks for more     *)
(* only when that is not a whole record.                                    *)
RecvInv ==
  /\ recv.pc # "idle" => ended = "none"
  /\ recv.pc \in {"fill", "decrypt"} => pending = <<>>
  /\ recv.pc = "begin" \/ (recv.pc = "idle" /\ ended = "none") => mmsg = <<>>
  /\ recv.pc = "fill" /\ mmsg # <<>> => extra = <<>> /\ Len(mmsg) <= mmsg[1].left
  /\ recv.pc = "decrypt" => mmsg # <<>> /\ extra = <<>>
  /\ Len(extra) <= 10 * MaxMessage

(* The reader has the first bytes, and the next are kept for it.            *)
ReadInv ==
  /\ \A i \in 1..Len(read) : read[i] = i
  /\ \A i \in 1..Len(pending) : pending[i] = Len(read) + i
  /\ ended = "closed" => conn = "closed" /\ Len(read) >= Owed

StreamInv == StreamTypeOK /\ SendInv /\ FlowInv /\ RecvInv /\ ReadInv

-----------------------------------------------------------------------------
(* Cells put together and cut *)

LEMMA CellStock ==
  ASSUME NEW A \in Seq(Cell), NEW B \in Seq(Cell)
  PROVE  /\ Stock(A, B) \in Seq(Cell) /\ Len(Stock(A, B)) = Len(A) + Len(B)
         /\ Len(A) \in Nat /\ Len(B) \in Nat
         /\ \A i \in 1..Len(A) : Stock(A, B)[i] = A[i]
         /\ \A i \in 1..Len(B) : Stock(A, B)[Len(A) + i] = B[i]
         /\ \A i \in 1..Len(Stock(A, B)) : i > Len(A) => Stock(A, B)[i] = B[i - Len(A)]
<1>1. Len(A) \in Nat /\ Len(B) \in Nat BY LenProperties
<1>2. /\ A \o B \in Seq(Cell) /\ Len(A \o B) = Len(A) + Len(B)
      /\ \A i \in 1..(Len(A) + Len(B)) :
           (A \o B)[i] = IF i <= Len(A) THEN A[i] ELSE B[i - Len(A)]
  BY ConcatProperties
<1> QED BY <1>1, <1>2 DEF Stock

LEMMA CellStockEmpty ==
  ASSUME NEW A \in Seq(Cell)
  PROVE  Stock(A, <<>>) = A /\ Stock(<<>>, A) = A
BY ConcatEmptySeq DEF Stock

LEMMA CellStocking ==
  ASSUME NEW A \in Seq(Cell), NEW B \in Seq(Cell), NEW C \in Seq(Cell)
  PROVE  Stock(Stock(A, B), C) = Stock(A, Stock(B, C))
BY Stocking

LEMMA CellReceipt ==
  ASSUME NEW A \in Seq(Cell), NEW B \in Seq(Cell), NEW n \in 1..Len(B)
  PROVE  /\ Joined(A, B, n) \in Seq(Cell) /\ Later(B, n) \in Seq(Cell)
         /\ Joined(A, B, n) # <<>> /\ Len(Joined(A, B, n)) = Len(A) + n
         /\ Stock(Joined(A, B, n), Later(B, n)) = Stock(A, B)
<1>1. Joined(A, B, n) \in Seq(Cell) /\ Later(B, n) \in Seq(Cell) BY Receipt
<1>2. Joined(A, B, n) # <<>> /\ Len(Joined(A, B, n)) = Len(A) + n BY Receipt
<1>3. Stock(Joined(A, B, n), Later(B, n)) = Stock(A, B) BY Receipt
<1> QED BY <1>1, <1>2, <1>3

LEMMA CellLater ==
  ASSUME NEW A \in Seq(Cell), NEW d \in 0..Len(A)
  PROVE  /\ Later(A, d) \in Seq(Cell) /\ Len(Later(A, d)) = Len(A) - d
         /\ \A i \in 1..Len(Later(A, d)) : Later(A, d)[i] = A[d + i]
<1>1. Len(A) \in Nat /\ \A i \in 1..Len(A) : A[i] \in Cell BY LenProperties, ElementOfSeq
<1>2. \A i \in (d + 1)..Len(A) : A[i] \in Cell BY <1>1
<1> QED BY <1>1, <1>2, SubSeqProperties, Z3 DEF Later

LEMMA CellFirst ==
  ASSUME NEW A \in Seq(Cell), NEW k \in 0..Len(A)
  PROVE  /\ SubSeq(A, 1, k) \in Seq(Cell) /\ Len(SubSeq(A, 1, k)) = k
         /\ \A i \in 1..k : SubSeq(A, 1, k)[i] = A[i]
<1>1. Len(A) \in Nat /\ \A i \in 1..Len(A) : A[i] \in Cell BY LenProperties, ElementOfSeq
<1>2. \A i \in 1..k : A[i] \in Cell BY <1>1
<1> QED BY <1>1, <1>2, SubSeqProperties, Z3

(* What is dropped at the front may be dropped before or after more is      *)
(* appended.                                                               *)
LEMMA LaterStock ==
  ASSUME NEW A \in Seq(Cell), NEW B \in Seq(Cell), NEW d \in 0..Len(A)
  PROVE  Stock(Later(A, d), B) = Later(Stock(A, B), d)
<1> DEFINE D == Later(A, d)
           T == Stock(A, B)
           L == Stock(D, B)
           R == Later(T, d)
<1>1. Len(A) \in Nat /\ Len(B) \in Nat BY LenProperties
<1>2. /\ D \in Seq(Cell) /\ Len(D) = Len(A) - d
      /\ \A i \in 1..(Len(A) - d) : D[i] = A[d + i]
  BY <1>1, CellLater
<1>4. /\ T \in Seq(Cell) /\ Len(T) = Len(A) + Len(B)
      /\ \A i \in 1..Len(A) : T[i] = A[i]
      /\ \A i \in 1..Len(T) : i > Len(A) => T[i] = B[i - Len(A)]
  BY CellStock
<1> HIDE DEF D, T
<1>3. /\ L \in Seq(Cell) /\ Len(L) = Len(D) + Len(B)
      /\ \A i \in 1..Len(D) : L[i] = D[i]
      /\ \A i \in 1..Len(L) : i > Len(D) => L[i] = B[i - Len(D)]
  BY <1>2, CellStock
<1>5. d \in 0..Len(T) BY <1>1, <1>4
<1>6. /\ R \in Seq(Cell) /\ Len(R) = Len(T) - d
      /\ \A i \in 1..Len(R) : R[i] = T[d + i]
  BY <1>4, <1>5, CellLater
<1> HIDE DEF L, R
<1>7. ASSUME NEW i \in 1..Len(L) PROVE L[i] = R[i]
  <2>1. CASE i <= Len(A) - d BY <1>1, <1>2, <1>3, <1>4, <1>6, <2>1
  <2>2. CASE i > Len(A) - d
    <3>1. d + i > Len(A) /\ d + i \in 1..Len(T) /\ (d + i) - Len(A) = i - Len(D)
      BY <1>1, <1>2, <1>3, <1>4, <2>2
    <3>2. i > Len(D) /\ i \in 1..Len(R) BY <1>1, <1>2, <1>3, <1>4, <1>6, <2>2
    <3>3. L[i] = B[i - Len(D)] BY <1>3, <3>2
    <3>4. R[i] = T[d + i] BY <1>6, <3>2
    <3> QED BY <1>4, <3>1, <3>3, <3>4
  <2> QED BY <1>1, <2>1, <2>2
<1>8. Len(L) = Len(R) BY <1>1, <1>2, <1>3, <1>4, <1>6
<1>9. L = R BY <1>3, <1>6, <1>7, <1>8, SeqEqual
<1> QED BY <1>9 DEF L, R, D, T

LEMMA MinOfTwo ==
  ASSUME NEW a \in Int, NEW b \in Int
  PROVE  Min({a, b}) = IF a <= b THEN a ELSE b
<1> DEFINE c == IF a <= b THEN a ELSE b
<1>1. c \in {a, b} /\ \A y \in {a, b} : c <= y OBVIOUS
<1>2. ASSUME NEW x \in {a, b}, \A y \in {a, b} : x <= y PROVE x = c
  BY <1>2
<1> HIDE DEF c
<1>3. (CHOOSE x \in {a, b} : \A y \in {a, b} : x <= y) = c BY <1>1, <1>2
<1> QED BY <1>3 DEF Min, c

LEMMA RecordCells ==
  ASSUME NEW e \in Nat, NEW m \in 1..MaxMessage
  PROVE  /\ Header \in Nat \ {0} /\ Trailer \in Nat /\ m \in Nat \ {0}
         /\ Record(e, m) = [i \in 1..(Header + m + Trailer) |-> Record(e, m)[i]]
         /\ \A i \in 1..(Header + m + Trailer) :
              /\ Record(e, m)[i] \in [type : {"data"}, left : Int, byte : Int]
              /\ Record(e, m)[i].type = "data"
              /\ Record(e, m)[i].left = Header + m + Trailer - i
              /\ Record(e, m)[i].byte \in e..(e + m)
         /\ Record(e, m)[1].byte = e
         /\ Record(e, m)[Header + m + Trailer].byte = e + m
         /\ \A i \in 1..m : Record(e, m)[Header + i].byte = e + i
<1>1. Header \in Nat \ {0} /\ Trailer \in Nat /\ m \in Nat \ {0} BY StreamAssumption
<1> DEFINE n == Header + m + Trailer
           byte(i) == IF i <= Header THEN e ELSE IF i <= Header + m THEN e + i - Header ELSE e + m
<1>2. \A i \in 1..n : byte(i) \in e..(e + m) BY <1>1
<1>3. /\ byte(1) = e /\ byte(n) = e + m
      /\ \A i \in 1..m : byte(Header + i) = e + i
      /\ 1 \in 1..n /\ n \in 1..n /\ \A i \in 1..m : Header + i \in 1..n
  BY <1>1
<1>4. /\ Record(e, m) = [i \in 1..n |-> Record(e, m)[i]]
      /\ \A i \in 1..n : Record(e, m)[i] = [type |-> "data", left |-> n - i, byte |-> byte(i)]
  BY <1>1 DEF Record
<1> HIDE DEF byte, n
<1>5. \A i \in 1..n : /\ Record(e, m)[i].type = "data" /\ Record(e, m)[i].left = n - i
                      /\ Record(e, m)[i].byte = byte(i)
  BY <1>4
<1>6. \A i \in 1..m : Record(e, m)[Header + i].byte = e + i BY <1>3, <1>5
<1>7. Record(e, m)[1].byte = e /\ Record(e, m)[n].byte = e + m BY <1>3, <1>5
<1>8. \A i \in 1..n : Record(e, m)[i].byte \in e..(e + m) BY <1>2, <1>5
<1>9. n \in Nat /\ \A i \in 1..n : byte(i) \in Int BY <1>1, <1>2 DEF n
<1>10. \A i \in 1..n : Record(e, m)[i] \in [type : {"data"}, left : Int, byte : Int]
  BY <1>4, <1>9
<1>11. \A i \in 1..n : /\ Record(e, m)[i] \in [type : {"data"}, left : Int, byte : Int]
                       /\ Record(e, m)[i].type = "data"
                       /\ Record(e, m)[i].left = n - i
                       /\ Record(e, m)[i].byte \in e..(e + m)
  BY <1>5, <1>8, <1>10
<1>12. Record(e, m) = [i \in 1..n |-> Record(e, m)[i]] BY <1>4
<1>13. n = Header + m + Trailer BY DEF n
<1>14. /\ Record(e, m)[1].byte = e /\ Record(e, m)[Header + m + Trailer].byte = e + m
       /\ Record(e, m) = [i \in 1..(Header + m + Trailer) |-> Record(e, m)[i]]
  BY <1>7, <1>12, <1>13
<1>15. \A i \in 1..(Header + m + Trailer) :
         /\ Record(e, m)[i] \in [type : {"data"}, left : Int, byte : Int]
         /\ Record(e, m)[i].type = "data"
         /\ Record(e, m)[i].left = Header + m + Trailer - i
         /\ Record(e, m)[i].byte \in e..(e + m)
  BY <1>1, <1>11, <1>13
<1> QED BY <1>1, <1>6, <1>14, <1>15

LEMMA RecordIs ==
  ASSUME NEW e \in Nat, NEW m \in 1..MaxMessage, e + m <= MaxBytes
  PROVE  Record(e, m) \in Seq(Cell) /\ Len(Record(e, m)) = Header + m + Trailer
<1> DEFINE n == Header + m + Trailer
<1>1. /\ n \in Nat /\ MaxBytes \in Nat /\ e + m \in 0..MaxBytes
      /\ \A i \in 1..n : n - i \in Nat
  BY RecordCells, StreamAssumption
<1>2. Record(e, m) = [i \in 1..n |-> Record(e, m)[i]] BY RecordCells
<1>3. \A i \in 1..n : Record(e, m)[i] \in [type : {"data"}, left : Int, byte : Int]
  BY RecordCells
<1>4. \A i \in 1..n : Record(e, m)[i].left = n - i BY RecordCells
<1>5. \A i \in 1..n : Record(e, m)[i].byte \in e..(e + m) BY RecordCells
<1> HIDE DEF n
<1>6. \A i \in 1..n : Record(e, m)[i].byte \in 0..MaxBytes BY <1>1, <1>5
<1>7. \A i \in 1..n : Record(e, m)[i] \in Cell BY <1>1, <1>3, <1>4, <1>6 DEF Cell
<1>8. Record(e, m) \in Seq(Cell) /\ Len(Record(e, m)) = n BY <1>1, <1>2, <1>7
<1> QED BY <1>8 DEF n

-----------------------------------------------------------------------------
(* A flow that goes on, is cut off, or loses its first record *)

LEMMA RecordEnd ==
  ASSUME NEW e \in Nat, NEW m \in 1..MaxMessage, e + m <= MaxBytes
  PROVE  \A i \in 1..Len(Record(e, m)) : Record(e, m)[i].left = 0 => Record(e, m)[i].byte = e + m
<1> DEFINE R == Record(e, m)
           n == Header + m + Trailer
<1>1. n \in Nat /\ Len(R) = n BY RecordIs, RecordCells
<1>2. \A i \in 1..n : R[i].left = n - i BY RecordCells
<1>3. R[n].byte = e + m BY RecordCells
<1> HIDE DEF R, n
<1>4. ASSUME NEW i \in 1..Len(R), R[i].left = 0 PROVE i = n BY <1>1, <1>2, <1>4
<1> QED BY <1>3, <1>4 DEF R

LEMMA CellFields ==
  ASSUME NEW A \in Seq(Cell), NEW i \in 1..Len(A)
  PROVE  /\ A[i] \in Cell /\ A[i].left \in Nat /\ A[i].byte \in 0..MaxBytes
         /\ A[i].type \in {"data", "close"} /\ Len(A) \in Nat
<1>1. A[i] \in Cell BY ElementOfSeq
<1> QED BY <1>1, LenProperties DEF Cell

(* A flow without a close notification that ends with a whole record keeps  *)
(* its frame whatever follows it.                                          *)
LEMMA Continued ==
  ASSUME NEW S \in Seq(Cell), NEW R \in Seq(Cell), NEW g \in Nat, NEW e \in Nat,
         Framed(S), Chained(S, g), EndsAt(S, g, e), \A i \in 1..Len(S) : S[i].type # "close",
         NEW i \in 1..Len(S), Starts(Stock(S, R), i)
  PROVE  /\ IsRecord(Stock(S, R), i)
         /\ Stock(S, R)[i].byte = (IF i = 1 THEN g ELSE Stock(S, R)[i - 1].byte)
<1> DEFINE T == Stock(S, R)
<1>1. /\ T \in Seq(Cell) /\ Len(T) = Len(S) + Len(R) /\ Len(S) \in Nat /\ Len(R) \in Nat
      /\ \A j \in 1..Len(S) : T[j] = S[j]
  BY CellStock
<1> HIDE DEF T
<1>2. T[i] = S[i] /\ (i # 1 => T[i - 1] = S[i - 1]) BY <1>1
<1>3. Starts(S, i) BY <1>2 DEF Starts, T
<1>4. IsRecord(S, i) BY <1>1, <1>3 DEF Framed, IsClose
<1>5. PICK m \in 1..MaxMessage :
        /\ S[i].left = Header + m + Trailer - 1
        /\ \A j \in 1..(Header + m + Trailer) :
             i + j - 1 <= Len(S) => S[i + j - 1] = Record(S[i].byte, m)[j]
  BY <1>4 DEF IsRecord
<1>6. Header \in Nat \ {0} /\ Trailer \in Nat /\ m \in Nat \ {0} BY StreamAssumption
<1>7. ASSUME Len(S) < i + (Header + m + Trailer) - 1 PROVE FALSE
  <2>1. Len(S) - i + 1 \in 1..(Header + m + Trailer) BY <1>1, <1>6, <1>7
  <2>2. i + (Len(S) - i + 1) - 1 = Len(S) BY <1>1
  <2>3. S[Len(S)] = Record(S[i].byte, m)[Len(S) - i + 1] BY <1>1, <1>5, <2>1, <2>2
  <2>4. S # <<>> BY <1>1
  <2>5. S[Len(S)].left = 0 BY <2>4 DEF EndsAt
  <2>6. Record(S[i].byte, m)[Len(S) - i + 1].left = Header + m + Trailer - (Len(S) - i + 1)
    BY <2>1 DEF Record
  <2> QED BY <1>1, <1>6, <1>7, <2>3, <2>5, <2>6
<1>8. \A j \in 1..(Header + m + Trailer) : i + j - 1 \in 1..Len(S)
  BY <1>1, <1>6, <1>7
<1>9. \A j \in 1..(Header + m + Trailer) : T[i + j - 1] = Record(T[i].byte, m)[j]
  BY <1>1, <1>2, <1>5, <1>8
<1>10. IsRecord(T, i) BY <1>2, <1>5, <1>9 DEF IsRecord
<1>11. T[i].byte = (IF i = 1 THEN g ELSE T[i - 1].byte) BY <1>2, <1>3 DEF Chained
<1> QED BY <1>10, <1>11 DEF T

LEMMA AppendRecord ==
  ASSUME NEW S \in Seq(Cell), NEW g \in Nat, NEW e \in Nat,
         Framed(S), Chained(S, g), EndsAt(S, g, e), \A i \in 1..Len(S) : S[i].type # "close",
         NEW m \in 1..MaxMessage, NEW b \in 0..MaxBytes, e + m <= b,
         \A i \in 1..Len(S) : S[i].byte <= b
  PROVE  LET T == Stock(S, Record(e, m))
         IN  /\ T \in Seq(Cell) /\ Framed(T) /\ Chained(T, g) /\ EndsAt(T, g, e + m)
             /\ \A i \in 1..Len(T) : T[i].type # "close" /\ T[i].byte <= b
<1> DEFINE R == Record(e, m)
           n == Header + m + Trailer
           T == Stock(S, R)
<1> e + m <= MaxBytes /\ b \in Nat BY StreamAssumption
<1>1. /\ R \in Seq(Cell) /\ Len(R) = n
      /\ Header \in Nat \ {0} /\ Trailer \in Nat /\ m \in Nat \ {0}
      /\ \A i \in 1..n : R[i].type = "data" /\ R[i].left = n - i /\ R[i].byte \in e..(e + m)
      /\ R[1].byte = e /\ R[n].byte = e + m
  <2>1. R \in Seq(Cell) /\ Len(R) = n BY RecordIs
  <2>2. /\ Header \in Nat \ {0} /\ Trailer \in Nat /\ m \in Nat \ {0}
        /\ R[1].byte = e /\ R[n].byte = e + m
    BY RecordCells
  <2>3. \A i \in 1..n : R[i].type = "data" BY RecordCells
  <2>4. \A i \in 1..n : R[i].left = n - i BY RecordCells
  <2>5. \A i \in 1..n : R[i].byte \in e..(e + m) BY RecordCells
  <2> QED BY <2>1, <2>2, <2>3, <2>4, <2>5
<1>2. n \in Nat \ {0} BY <1>1
<1> HIDE DEF R, n
<1>3. /\ T \in Seq(Cell) /\ Len(T) = Len(S) + n /\ Len(S) \in Nat
      /\ \A i \in 1..Len(S) : T[i] = S[i]
      /\ \A i \in 1..n : T[Len(S) + i] = R[i]
      /\ \A i \in 1..Len(T) : i > Len(S) => T[i] = R[i - Len(S)]
  BY <1>1, CellStock
<1>4. \A i \in 1..Len(S) : Starts(T, i) =>
        IsRecord(T, i) /\ T[i].byte = (IF i = 1 THEN g ELSE T[i - 1].byte)
  BY <1>1, Continued
<1> HIDE DEF T
<1>5. T[Len(S) + 1] = R[1] /\ T[Len(S) + n] = R[n] BY <1>2, <1>3
<1>6. IsRecord(T, Len(S) + 1)
  <2>1. T[Len(S) + 1].left = n - 1 /\ T[Len(S) + 1].byte = e BY <1>1, <1>2, <1>5
  <2>2. \A j \in 1..n : T[(Len(S) + 1) + j - 1] = R[j]
    <3> SUFFICES ASSUME NEW j \in 1..n PROVE T[(Len(S) + 1) + j - 1] = R[j] OBVIOUS
    <3>1. (Len(S) + 1) + j - 1 = Len(S) + j BY <1>2, <1>3
    <3> QED BY <1>3, <3>1
  <2>3. R = Record(T[Len(S) + 1].byte, m) BY <2>1 DEF R
  <2>4. \A j \in 1..n : T[(Len(S) + 1) + j - 1] = Record(T[Len(S) + 1].byte, m)[j]
    BY <2>2, <2>3
  <2>5. /\ T[Len(S) + 1].left = Header + m + Trailer - 1
        /\ \A j \in 1..(Header + m + Trailer) :
             T[(Len(S) + 1) + j - 1] = Record(T[Len(S) + 1].byte, m)[j]
    <3>1. n = Header + m + Trailer BY DEF n
    <3>2. T[Len(S) + 1].left = Header + m + Trailer - 1 BY <1>1, <2>1, <3>1
    <3>3. \A j \in 1..(Header + m + Trailer) :
            T[(Len(S) + 1) + j - 1] = Record(T[Len(S) + 1].byte, m)[j]
      BY <2>4, <3>1
    <3> QED BY <3>2, <3>3
  <2> QED BY <2>5 DEF IsRecord
<1>7. T[Len(S) + 1].byte = (IF Len(S) + 1 = 1 THEN g ELSE T[(Len(S) + 1) - 1].byte)
  <2>1. T[Len(S) + 1].byte = e BY <1>1, <1>5
  <2>2. CASE S = <<>> BY <1>3, <2>1, <2>2 DEF EndsAt
  <2>3. CASE S # <<>>
    <3>1. Len(S) # 0 /\ S[Len(S)].byte = e BY <2>3, EmptySeq DEF EndsAt
    <3>2. (Len(S) + 1) - 1 = Len(S) /\ T[Len(S)] = S[Len(S)] BY <1>3, <3>1
    <3> QED BY <1>3, <2>1, <3>1, <3>2
  <2> QED BY <2>2, <2>3
<1>8. ASSUME NEW i \in 1..Len(T), i > Len(S) + 1, Starts(T, i) PROVE FALSE
  <2>1. i - 1 \in 1..Len(T) /\ i - 1 > Len(S) /\ (i - 1) - Len(S) \in 1..n
    BY <1>2, <1>3, <1>8
  <2>2. T[i - 1] = R[(i - 1) - Len(S)] BY <1>3, <2>1
  <2>3. T[i - 1].left = 0 BY <1>3, <1>8 DEF Starts
  <2>4. R[(i - 1) - Len(S)].left = n - ((i - 1) - Len(S)) BY <1>1, <2>1
  <2> QED BY <1>2, <1>3, <2>2, <2>3, <2>4
<1>9. Framed(T) /\ Chained(T, g)
  <2>1. ASSUME NEW i \in 1..Len(T), Starts(T, i)
        PROVE  IsRecord(T, i) /\ T[i].byte = (IF i = 1 THEN g ELSE T[i - 1].byte)
    <3>1. i <= Len(S) \/ i = Len(S) + 1 \/ i > Len(S) + 1 BY <1>3
    <3> QED BY <1>3, <1>4, <1>6, <1>7, <1>8, <2>1, <3>1
  <2> QED BY <2>1 DEF Framed, Chained
<1>10. EndsAt(T, g, e + m)
  <2>1. Len(T) = Len(S) + n /\ T # <<>> BY <1>2, <1>3
  <2>2. R[n].left = 0 BY <1>1, <1>2
  <2> QED BY <1>1, <1>5, <2>1, <2>2 DEF EndsAt
<1>11. ASSUME NEW i \in 1..Len(T) PROVE T[i].type # "close" /\ T[i].byte <= b
  <2>1. CASE i <= Len(S)
    <3>1. T[i] = S[i] /\ S[i].byte <= b /\ S[i].type # "close" /\ S[i].byte \in Nat
      BY <1>3, <2>1, CellFields
    <3> QED BY <1>1, <3>1
  <2>2. CASE i > Len(S)
    <3>1. i - Len(S) \in 1..n /\ T[i] = R[i - Len(S)] BY <1>2, <1>3, <2>2
    <3> QED BY <1>1, <3>1
  <2> QED BY <1>3, <2>1, <2>2
<1> QED BY <1>3, <1>9, <1>10, <1>11 DEF T, R

LEMMA AppendClose ==
  ASSUME NEW S \in Seq(Cell), NEW g \in Nat, NEW e \in 0..MaxBytes,
         Framed(S), Chained(S, g), EndsAt(S, g, e), \A i \in 1..Len(S) : S[i].type # "close",
         \A i \in 1..Len(S) : S[i].byte <= e,
         NEW c, c = [type |-> "close", left |-> 0, byte |-> e]
  PROVE  LET T == Stock(S, <<c>>)
         IN  /\ T \in Seq(Cell) /\ Framed(T) /\ Chained(T, g) /\ EndsAt(T, g, e)
             /\ \A i \in 1..Len(T) : T[i].byte <= e
<1> DEFINE C == <<c>>
           T == Stock(S, C)
<1>1. e \in Nat /\ c \in Cell BY StreamAssumption DEF Cell
<1>2. C \in Seq(Cell) /\ Len(C) = 1 /\ C[1] = c BY <1>1
<1> HIDE DEF C
<1>3. /\ T \in Seq(Cell) /\ Len(T) = Len(S) + 1 /\ Len(S) \in Nat
      /\ \A i \in 1..Len(S) : T[i] = S[i]
      /\ T[Len(S) + 1] = c
  <2>1. /\ T \in Seq(Cell) /\ Len(T) = Len(S) + Len(C) /\ Len(S) \in Nat
        /\ \A i \in 1..Len(S) : T[i] = S[i]
        /\ \A i \in 1..Len(C) : T[Len(S) + i] = C[i]
    BY <1>2, CellStock
  <2> QED BY <1>2, <2>1
<1>4. \A i \in 1..Len(S) : Starts(T, i) =>
        IsRecord(T, i) /\ T[i].byte = (IF i = 1 THEN g ELSE T[i - 1].byte)
  BY <1>1, <1>2, Continued
<1> HIDE DEF T
<1>5. IsClose(T, Len(S) + 1) BY <1>3 DEF IsClose
<1>6. T[Len(S) + 1].byte = (IF Len(S) + 1 = 1 THEN g ELSE T[(Len(S) + 1) - 1].byte)
  <2>1. T[Len(S) + 1].byte = e BY <1>3
  <2>2. CASE S = <<>> BY <1>3, <2>1, <2>2 DEF EndsAt
  <2>3. CASE S # <<>>
    <3>1. Len(S) # 0 /\ S[Len(S)].byte = e BY <2>3, EmptySeq DEF EndsAt
    <3>2. (Len(S) + 1) - 1 = Len(S) /\ T[Len(S)] = S[Len(S)] BY <1>3, <3>1
    <3> QED BY <1>3, <2>1, <3>1, <3>2
  <2> QED BY <2>2, <2>3
<1>7. ASSUME NEW i \in 1..Len(T), Starts(T, i)
      PROVE  /\ IsClose(T, i) \/ IsRecord(T, i)
             /\ T[i].byte = (IF i = 1 THEN g ELSE T[i - 1].byte)
  <2>1. i <= Len(S) \/ i = Len(S) + 1 BY <1>3
  <2> QED BY <1>3, <1>4, <1>5, <1>6, <1>7, <2>1
<1>8. Framed(T) /\ Chained(T, g) BY <1>7 DEF Framed, Chained
<1>9. EndsAt(T, g, e) BY <1>3 DEF EndsAt
<1>10. \A i \in 1..Len(T) : T[i].byte <= e BY <1>1, <1>3
<1> QED BY <1>3, <1>8, <1>9, <1>10 DEF T, C

LEMMA CutFlow ==
  ASSUME NEW S \in Seq(Cell), NEW g \in Nat, Framed(S), Chained(S, g), NEW k \in 0..Len(S)
  PROVE  LET T == SubSeq(S, 1, k) IN Framed(T) /\ Chained(T, g)
<1> DEFINE T == SubSeq(S, 1, k)
<1>1. T \in Seq(Cell) /\ Len(T) = k /\ (\A i \in 1..k : T[i] = S[i]) /\ Len(S) \in Nat
  BY CellFirst, LenProperties
<1> HIDE DEF T
<1>2. ASSUME NEW i \in 1..Len(T), Starts(T, i)
      PROVE  /\ IsClose(T, i) \/ IsRecord(T, i)
             /\ T[i].byte = (IF i = 1 THEN g ELSE T[i - 1].byte)
  <2>1. i \in 1..Len(S) /\ T[i] = S[i] /\ (i # 1 => T[i - 1] = S[i - 1]) BY <1>1
  <2>2. Starts(S, i) BY <1>2, <2>1 DEF Starts
  <2>3. IsClose(S, i) => IsClose(T, i) BY <1>1, <2>1 DEF IsClose
  <2>4. ASSUME IsRecord(S, i) PROVE IsRecord(T, i)
    <3>1. PICK m \in 1..MaxMessage :
            /\ S[i].left = Header + m + Trailer - 1
            /\ \A j \in 1..(Header + m + Trailer) :
                 i + j - 1 <= Len(S) => S[i + j - 1] = Record(S[i].byte, m)[j]
      BY <2>4 DEF IsRecord
    <3>2. ASSUME NEW j \in 1..(Header + m + Trailer), i + j - 1 <= Len(T)
          PROVE  T[i + j - 1] = Record(T[i].byte, m)[j]
      <4>1. i + j - 1 \in 1..k /\ i + j - 1 <= Len(S) BY <1>1, <3>2, StreamAssumption
      <4> QED BY <1>1, <2>1, <3>1, <4>1
    <3> QED BY <2>1, <3>1, <3>2 DEF IsRecord
  <2> QED BY <2>1, <2>2, <2>3, <2>4 DEF Framed, Chained
<1> QED BY <1>2 DEF Framed, Chained, T

(* The reader decrypts the record a flow begins with.                       *)
LEMMA FirstRecord ==
  ASSUME NEW S \in Seq(Cell), NEW g \in Nat, Framed(S), Chained(S, g),
         S # <<>>, S[1].type = "data",
         NEW d \in Nat, d = S[1].left + 1, d <= Len(S)
  PROVE  /\ d \in 1..Len(S)
         /\ d - Header - Trailer \in 1..MaxMessage
         /\ \A i \in 1..(d - Header - Trailer) : S[Header + i].byte = g + i
         /\ S[d].left = 0 /\ S[d].byte = g + (d - Header - Trailer)
<1>1. Len(S) \in Nat \ {0} /\ 1 \in 1..Len(S) /\ S[1].left \in Nat
  BY EmptySeq, CellFields
<1>2. Starts(S, 1) BY DEF Starts
<1>3. S[1].byte = g BY <1>1, <1>2 DEF Chained
<1>4. IsRecord(S, 1) BY <1>1, <1>2 DEF Framed, IsClose
<1>5. PICK m \in 1..MaxMessage :
        /\ S[1].left = Header + m + Trailer - 1
        /\ \A j \in 1..(Header + m + Trailer) :
             1 + j - 1 <= Len(S) => S[1 + j - 1] = Record(S[1].byte, m)[j]
  BY <1>4 DEF IsRecord
<1>6. Header \in Nat \ {0} /\ Trailer \in Nat /\ m \in Nat \ {0} BY StreamAssumption
<1>7. d = Header + m + Trailer /\ d \in Nat \ {0} BY <1>5, <1>6
<1>8. \A j \in 1..d : S[j] = Record(g, m)[j]
  <2> SUFFICES ASSUME NEW j \in 1..d PROVE S[j] = Record(g, m)[j] OBVIOUS
  <2>1. 1 + j - 1 = j /\ j <= Len(S) BY <1>1, <1>7
  <2>2. j \in 1..(Header + m + Trailer) BY <1>7
  <2> QED BY <1>3, <1>5, <2>1, <2>2
<1>9. /\ \A i \in 1..m : Record(g, m)[Header + i].byte = g + i
      /\ Record(g, m)[Header + m + Trailer].left = 0
      /\ Record(g, m)[Header + m + Trailer].byte = g + m
  <2>2. g \in Nat /\ 1 \in 1..(Header + m + Trailer)
        /\ Header + m + Trailer \in 1..(Header + m + Trailer)
    BY <1>6
  <2>3. \A i \in 1..(Header + m + Trailer) : Record(g, m)[i].left = Header + m + Trailer - i
    BY RecordCells
  <2>4. Header + m + Trailer - (Header + m + Trailer) = 0 BY <1>6
  <2>5. /\ \A i \in 1..m : Record(g, m)[Header + i].byte = g + i
        /\ Record(g, m)[Header + m + Trailer].byte = g + m
    BY RecordCells
  <2> QED BY <2>2, <2>3, <2>4, <2>5
<1>10. \A i \in 1..m : Header + i \in 1..d BY <1>6, <1>7
<1>11. d - Header - Trailer = m BY <1>6, <1>7
<1>12. d \in 1..Len(S) BY <1>1, <1>7
<1>13. \A i \in 1..m : S[Header + i].byte = g + i BY <1>8, <1>9, <1>10
<1>14. S[d].left = 0 /\ S[d].byte = g + m BY <1>7, <1>8, <1>9
<1> QED BY <1>11, <1>12, <1>13, <1>14

(* A record does not end before its last cell.                              *)
LEMMA NoEnd ==
  ASSUME NEW S \in Seq(Cell), Framed(S), NEW k \in Nat, k <= Len(S), NEW i \in 1..k,
         k <= S[1].left
  PROVE  S[i].left # 0
<1>1. Len(S) \in Nat \ {0} /\ 1 \in 1..Len(S) /\ i \in 1..Len(S) BY LenProperties
<1>2. Starts(S, 1) BY DEF Starts
<1>3. S[1].left \in Nat BY <1>1, CellFields
<1>4. ~IsClose(S, 1) BY <1>1, <1>3 DEF IsClose
<1>5. IsRecord(S, 1) BY <1>1, <1>2, <1>4 DEF Framed
<1>6. PICK m \in 1..MaxMessage :
        /\ S[1].left = Header + m + Trailer - 1
        /\ \A j \in 1..(Header + m + Trailer) :
             1 + j - 1 <= Len(S) => S[1 + j - 1] = Record(S[1].byte, m)[j]
  BY <1>5 DEF IsRecord
<1>7. Header \in Nat \ {0} /\ Trailer \in Nat /\ m \in Nat \ {0} BY StreamAssumption
<1>8. i \in 1..(Header + m + Trailer) /\ 1 + i - 1 = i /\ i < Header + m + Trailer
  BY <1>1, <1>6, <1>7
<1>9. S[i] = Record(S[1].byte, m)[i] BY <1>1, <1>6, <1>8
<1>10. S[1].byte \in Nat BY <1>1, CellFields
<1>11. \A b \in Nat : \A j \in 1..(Header + m + Trailer) :
         Record(b, m)[j].left = Header + m + Trailer - j
  BY RecordCells
<1> QED BY <1>7, <1>8, <1>9, <1>10, <1>11

LEMMA DropFirst ==
  ASSUME NEW S \in Seq(Cell), NEW g \in Nat, NEW e \in Nat, Framed(S), Chained(S, g),
         S # <<>>, S[1].type = "data", NEW d \in Nat, d = S[1].left + 1, d <= Len(S)
  PROVE  LET T == Later(S, d)
             h == g + (d - Header - Trailer)
         IN  /\ Framed(T) /\ Chained(T, h)
             /\ EndsAt(S, g, e) => EndsAt(T, h, e)
             /\ \A b \in Int : EndsBefore(S, g, b) => EndsBefore(T, h, b)
<1> DEFINE T == Later(S, d)
           h == g + (d - Header - Trailer)
<1>1. d \in 1..Len(S) /\ S[d].left = 0 /\ S[d].byte = h BY FirstRecord
<1>2. T \in Seq(Cell) /\ Len(T) = Len(S) - d /\ (\A i \in 1..Len(T) : T[i] = S[d + i])
      /\ Len(S) \in Nat
  <2>1. d \in 0..Len(S) /\ Len(S) \in Nat BY <1>1, LenProperties
  <2> QED BY <2>1, CellLater
<1> HIDE DEF T, h
<1>3. ASSUME NEW i \in 1..Len(T), Starts(T, i)
      PROVE  /\ IsClose(T, i) \/ IsRecord(T, i)
             /\ T[i].byte = (IF i = 1 THEN h ELSE T[i - 1].byte)
  <2>1. d + i \in 1..Len(S) /\ T[i] = S[d + i] /\ d + i # 1 BY <1>1, <1>2
  <2>2. i # 1 => T[i - 1] = S[(d + i) - 1]
    <3>1. ASSUME i # 1 PROVE i - 1 \in 1..Len(T) /\ d + (i - 1) = (d + i) - 1
      BY <1>1, <1>2, <3>1
    <3> QED BY <1>2, <3>1
  <2>3. i = 1 => (d + i) - 1 = d BY <1>1
  <2>4. Starts(S, d + i) /\ S[d + i].byte = S[(d + i) - 1].byte
    <3>1. Starts(S, d + i) BY <1>1, <1>3, <2>2, <2>3 DEF Starts
    <3> QED BY <2>1, <3>1 DEF Chained
  <2>5. T[i].byte = (IF i = 1 THEN h ELSE T[i - 1].byte) BY <1>1, <2>1, <2>2, <2>3, <2>4
  <2>6. IsClose(S, d + i) => IsClose(T, i) BY <1>1, <1>2, <2>1 DEF IsClose
  <2>7. ASSUME IsRecord(S, d + i) PROVE IsRecord(T, i)
    <3>1. PICK m \in 1..MaxMessage :
            /\ S[d + i].left = Header + m + Trailer - 1
            /\ \A j \in 1..(Header + m + Trailer) :
                 (d + i) + j - 1 <= Len(S) => S[(d + i) + j - 1] = Record(S[d + i].byte, m)[j]
      BY <2>7 DEF IsRecord
    <3>2. ASSUME NEW j \in 1..(Header + m + Trailer), i + j - 1 <= Len(T)
          PROVE  T[i + j - 1] = Record(T[i].byte, m)[j]
      <4>1. Header \in Nat /\ Trailer \in Nat /\ m \in Nat BY StreamAssumption
      <4>2. i + j - 1 \in 1..Len(T) /\ d + (i + j - 1) = (d + i) + j - 1
            /\ (d + i) + j - 1 <= Len(S)
        BY <1>1, <1>2, <3>2, <4>1
      <4>3. T[i + j - 1] = S[(d + i) + j - 1] BY <1>2, <4>2
      <4> QED BY <2>1, <3>1, <4>2, <4>3
    <3> QED BY <2>1, <3>1, <3>2 DEF IsRecord
  <2> QED BY <2>1, <2>4, <2>5, <2>6, <2>7 DEF Framed
<1>4. Framed(T) /\ Chained(T, h) BY <1>3 DEF Framed, Chained
<1>5. ASSUME EndsAt(S, g, e) PROVE EndsAt(T, h, e)
  <2>1. S[Len(S)].left = 0 /\ S[Len(S)].byte = e BY <1>5 DEF EndsAt
  <2>2. CASE T = <<>>
    <3>1. Len(S) = d BY <1>1, <1>2, <2>2
    <3> QED BY <1>1, <2>1, <2>2, <3>1 DEF EndsAt
  <2>3. CASE T # <<>>
    <3> Len(T) \in Nat \ {0} BY <1>2, <2>3, EmptySeq
    <3>1. Len(T) \in 1..Len(T) /\ d + Len(T) = Len(S) BY <1>2
    <3>2. T[Len(T)] = S[Len(S)] BY <1>2, <3>1
    <3> QED BY <2>1, <2>3, <3>2 DEF EndsAt
  <2> QED BY <2>2, <2>3
<1>6. ASSUME NEW b \in Int, EndsBefore(S, g, b) PROVE EndsBefore(T, h, b)
  <2>1. d - Header - Trailer \in 1..MaxMessage /\ MaxMessage \in Nat
    BY FirstRecord, StreamAssumption
  <2>2. h >= g /\ h \in Nat BY <2>1 DEF h
  <2>3. CASE g >= b BY <2>2, <2>3 DEF EndsBefore
  <2>4. ASSUME NEW i \in 1..Len(S), S[i].left = 0, S[i].byte = b PROVE EndsBefore(T, h, b)
    <3>1. CASE i < d
      <4>1. i \in 1..(d - 1) /\ d - 1 \in Nat /\ d - 1 <= Len(S) BY <1>1, <3>1
      <4>2. d - 1 <= S[1].left
        <5>1. S[1].left \in Nat BY <1>1, <1>2, CellFields
        <5> QED BY <5>1
      <4> QED BY <2>4, <4>1, <4>2, NoEnd
    <3>2. CASE i = d BY <1>1, <2>2, <2>4, <3>2 DEF EndsBefore
    <3>3. CASE i > d
      <4>1. i - d \in 1..Len(T) /\ d + (i - d) = i BY <1>1, <1>2, <3>3
      <4>2. T[i - d] = S[i] BY <1>2, <4>1
      <4> QED BY <2>4, <4>1, <4>2 DEF EndsBefore
    <3> QED BY <1>1, <3>1, <3>2, <3>3
  <2> QED BY <1>6, <2>3, <2>4 DEF EndsBefore
<1> QED BY <1>4, <1>5, <1>6 DEF T, h

-----------------------------------------------------------------------------
(* The steps of the stream *)

LEMMA UnsentType ==
  ASSUME SendInv
  PROVE  /\ Unsent \in Seq(Cell)
         /\ send.parts \in Seq(Seq(Cell))
         /\ send.pc # "parts" => Unsent = <<>>
<1>1. send.parts \in Seq(Seq(Cell)) BY DEF SendInv, SendRec
<1>2. \A i \in 1..Len(send.parts) : send.parts[i] \in Seq(Cell) BY <1>1, ElementOfSeq
<1>3. Len(send.parts) \in 1..3 \/ send.parts = <<>> BY DEF SendInv, SendRec
<1>4. <<>> \in Seq(Cell) OBVIOUS
<1>5. CASE send.parts = <<>> BY <1>1, <1>4, <1>5 DEF Unsent
<1>6. CASE send.parts # <<>>
  <2>1. CASE Len(send.parts) = 1 BY <1>1, <1>2, <1>6, <2>1 DEF Unsent, SendInv
  <2>2. CASE Len(send.parts) = 2
    <3>1. send.parts[1] \in Seq(Cell) /\ send.parts[2] \in Seq(Cell) BY <1>2, <2>2
    <3> DEFINE a == send.parts[1]
               b == send.parts[2]
    <3> HIDE DEF a, b
    <3>2. Stock(a, b) \in Seq(Cell) BY <3>1, CellStock DEF a, b
    <3>3. Unsent = Stock(a, b) BY <1>6, <2>2 DEF Unsent, a, b
    <3> QED BY <1>1, <1>6, <3>2, <3>3 DEF SendInv
  <2>3. CASE Len(send.parts) = 3
    <3> DEFINE a == send.parts[1]
               b == send.parts[2]
               c == send.parts[3]
    <3>1. a \in Seq(Cell) /\ b \in Seq(Cell) /\ c \in Seq(Cell) BY <1>2, <2>3
    <3> HIDE DEF a, b, c
    <3>2. Stock(b, c) \in Seq(Cell) BY <3>1, CellStock
    <3> DEFINE bc == Stock(b, c)
    <3> HIDE DEF bc
    <3>3. Stock(a, bc) \in Seq(Cell) BY <3>1, <3>2, CellStock DEF bc
    <3>4. Unsent = Stock(a, bc) BY <1>6, <2>3 DEF Unsent, a, b, c, bc
    <3> QED BY <1>1, <1>6, <3>3, <3>4 DEF SendInv
  <2> QED BY <1>3, <1>6, <2>1, <2>2, <2>3
<1> QED BY <1>5, <1>6

(* What is in front of the wire and what is on it.                          *)
Kept == Stock(mmsg, extra)
Carried == Stock(Kept, wire)

LEMMA FlowType ==
  ASSUME StreamTypeOK, SendInv
  PROVE  /\ Kept \in Seq(Cell) /\ Carried \in Seq(Cell) /\ Flow \in Seq(Cell)
         /\ Flow = Stock(Carried, Unsent)
         /\ Len(Flow) \in Nat /\ Len(mmsg) \in Nat /\ Len(mmsg) <= Len(Flow)
         /\ \A i \in 1..Len(mmsg) : Flow[i] = mmsg[i]
<1>1. mmsg \in Seq(Cell) /\ extra \in Seq(Cell) /\ wire \in Seq(Cell) /\ Unsent \in Seq(Cell)
  BY UnsentType DEF StreamTypeOK
<1>2. /\ Kept \in Seq(Cell) /\ Len(Kept) = Len(mmsg) + Len(extra)
      /\ \A i \in 1..Len(mmsg) : Kept[i] = mmsg[i]
  BY <1>1, CellStock DEF Kept
<1>3. /\ Carried \in Seq(Cell) /\ Len(Carried) = Len(Kept) + Len(wire)
      /\ \A i \in 1..Len(Kept) : Carried[i] = Kept[i]
  BY <1>1, <1>2, CellStock DEF Carried
<1>4. Flow = Stock(Carried, Unsent) BY DEF Flow, Carried, Kept
<1>5. /\ Flow \in Seq(Cell) /\ Len(Flow) = Len(Carried) + Len(Unsent)
      /\ \A i \in 1..Len(Carried) : Flow[i] = Carried[i]
  BY <1>1, <1>3, <1>4, CellStock
<1>6. Len(mmsg) \in Nat /\ Len(extra) \in Nat /\ Len(wire) \in Nat /\ Len(Unsent) \in Nat
  BY <1>1, LenProperties
<1> QED BY <1>2, <1>3, <1>4, <1>5, <1>6

(* The flow is as it was, in a later state of its sender and its reader.    *)
LEMMA FlowStays ==
  ASSUME FlowInv, Flow' = Flow, Given' = Given,
         written \in Nat, written' \in Nat, written <= written', Flow \in Seq(Cell),
         Given \in Nat,
         (send.pc # "failed")' => send.pc # "failed" /\ Sent' = Sent,
         (send.pc \in {"loop", "parts"})' =>
           \/ send.pc \in {"loop", "parts"} /\ Owed' = Owed
           \/ EndsBefore(Flow, Given, Owed'),
         conn = "closed" /\ send.pc = "idle" => conn' = "closed" /\ send'.pc = "idle"
  PROVE  FlowInv'
<1>1. Framed(Flow') /\ Chained(Flow', Given') BY DEF FlowInv
<1>2. \A i \in 1..Len(Flow') : Flow'[i].byte <= written'
  <2>1. \A i \in 1..Len(Flow) : Flow[i].byte \in Nat /\ Flow[i].byte <= written
    BY CellFields DEF FlowInv
  <2> QED BY <2>1
<1>3. (send.pc # "failed")' => EndsAt(Flow', Given', Sent')
  BY DEF FlowInv
<1>4. \A i \in 1..Len(Flow') : Flow'[i].type = "close" => conn' = "closed" /\ send'.pc = "idle"
  BY DEF FlowInv
<1>5. Given' <= written' BY DEF FlowInv
<1>6. (send.pc \in {"loop", "parts"})' => EndsBefore(Flow', Given', Owed') BY DEF FlowInv
<1> HIDE DEF FlowInv
<1> QED BY <1>1, <1>2, <1>3, <1>4, <1>5, <1>6 DEF FlowInv, Framed, Chained, EndsAt, EndsBefore,
        Starts, IsClose, IsRecord, Record

LEMMA GivenType ==
  ASSUME StreamTypeOK
  PROVE  Given \in Nat /\ Len(read) \in Nat /\ Len(pending) \in Nat
BY LenProperties DEF StreamTypeOK, Given

LEMMA StreamInits ==
  ASSUME StreamInit
  PROVE  StreamInv
<1> USE StreamAssumption DEF StreamInit
<1>1. StreamTypeOK BY DEF StreamTypeOK, NoSend, NoRecv
<1>2. SendInv
  <2>1. Unsent = <<>> /\ Len(<<>>) = 0 BY DEF Unsent, NoSend
  <2> QED BY <2>1 DEF SendInv, SendRec, NoSend, UnsentEnds
<1>3. <<>> \in Seq(Cell) OBVIOUS
<1>4. Flow = <<>>
  <2>1. Unsent = <<>> BY DEF Unsent, NoSend
  <2>2. Stock(<<>>, <<>>) = <<>> BY <1>3, CellStockEmpty
  <2> QED BY <2>1, <2>2 DEF Flow
<1>5. Given = 0 /\ Sent = 0 BY DEF Given, Sent, NoSend
<1>6. FlowInv BY <1>4, <1>5 DEF FlowInv, Framed, Chained, EndsAt, NoSend
<1>7. RecvInv BY DEF RecvInv, NoRecv
<1>8. ReadInv BY DEF ReadInv
<1> QED BY <1>1, <1>2, <1>6, <1>7, <1>8 DEF StreamInv

LEMMA StreamStays ==
  ASSUME StreamInv, UNCHANGED streamVars
  PROVE  StreamInv'
<1> USE DEF streamVars, sendVars, recvVars
<1>1. StreamTypeOK' BY DEF StreamInv, StreamTypeOK
<1>3. Unsent' = Unsent /\ Sent' = Sent /\ Owed' = Owed BY DEF Unsent, Sent, Owed
<1>2. SendInv' BY <1>3 DEF StreamInv, SendInv, UnsentEnds
<1>4. Flow' = Flow BY <1>3 DEF Flow
<1>5. FlowInv'
  BY <1>3, <1>4, FlowType, GivenType, FlowStays DEF StreamInv, StreamTypeOK, Given
<1>6. RecvInv' /\ ReadInv' BY <1>3 DEF StreamInv, RecvInv, ReadInv
<1> QED BY <1>1, <1>2, <1>5, <1>6 DEF StreamInv

(* What the sender does while the connection is open does not concern the   *)
(* reader.                                                                 *)
LEMMA ReaderStays ==
  ASSUME StreamInv, conn = "open", UNCHANGED recvVars
  PROVE  RecvInv' /\ ReadInv'
BY DEF recvVars, StreamInv, RecvInv, ReadInv

LEMMA SSendStep ==
  ASSUME StreamInv, NEW sz \in 1..MaxBytes, SSend(sz)
  PROVE  StreamInv'
<1>1. /\ send.pc = "idle" /\ conn = "open" /\ written + sz <= MaxBytes /\ written' = written + sz
      /\ send' = [pc |-> "loop", sz |-> sz, mPos |-> 0, parts |-> <<>>, ret |-> 0]
      /\ UNCHANGED <<wire, conn, recvVars>>
  BY DEF SSend, NoSend
<1>2. written \in Nat /\ sz \in Nat \ {0} /\ MaxBytes \in Nat /\ sz \in 0..MaxBytes
      /\ written' \in 0..MaxBytes
  BY <1>1, StreamAssumption DEF StreamInv, StreamTypeOK
<1>3. StreamTypeOK' BY <1>1, <1>2 DEF StreamInv, StreamTypeOK, recvVars
<1>5. Unsent = <<>> /\ Unsent' = <<>>
  <2>1. Unsent = <<>> BY <1>1, UnsentType DEF StreamInv
  <2>2. send'.parts = <<>> BY <1>1
  <2> QED BY <2>1, <2>2 DEF Unsent
<1>4. SendInv' BY <1>1, <1>2, <1>5, EmptySeq DEF StreamInv, SendInv, SendRec, UnsentEnds
<1>6. Flow' = Flow BY <1>1, <1>5 DEF Flow, recvVars
<1>7. Sent' = Sent /\ Given' = Given BY <1>1, <1>2 DEF Sent, Given, recvVars
<1>9. EndsBefore(Flow, Given, Owed')
  <2>1. EndsAt(Flow, Given, written) /\ Owed' = written
    BY <1>1, <1>2 DEF StreamInv, FlowInv, Sent, Owed
  <2>2. Flow # <<>> => Len(Flow) \in 1..Len(Flow)
    BY FlowType, EmptySeq DEF StreamInv
  <2>3. Given \in Nat BY GivenType DEF StreamInv
  <2> QED BY <1>2, <2>1, <2>2, <2>3 DEF EndsAt, EndsBefore
<1>8. FlowInv' BY <1>1, <1>2, <1>6, <1>7, <1>9, FlowType, GivenType, FlowStays DEF StreamInv
<1> QED BY <1>1, <1>3, <1>4, <1>8, ReaderStays DEF StreamInv

LEMMA AllOkStep ==
  ASSUME StreamInv, AllOk
  PROVE  StreamInv'
<1>1. /\ send.pc = "loop" /\ conn = "open" /\ send.mPos = send.sz
      /\ send' = [pc |-> "idle", sz |-> send.sz, mPos |-> 0, parts |-> <<>>, ret |-> send.sz]
      /\ UNCHANGED <<written, wire, conn, recvVars>>
  BY DEF AllOk, NoSend
<1>2. written \in Nat /\ send.sz \in Nat /\ conn = "open" /\ send.sz <= MaxBytes
      /\ MaxBytes \in Nat
  BY <1>1, StreamAssumption DEF StreamInv, StreamTypeOK, SendInv
<1>3. StreamTypeOK' BY <1>1, <1>2 DEF StreamInv, StreamTypeOK, recvVars
<1>5. Unsent = <<>> /\ Unsent' = <<>>
  <2>1. Unsent = <<>> BY <1>1, UnsentType DEF StreamInv
  <2>2. send'.parts = <<>> BY <1>1
  <2> QED BY <2>1, <2>2 DEF Unsent
<1>4. SendInv' BY <1>1, <1>2, <1>5, EmptySeq DEF StreamInv, SendInv, SendRec, UnsentEnds
<1>6. Flow' = Flow BY <1>1, <1>5 DEF Flow, recvVars
<1>7. Sent' = Sent /\ Given' = Given BY <1>1, <1>2 DEF Sent, Given, recvVars
<1>8. FlowInv' BY <1>1, <1>2, <1>6, <1>7, FlowType, GivenType, FlowStays DEF StreamInv
<1> QED BY <1>1, <1>2, <1>3, <1>4, <1>8, ReaderStays DEF StreamInv

LEMMA CloseSocketStep ==
  ASSUME StreamInv, CloseSocket
  PROVE  StreamInv'
<1>1. /\ conn = "open" /\ conn' = "closed"
      /\ UNCHANGED <<sendVars, wire, recvVars>>
  BY DEF CloseSocket
<1>2. StreamTypeOK' BY <1>1 DEF StreamInv, StreamTypeOK, recvVars, sendVars
<1>4. Unsent' = Unsent BY <1>1 DEF Unsent, sendVars
<1>5. Flow' = Flow BY <1>1, <1>4 DEF Flow, recvVars
<1>6. /\ Sent' = Sent /\ Owed' = Owed /\ Given' = Given /\ written' = written /\ send' = send
      /\ written \in Nat
  BY <1>1 DEF Sent, Owed, Given, recvVars, sendVars, StreamInv, StreamTypeOK
<1>3. SendInv' BY <1>1, <1>4, <1>6 DEF StreamInv, SendInv, UnsentEnds
<1>7. FlowInv' BY <1>1, <1>5, <1>6, FlowType, GivenType, FlowStays DEF StreamInv
<1> QED BY <1>1, <1>2, <1>3, <1>7, ReaderStays DEF StreamInv

(* The parts of a record put together are the record.                       *)
LEMMA PartsOfRecord ==
  ASSUME NEW e \in Nat, NEW m \in 1..MaxMessage, e + m <= MaxBytes
  PROVE  /\ EncryptMessage(e, m) \in Seq(Seq(Cell)) /\ Len(EncryptMessage(e, m)) = 3
         /\ Stock(EncryptMessage(e, m)[1], Stock(EncryptMessage(e, m)[2], EncryptMessage(e, m)[3]))
              = Record(e, m)
<1> DEFINE R == Record(e, m)
           n == Header + m + Trailer
           a == SubSeq(R, 1, Header)
           b == SubSeq(R, Header + 1, Header + m)
           c == SubSeq(R, Header + m + 1, Header + m + Trailer)
<1>1. R \in Seq(Cell) /\ Len(R) = n BY RecordIs
<1>2. Header \in Nat \ {0} /\ Trailer \in Nat /\ m \in Nat \ {0} /\ n \in Nat BY RecordCells
<1>3. EncryptMessage(e, m) = <<a, b, c>> BY DEF EncryptMessage
<1> HIDE DEF R
<1>4. \A i \in 1..n : R[i] \in Cell BY <1>1, ElementOfSeq
<1>5. a \in Seq(Cell)
  <2>1. \A i \in 1..Header : R[i] \in Cell BY <1>2, <1>4
  <2> QED BY <1>2, <2>1, SubSeqProperties
<1>6. b \in Seq(Cell)
  <2>1. \A i \in (Header + 1)..(Header + m) : R[i] \in Cell BY <1>2, <1>4
  <2> QED BY <1>2, <2>1, SubSeqProperties
<1>7. c \in Seq(Cell)
  <2>1. \A i \in (Header + m + 1)..(Header + m + Trailer) : R[i] \in Cell BY <1>2, <1>4
  <2> QED BY <1>2, <2>1, SubSeqProperties
<1>8. b \o c = SubSeq(R, Header + 1, n)
  <2>1. /\ Header + 1 \in 1..(Len(R) + 1) /\ Header + m \in ((Header + 1) - 1)..Len(R)
        /\ n \in (Header + m)..Len(R)
    BY <1>1, <1>2
  <2> QED BY <1>1, <2>1, ConcatAdjacentSubSeq
<1>9. a \o SubSeq(R, Header + 1, n) = SubSeq(R, 1, n)
  <2>1. 1 \in 1..(Len(R) + 1) /\ Header \in (1 - 1)..Len(R) /\ n \in Header..Len(R)
    BY <1>1, <1>2
  <2> QED BY <1>1, <2>1, ConcatAdjacentSubSeq
<1>10. SubSeq(R, 1, n) = R BY <1>1, SubSeqFull
<1> HIDE DEF a, b, c, n
<1>11. Stock(a, Stock(b, c)) = R BY <1>8, <1>9, <1>10 DEF Stock
<1>12. <<a, b, c>> \in Seq(Seq(Cell)) /\ Len(<<a, b, c>>) = 3
       /\ <<a, b, c>>[1] = a /\ <<a, b, c>>[2] = b /\ <<a, b, c>>[3] = c
  BY <1>5, <1>6, <1>7
<1> QED BY <1>3, <1>11, <1>12 DEF R

LEMMA EncryptStep ==
  ASSUME StreamInv, Encrypt
  PROVE  StreamInv'
<1> DEFINE m == Min({send.sz - send.mPos, MaxMessage})
           E == EncryptMessage(Sent, m)
<1>1. /\ send.pc = "loop" /\ conn = "open" /\ send.mPos < send.sz
      /\ send' = [send EXCEPT !.pc = "parts", !.mPos = @ + m, !.parts = E]
      /\ UNCHANGED <<written, wire, conn, recvVars>>
  BY DEF Encrypt, Sent
<1>2. /\ send \in SendRec /\ conn = "open" /\ send.sz <= written /\ send.parts = <<>>
      /\ written \in 0..MaxBytes /\ send.mPos \in 0..send.sz /\ send.sz \in Nat
      /\ send.mPos \in Nat /\ written \in Nat
  BY <1>1, StreamAssumption DEF StreamInv, StreamTypeOK, SendInv, SendRec
<1>3. m \in 1..MaxMessage /\ send.mPos + m <= send.sz /\ m \in Nat
  <2>1. send.sz - send.mPos \in Nat \ {0} /\ MaxMessage \in Nat \ {0}
    BY <1>1, <1>2, StreamAssumption
  <2>2. m = IF send.sz - send.mPos <= MaxMessage THEN send.sz - send.mPos ELSE MaxMessage
    BY <2>1, MinOfTwo
  <2> HIDE DEF m
  <2> QED BY <1>2, <2>1, <2>2
<1> HIDE DEF m
<1>4. Sent = written - send.sz + send.mPos /\ Sent \in Nat /\ Sent + m <= written
      /\ Sent + m <= MaxBytes
  <2>1. Sent = written - send.sz + send.mPos BY <1>1 DEF Sent
  <2>2. MaxBytes \in Nat BY StreamAssumption
  <2> QED BY <1>2, <1>3, <2>1, <2>2
<1>5. E \in Seq(Seq(Cell)) /\ Len(E) = 3 /\ Stock(E[1], Stock(E[2], E[3])) = Record(Sent, m)
  BY <1>3, <1>4, PartsOfRecord
<1> HIDE DEF E
<1>6. /\ send' \in SendRec /\ send'.pc = "parts" /\ send'.sz = send.sz
      /\ send'.mPos = send.mPos + m /\ send'.parts = E
  <2>1. send.mPos + m \in Nat BY <1>2, <1>3
  <2>2. send' = [pc |-> "parts", sz |-> send.sz, mPos |-> send.mPos + m, parts |-> E,
                 ret |-> send.ret]
    BY <1>1, <1>2 DEF SendRec
  <2>3. send.sz \in Nat /\ send.ret \in Nat BY <1>2 DEF SendRec
  <2> QED BY <1>5, <2>1, <2>2, <2>3 DEF SendRec
<1>7. StreamTypeOK'
  BY <1>1, <1>2, <1>3, <1>6 DEF StreamInv, StreamTypeOK, recvVars
<1>9. Unsent' = Record(Sent, m)
  <2>1. E # <<>> BY <1>5, EmptySeq
  <2>2. send'.parts = E /\ Len(send'.parts) = 3 BY <1>5, <1>6
  <2>3. Unsent' = Stock(send'.parts[1], Stock(send'.parts[2], send'.parts[3]))
    BY <2>1, <2>2 DEF Unsent
  <2> QED BY <1>5, <2>2, <2>3
<1>10. Flow' = Stock(Flow, Record(Sent, m))
  <2>1. Unsent = <<>> BY <1>1, UnsentType DEF StreamInv
  <2>2. Flow = Carried BY <2>1, FlowType, CellStockEmpty DEF StreamInv
  <2>3. Carried' = Carried BY <1>1 DEF Carried, Kept, recvVars
  <2>4. Flow' = Stock(Carried', Unsent') BY DEF Flow, Carried, Kept
  <2> QED BY <1>9, <2>2, <2>3, <2>4
<1>11. Given' = Given BY <1>1 DEF Given, recvVars
<1>12. Sent' = Sent + m /\ Owed' = Owed BY <1>1, <1>2, <1>3, <1>4, <1>6 DEF Sent, Owed
<1>8. SendInv'
  <2> DEFINE R == Record(Sent, m)
  <2>3. Unsent' = R BY <1>9
  <2>5. \A i \in 1..Len(R) : R[i].left = 0 => R[i].byte = Sent + m BY <1>3, <1>4, RecordEnd
  <2> HIDE DEF R
  <2>6. UnsentEnds' BY <1>12, <2>3, <2>5 DEF UnsentEnds
  <2>7. send'.mPos > 0 BY <1>2, <1>3, <1>6
  <2> QED BY <1>1, <1>2, <1>5, <1>6, <2>6, <2>7 DEF SendInv
<1>13. FlowInv'
  <2> DEFINE T == Stock(Flow, Record(Sent, m))
  <2>1. Flow \in Seq(Cell) /\ Given \in Nat BY FlowType, GivenType DEF StreamInv
  <2>2. /\ Framed(Flow) /\ Chained(Flow, Given) /\ EndsAt(Flow, Given, Sent) /\ Given <= written
        /\ \A i \in 1..Len(Flow) : Flow[i].byte <= written
        /\ \A i \in 1..Len(Flow) : Flow[i].type # "close"
    BY <1>1, <1>2 DEF StreamInv, FlowInv
  <2>3. /\ Framed(T) /\ Chained(T, Given) /\ EndsAt(T, Given, Sent + m)
        /\ \A i \in 1..Len(T) : T[i].type # "close" /\ T[i].byte <= written
    BY <1>2, <1>3, <1>4, <2>1, <2>2, AppendRecord
  <2> HIDE DEF T
  <2>4. Flow' = T /\ written' = written BY <1>1, <1>10 DEF T
  <2>5. EndsBefore(T, Given, Owed)
    <3>1. EndsBefore(Flow, Given, Owed) BY <1>1 DEF StreamInv, FlowInv
    <3>2. Record(Sent, m) \in Seq(Cell) BY <1>3, <1>4, RecordIs
    <3>3. /\ \A i \in 1..Len(Flow) : i \in 1..Len(T) /\ T[i] = Flow[i]
      <4> DEFINE R == Record(Sent, m)
      <4>1. R \in Seq(Cell) BY <3>2
      <4> HIDE DEF R
      <4>2. /\ Len(Stock(Flow, R)) = Len(Flow) + Len(R) /\ Len(Flow) \in Nat /\ Len(R) \in Nat
            /\ \A i \in 1..Len(Flow) : Stock(Flow, R)[i] = Flow[i]
        BY <2>1, <4>1, CellStock
      <4> QED BY <4>2 DEF T, R
    <3> QED BY <3>1, <3>3 DEF EndsBefore
  <2> QED BY <1>11, <1>12, <2>2, <2>3, <2>4, <2>5 DEF FlowInv
<1> QED BY <1>1, <1>2, <1>7, <1>8, <1>13, ReaderStays DEF StreamInv

LEMMA NotEmpty ==
  ASSUME NEW P, Len(P) # 0
  PROVE  P # <<>>
BY EmptySeq, Zenon

(* A part goes to the wire and the others are what is unsent.               *)
LEMMA NextPart ==
  ASSUME SendInv, send.pc = "parts"
  PROVE  /\ Head(send.parts) \in Seq(Cell) /\ Len(send.parts) \in 1..3
         /\ Tail(send.parts) \in Seq(Seq(Cell)) /\ Len(Tail(send.parts)) = Len(send.parts) - 1
         /\ Len(send.parts) = 1 => Unsent = Head(send.parts)
         /\ Len(send.parts) = 2 => Unsent = Stock(Head(send.parts), Tail(send.parts)[1])
         /\ Len(send.parts) = 3 =>
              Unsent = Stock(Head(send.parts), Stock(Tail(send.parts)[1], Tail(send.parts)[2]))
         /\ \E rest \in Seq(Cell) : Unsent = Stock(Head(send.parts), rest)
<1> DEFINE P == send.parts
           Q == Tail(P)
<1>1. P \in Seq(Seq(Cell)) /\ Len(P) \in 1..3 BY DEF SendInv, SendRec
<1>10. Len(P) \in {1, 2, 3} BY <1>1
<1>2. P # <<>>
  <2>1. Len(P) # 0 BY <1>10
  <2> QED BY <2>1, NotEmpty
<1>3. \A i \in 1..Len(P) : P[i] \in Seq(Cell) BY <1>1, ElementOfSeq
<1>4. /\ Q \in Seq(Seq(Cell)) /\ Len(Q) = Len(P) - 1
      /\ \A i \in 1..Len(Q) : Q[i] = P[i + 1]
  BY <1>1, <1>2, HeadTailProperties
<1> HIDE DEF Q
<1>5. Head(P) = P[1] /\ P[1] \in Seq(Cell) BY <1>1, <1>2, <1>3
<1>6. Unsent = IF Len(P) = 1 THEN P[1] ELSE IF Len(P) = 2 THEN Stock(P[1], P[2])
               ELSE Stock(P[1], Stock(P[2], P[3]))
  BY <1>2 DEF Unsent
<1> HIDE DEF P
<1>7. CASE Len(P) = 1
  <2>1. Unsent = P[1] BY <1>6, <1>7
  <2>2. Stock(P[1], <<>>) = P[1] /\ <<>> \in Seq(Cell) BY <1>5, CellStockEmpty
  <2>3. \E rest \in Seq(Cell) : Unsent = Stock(Head(P), rest)
    <3>1. Unsent = Stock(Head(P), <<>>) BY <1>5, <2>1, <2>2
    <3> QED BY <2>2, <3>1
  <2>4. Unsent = Head(P) BY <1>5, <2>1
  <2> QED BY <1>1, <1>4, <1>5, <1>7, <2>3, <2>4 DEF P, Q
<1>8. CASE Len(P) = 2
  <2>1. Q[1] = P[2]
    <3>1. Len(Q) = 1 /\ 1 \in 1..Len(Q) BY <1>4, <1>8
    <3> QED BY <1>4, <3>1
  <2>2. P[2] \in Seq(Cell) /\ Unsent = Stock(P[1], P[2]) BY <1>3, <1>6, <1>8
  <2> QED BY <1>1, <1>4, <1>5, <1>8, <2>1, <2>2 DEF P, Q
<1>9. CASE Len(P) = 3
  <2>1. Q[1] = P[2] /\ Q[2] = P[3]
    <3>1. Len(Q) = 2 /\ 1 \in 1..Len(Q) /\ 2 \in 1..Len(Q) BY <1>4, <1>9
    <3>2. Q[1] = P[1 + 1] /\ Q[2] = P[2 + 1] BY <1>4, <3>1
    <3> QED BY <3>2
  <2> DEFINE b == P[2]
             c == P[3]
  <2>2. b \in Seq(Cell) /\ c \in Seq(Cell) /\ Unsent = Stock(P[1], Stock(b, c)) BY <1>3, <1>6, <1>9
  <2> HIDE DEF b, c
  <2>3. Stock(b, c) \in Seq(Cell) BY <2>2, CellStock
  <2>4. Unsent = Stock(P[1], Stock(P[2], P[3])) /\ Stock(P[2], P[3]) \in Seq(Cell)
    BY <2>2, <2>3 DEF b, c
  <2> QED BY <1>1, <1>4, <1>5, <1>9, <2>1, <2>4 DEF P, Q
<1> QED BY <1>7, <1>8, <1>9, <1>10

LEMMA SendPartStep ==
  ASSUME StreamInv, SendPart
  PROVE  StreamInv'
<1> DEFINE p == Head(send.parts)
<1>1. /\ send.pc = "parts" /\ conn = "open" /\ wire' = Stock(wire, p)
      /\ send' = IF Len(send.parts) = 1 THEN [send EXCEPT !.pc = "loop", !.parts = <<>>]
                                        ELSE [send EXCEPT !.parts = Tail(@)]
      /\ UNCHANGED <<written, conn, recvVars>>
  BY DEF SendPart, Stock
<1>2. /\ send \in SendRec /\ send.sz <= written /\ written \in Nat
      /\ wire \in Seq(Cell) /\ Kept \in Seq(Cell) /\ Carried \in Seq(Cell) /\ Flow \in Seq(Cell)
      /\ Flow = Stock(Carried, Unsent) /\ Given \in Nat
  BY <1>1, FlowType, GivenType DEF StreamInv, SendInv, StreamTypeOK
<1>3. p \in Seq(Cell) /\ Len(send.parts) \in 1..3 BY <1>1, NextPart DEF StreamInv
<1>4. Tail(send.parts) \in Seq(Seq(Cell)) /\ Len(Tail(send.parts)) = Len(send.parts) - 1
  BY <1>1, NextPart DEF StreamInv
<1>5. /\ send' \in SendRec /\ send'.pc \in {"loop", "parts"} /\ send'.sz = send.sz
      /\ send'.mPos = send.mPos
      /\ send'.pc = "parts" => Len(send'.parts) \in 1..3
      /\ send'.pc # "parts" => send'.parts = <<>>
      /\ Len(send.parts) = 1 => send'.parts = <<>>
      /\ Len(send.parts) # 1 => send'.parts = Tail(send.parts)
  <2>1. CASE Len(send.parts) = 1
    <3>1. <<>> \in Seq(Seq(Cell)) OBVIOUS
    <3>2. send' = [send EXCEPT !.pc = "loop", !.parts = <<>>] BY <1>1, <2>1
    <3> QED BY <1>2, <2>1, <3>1, <3>2 DEF SendRec
  <2>2. CASE Len(send.parts) # 1
    <3>1. Len(Tail(send.parts)) \in 1..3 BY <1>3, <1>4, <2>2
    <3> QED BY <1>1, <1>2, <1>4, <2>2, <3>1 DEF SendRec
  <2> QED BY <2>1, <2>2
<1>6. wire' \in Seq(Cell) BY <1>1, <1>2, <1>3, CellStock
<1>7. StreamTypeOK' BY <1>1, <1>5, <1>6 DEF StreamInv, StreamTypeOK, recvVars
<1>9. Unsent = Stock(p, Unsent')
  <2>1. CASE Len(send.parts) = 1
    <3>1. Unsent' = <<>> BY <1>5, <2>1 DEF Unsent
    <3>2. Unsent = p BY <1>1, <2>1, NextPart DEF StreamInv
    <3> QED BY <1>3, <3>1, <3>2, CellStockEmpty
  <2>2. CASE Len(send.parts) = 2
    <3>0. send'.parts = Tail(send.parts) /\ Len(Tail(send.parts)) = 1 BY <1>4, <1>5, <2>2
    <3>1. send'.parts # <<>> /\ Len(send'.parts) = 1
      <4>1. Len(send'.parts) = 1 BY <3>0
      <4>2. Len(send'.parts) # 0 BY <4>1
      <4> QED BY <4>1, <4>2, NotEmpty
    <3>2. Unsent' = Tail(send.parts)[1] BY <3>0, <3>1 DEF Unsent
    <3>3. Unsent = Stock(p, Tail(send.parts)[1]) BY <1>1, <2>2, NextPart DEF StreamInv
    <3> QED BY <3>0, <3>2, <3>3
  <2>3. CASE Len(send.parts) = 3
    <3>0. send'.parts = Tail(send.parts) /\ Len(Tail(send.parts)) = 2 BY <1>4, <1>5, <2>3
    <3>1. send'.parts # <<>> /\ Len(send'.parts) = 2
      <4>1. Len(send'.parts) = 2 BY <3>0
      <4>2. Len(send'.parts) # 0 BY <4>1
      <4> QED BY <4>1, <4>2, NotEmpty
    <3>2. Unsent' = Stock(Tail(send.parts)[1], Tail(send.parts)[2]) BY <3>0, <3>1 DEF Unsent
    <3>3. Unsent = Stock(p, Stock(Tail(send.parts)[1], Tail(send.parts)[2]))
      BY <1>1, <2>3, NextPart DEF StreamInv
    <3> QED BY <3>0, <3>2, <3>3
  <2> QED BY <1>3, <2>1, <2>2, <2>3
<1>10. Unsent' \in Seq(Cell)
  <2>1. send'.parts \in Seq(Seq(Cell)) BY <1>5 DEF SendRec
  <2>2. CASE Len(send.parts) = 1 BY <1>5, <2>2 DEF Unsent
  <2>3. CASE Len(send.parts) = 2
    <3>0. send'.parts = Tail(send.parts) /\ Len(Tail(send.parts)) = 1 BY <1>4, <1>5, <2>3
    <3>1. send'.parts # <<>> /\ Len(send'.parts) = 1
      <4>1. Len(send'.parts) = 1 BY <3>0
      <4>2. Len(send'.parts) # 0 BY <4>1
      <4> QED BY <4>1, <4>2, NotEmpty
    <3> QED BY <2>1, <3>1, ElementOfSeq DEF Unsent
  <2>4. CASE Len(send.parts) = 3
    <3> DEFINE b == send'.parts[1]
               c == send'.parts[2]
    <3>0. send'.parts = Tail(send.parts) /\ Len(Tail(send.parts)) = 2 BY <1>4, <1>5, <2>4
    <3>1. send'.parts # <<>> /\ Len(send'.parts) = 2
      <4>1. Len(send'.parts) = 2 BY <3>0
      <4>2. Len(send'.parts) # 0 BY <4>1
      <4> QED BY <4>1, <4>2, NotEmpty
    <3>2. Unsent' = Stock(b, c) BY <3>0, <3>1 DEF Unsent
    <3>3. b \in Seq(Cell) /\ c \in Seq(Cell) BY <2>1, <3>1, ElementOfSeq
    <3> HIDE DEF b, c
    <3> QED BY <3>2, <3>3, CellStock
  <2> QED BY <1>3, <2>2, <2>3, <2>4
<1>11. Flow' = Flow
  <2> DEFINE U == Unsent'
  <2>1. Kept' = Kept BY <1>1 DEF Kept, recvVars
  <2>2. Flow' = Stock(Stock(Kept, Stock(wire, p)), U)
    BY <1>1, <2>1 DEF Flow, Kept
  <2>3. U \in Seq(Cell) BY <1>10
  <2>4. Flow = Stock(Stock(Kept, wire), Stock(p, U)) BY <1>2, <1>9 DEF Carried
  <2> HIDE DEF U, p
  <2>5. Stock(Kept, Stock(wire, p)) = Stock(Stock(Kept, wire), p) BY <1>2, <1>3, CellStocking
  <2>6. Stock(Stock(Carried, p), U) = Stock(Carried, Stock(p, U))
    BY <1>2, <1>3, <2>3, CellStocking
  <2> QED BY <2>2, <2>4, <2>5, <2>6 DEF Carried
<1>12. Sent' = Sent /\ Owed' = Owed /\ Given' = Given
  BY <1>1, <1>5 DEF Sent, Owed, Given, recvVars
<1>8. SendInv'
  <2> DEFINE U == Unsent'
  <2>1. U \in Seq(Cell) /\ Unsent = Stock(p, U) BY <1>9, <1>10
  <2>2. \A i \in 1..Len(Unsent) : Unsent[i].left = 0 => Unsent[i].byte = Sent
    BY DEF StreamInv, SendInv, UnsentEnds
  <2> HIDE DEF U, p
  <2>3. /\ Len(Stock(p, U)) = Len(p) + Len(U) /\ Len(p) \in Nat /\ Len(U) \in Nat
        /\ \A i \in 1..Len(U) : Stock(p, U)[Len(p) + i] = U[i]
    BY <1>3, <2>1, CellStock
  <2>4. ASSUME NEW i \in 1..Len(U), U[i].left = 0 PROVE U[i].byte = Sent
    <3>1. Len(p) + i \in 1..Len(Unsent) /\ Unsent[Len(p) + i] = U[i] BY <2>1, <2>3
    <3> QED BY <2>2, <2>4, <3>1
  <2>5. UnsentEnds' BY <1>12, <2>4 DEF UnsentEnds, U
  <2> QED BY <1>1, <1>2, <1>5, <2>5 DEF StreamInv, SendInv
<1>13. FlowInv' BY <1>1, <1>2, <1>5, <1>11, <1>12, FlowStays DEF StreamInv
<1> QED BY <1>1, <1>7, <1>8, <1>13, ReaderStays DEF StreamInv

LEMMA OffStep ==
  ASSUME StreamInv, Off
  PROVE  StreamInv'
<1> DEFINE c == CloseNotify
<1>1. /\ send.pc = "idle" /\ conn = "open" /\ conn' = "closed" /\ wire' = Append(wire, c)
      /\ send' = send /\ written' = written /\ UNCHANGED recvVars
  BY DEF Off, sendVars
<1>2. /\ wire \in Seq(Cell) /\ Kept \in Seq(Cell) /\ Carried \in Seq(Cell) /\ Flow \in Seq(Cell)
      /\ Flow = Stock(Carried, Unsent) /\ Given \in Nat /\ written \in 0..MaxBytes
  BY FlowType, GivenType DEF StreamInv, StreamTypeOK
<1>3. c = [type |-> "close", left |-> 0, byte |-> written] BY DEF CloseNotify
<1>4. c \in Cell BY <1>2, <1>3 DEF Cell
<1> HIDE DEF c
<1>5. <<c>> \in Seq(Cell) /\ wire' = wire \o <<c>> /\ wire' \in Seq(Cell)
  BY <1>1, <1>2, <1>4, AppendIsConcat, AppendProperties
<1>6. StreamTypeOK' BY <1>1, <1>5 DEF StreamInv, StreamTypeOK, recvVars
<1>8. Unsent = <<>> /\ Unsent' = <<>>
  <2>1. Unsent = <<>> /\ Unsent' = Unsent BY <1>1, UnsentType DEF StreamInv, Unsent
  <2> QED BY <2>1
<1>7. SendInv' BY <1>1, <1>8, EmptySeq DEF StreamInv, SendInv, UnsentEnds
<1>9. Flow' = Stock(Flow, <<c>>)
  <2> DEFINE C == <<c>>
  <2>1. Kept' = Kept BY <1>1 DEF Kept, recvVars
  <2>2. wire' = Stock(wire, C) /\ C \in Seq(Cell) BY <1>5 DEF Stock
  <2> HIDE DEF C
  <2>3. Flow' = Stock(Stock(Kept, Stock(wire, C)), <<>>) BY <1>8, <2>1, <2>2 DEF Flow, Kept
  <2>4. Stock(Kept, Stock(wire, C)) = Stock(Carried, C)
    BY <1>2, <2>2, CellStocking DEF Carried
  <2>5. Flow = Carried BY <1>2, <1>8, CellStockEmpty
  <2>6. Stock(Carried, C) \in Seq(Cell) BY <1>2, <2>2, CellStock
  <2>7. Flow' = Stock(Carried, C) BY <2>3, <2>4, <2>6, CellStockEmpty
  <2> QED BY <2>5, <2>7 DEF C
<1>10. Given' = Given /\ Sent = written /\ Sent' = written'
  BY <1>1 DEF Given, Sent, recvVars
<1>11. FlowInv'
  <2> DEFINE T == Stock(Flow, <<c>>)
  <2>1. /\ Framed(Flow) /\ Chained(Flow, Given) /\ EndsAt(Flow, Given, written)
        /\ Given <= written /\ \A i \in 1..Len(Flow) : Flow[i].byte <= written
        /\ \A i \in 1..Len(Flow) : Flow[i].type # "close"
    BY <1>1, <1>10 DEF StreamInv, FlowInv
  <2>2. /\ Framed(T) /\ Chained(T, Given) /\ EndsAt(T, Given, written)
        /\ \A i \in 1..Len(T) : T[i].byte <= written
    BY <1>2, <1>3, <2>1, AppendClose
  <2> HIDE DEF T
  <2>3. Flow' = T BY <1>9 DEF T
  <2> QED BY <1>1, <1>10, <2>1, <2>2, <2>3 DEF FlowInv
<1> QED BY <1>1, <1>6, <1>7, <1>11, ReaderStays DEF StreamInv

LEMMA SendFailsStep ==
  ASSUME StreamInv, NEW k \in 0..(Header + MaxMessage), SendFails(k)
  PROVE  StreamInv'
<1> DEFINE p == Head(send.parts)
           q == SubSeq(p, 1, k)
<1>1. /\ send.pc = "parts" /\ conn = "open" /\ conn' = "broken" /\ k < Len(p)
      /\ wire' = wire \o q /\ written' = written /\ UNCHANGED recvVars
      /\ send' = [pc |-> "failed", sz |-> send.sz, mPos |-> 0, parts |-> <<>>, ret |-> k]
  BY DEF SendFails, NoSend
<1>2. /\ send \in SendRec /\ send.sz <= written /\ written \in 0..MaxBytes /\ MaxBytes \in Nat
      /\ wire \in Seq(Cell) /\ Kept \in Seq(Cell) /\ Carried \in Seq(Cell) /\ Flow \in Seq(Cell)
      /\ Flow = Stock(Carried, Unsent) /\ Given \in Nat
  BY <1>1, FlowType, GivenType, StreamAssumption DEF StreamInv, SendInv, StreamTypeOK
<1>3. p \in Seq(Cell) /\ (\E rest \in Seq(Cell) : Unsent = Stock(p, rest))
  BY <1>1, NextPart DEF StreamInv
<1>4. PICK rest \in Seq(Cell) : Unsent = Stock(p, rest) BY <1>3
<1> HIDE DEF p
<1>5. k \in 0..Len(p) /\ k \in Nat /\ Len(p) \in Nat
  BY <1>1, <1>3, StreamAssumption, LenProperties
<1>6. q \in Seq(Cell) /\ Len(q) = k /\ \A i \in 1..k : q[i] = p[i] BY <1>3, <1>5, CellFirst
<1> HIDE DEF q
<1>7. wire' = Stock(wire, q) /\ wire' \in Seq(Cell) BY <1>1, <1>2, <1>6, CellStock DEF Stock
<1>8. send.sz \in Nat /\ send.sz \in 0..MaxBytes BY <1>2 DEF SendRec
<1>9. StreamTypeOK' BY <1>1, <1>2, <1>7, <1>8 DEF StreamInv, StreamTypeOK, recvVars
<1>10. SendInv'
  <2>1. send'.parts = <<>> BY <1>1
  <2>2. Unsent' = <<>> BY <2>1 DEF Unsent
  <2> QED BY <1>1, <1>5, <1>8, <2>2, EmptySeq DEF SendInv, SendRec, UnsentEnds
<1>11. Flow' = Stock(Carried, q)
  <2>1. Kept' = Kept /\ Unsent' = <<>> BY <1>1 DEF Kept, Unsent, recvVars
  <2>2. Flow' = Stock(Stock(Kept, Stock(wire, q)), <<>>) BY <1>7, <2>1 DEF Flow, Kept
  <2>3. Stock(Kept, Stock(wire, q)) = Stock(Carried, q)
    BY <1>2, <1>6, CellStocking DEF Carried
  <2>4. Stock(Carried, q) \in Seq(Cell) BY <1>2, <1>6, CellStock
  <2> QED BY <2>2, <2>3, <2>4, CellStockEmpty
<1> DEFINE n == Len(Carried) + k
<1>12. Stock(Carried, q) = SubSeq(Flow, 1, n) /\ n \in 0..Len(Flow)
  <2>1. /\ Stock(p, rest) \in Seq(Cell) /\ Len(Stock(p, rest)) = Len(p) + Len(rest)
        /\ Len(rest) \in Nat /\ \A i \in 1..Len(p) : Stock(p, rest)[i] = p[i]
    BY <1>3, CellStock
  <2>2. /\ Len(Flow) = Len(Carried) + Len(Unsent) /\ Len(Carried) \in Nat
        /\ \A i \in 1..Len(Carried) : Flow[i] = Carried[i]
        /\ \A i \in 1..Len(Unsent) : Flow[Len(Carried) + i] = Unsent[i]
    <3>1. Unsent \in Seq(Cell) BY <1>4, <2>1
    <3> DEFINE U == Unsent
               C == Carried
    <3> HIDE DEF U, C
    <3>3. U \in Seq(Cell) /\ C \in Seq(Cell) /\ Flow = Stock(C, U) BY <1>2, <3>1 DEF U, C
    <3>4. /\ Len(Flow) = Len(C) + Len(U) /\ Len(C) \in Nat
          /\ \A i \in 1..Len(C) : Flow[i] = C[i]
          /\ \A i \in 1..Len(U) : Flow[Len(C) + i] = U[i]
      BY <3>3, CellStock
    <3> QED BY <3>4 DEF U, C
  <2>3. n \in 0..Len(Flow) BY <1>4, <1>5, <2>1, <2>2
  <2> HIDE DEF n
  <2>4. /\ SubSeq(Flow, 1, n) \in Seq(Cell) /\ Len(SubSeq(Flow, 1, n)) = n
        /\ \A i \in 1..n : SubSeq(Flow, 1, n)[i] = Flow[i]
    BY <1>2, <2>3, CellFirst
  <2> DEFINE A == SubSeq(Flow, 1, n)
             B == Stock(Carried, q)
  <2>5. /\ B \in Seq(Cell) /\ Len(B) = Len(Carried) + Len(q)
        /\ \A i \in 1..Len(Carried) : B[i] = Carried[i]
        /\ \A i \in 1..Len(B) : i > Len(Carried) => B[i] = q[i - Len(Carried)]
    BY <1>2, <1>6, CellStock
  <2>6. A \in Seq(Cell) /\ Len(A) = n /\ \A i \in 1..n : A[i] = Flow[i] BY <2>4
  <2> HIDE DEF A, B
  <2>7. Len(B) = n BY <1>6, <2>5 DEF n
  <2>8. ASSUME NEW i \in 1..Len(B) PROVE B[i] = A[i]
    <3>1. n \in Nat /\ Len(Carried) \in Nat /\ n = Len(Carried) + k BY <1>5, <2>2 DEF n
    <3>2. CASE i <= Len(Carried) BY <2>2, <2>5, <2>6, <2>7, <3>1, <3>2
    <3>3. CASE i > Len(Carried)
      <4>1. i - Len(Carried) \in 1..k /\ Len(Carried) + (i - Len(Carried)) = i
        BY <2>7, <3>1, <3>3
      <4>2. i - Len(Carried) \in 1..Len(p) BY <1>5, <4>1
      <4>3. i - Len(Carried) \in 1..Len(Unsent) BY <1>4, <1>5, <2>1, <4>2
      <4>4. Flow[i] = Unsent[i - Len(Carried)] BY <2>2, <4>1, <4>3
      <4>5. Unsent[i - Len(Carried)] = p[i - Len(Carried)] BY <1>4, <2>1, <4>2
      <4> QED BY <1>6, <2>5, <2>6, <2>7, <3>3, <4>1, <4>4, <4>5
    <3> QED BY <2>7, <3>1, <3>2, <3>3
  <2>9. B = A BY <2>5, <2>6, <2>7, <2>8, SeqEqual
  <2> QED BY <2>3, <2>9 DEF A, B
<1>13. Given' = Given BY <1>1 DEF Given, recvVars
<1>14. FlowInv'
  <2> DEFINE T == SubSeq(Flow, 1, n)
  <2> HIDE DEF n
  <2>1. Framed(T) /\ Chained(T, Given) BY <1>2, <1>12, CutFlow DEF StreamInv, FlowInv
  <2>2. Len(T) = n /\ \A i \in 1..n : T[i] = Flow[i] BY <1>2, <1>12, CellFirst
  <2> HIDE DEF T
  <2>3. Len(Flow) \in Nat /\ \A i \in 1..n : i \in 1..Len(Flow) BY <1>2, <1>12, LenProperties
  <2>4. \A i \in 1..Len(T) : T[i].byte <= written /\ T[i].type # "close"
    BY <1>1, <2>2, <2>3 DEF StreamInv, FlowInv
  <2>5. Flow' = T BY <1>11, <1>12 DEF T
  <2>6. Given <= written BY DEF StreamInv, FlowInv
  <2> QED BY <1>1, <1>13, <2>1, <2>4, <2>5, <2>6 DEF FlowInv
<1> QED BY <1>1, <1>9, <1>10, <1>14, ReaderStays DEF StreamInv

RecvRec == [pc : {"idle", "begin", "fill", "decrypt"}, sz : 0..MaxRead, rs : 0..MaxRead,
            whole : BOOLEAN]

(* What the reader does while it is given nothing does not concern the      *)
(* sender.                                                                 *)
LEMMA SenderStays ==
  ASSUME StreamInv, UNCHANGED sendVars, UNCHANGED conn
  PROVE  /\ SendInv' /\ Unsent' = Unsent /\ Sent' = Sent /\ Owed' = Owed
         /\ written' \in 0..MaxBytes /\ conn' \in {"open", "closed", "broken"}
         /\ send'.pc \in {"idle", "loop", "parts", "failed"} /\ send'.mPos \in 0..send'.sz
         /\ send'.sz \in 0..MaxBytes
<1>1. Unsent' = Unsent /\ Sent' = Sent /\ Owed' = Owed /\ send' = send /\ written' = written
  BY DEF Unsent, Sent, Owed, sendVars
<1>2. UnsentEnds' BY <1>1 DEF StreamInv, SendInv, UnsentEnds
<1> QED BY <1>1, <1>2 DEF StreamInv, StreamTypeOK, SendInv

(* n bytes of what is there for the reader go to it, and the others are     *)
(* kept.                                                                   *)
LEMMA GiveBytes ==
  ASSUME NEW r \in Seq(1..MaxBytes), NEW b \in Seq(1..MaxBytes), NEW n \in 0..Len(b),
         \A i \in 1..Len(r) : r[i] = i, \A i \in 1..Len(b) : b[i] = Len(r) + i
  PROVE  /\ Joined(r, b, n) \in Seq(1..MaxBytes) /\ Len(SubSeq(b, 1, n)) = n
         /\ Later(b, n) \in Seq(1..MaxBytes)
         /\ Len(Joined(r, b, n)) = Len(r) + n
         /\ Len(Later(b, n)) = Len(b) - n
         /\ Len(r) \in Nat /\ Len(b) \in Nat
         /\ \A i \in 1..(Len(r) + n) : Joined(r, b, n)[i] = i
         /\ \A i \in 1..(Len(b) - n) : Later(b, n)[i] = Len(r) + n + i
<1> DEFINE S == 1..MaxBytes
           h == SubSeq(b, 1, n)
           t == SubSeq(b, n + 1, Len(b))
<1>1. Len(r) \in Nat /\ Len(b) \in Nat /\ \A i \in 1..Len(b) : b[i] \in S
  BY LenProperties, ElementOfSeq
<1>2. r \in Seq(S) /\ b \in Seq(S) OBVIOUS
<1> HIDE DEF S
<1>3. h \in Seq(S) /\ Len(h) = n /\ \A i \in 1..n : h[i] = b[i]
  <2>1. \A i \in 1..n : b[i] \in S BY <1>1
  <2> QED BY <1>1, <2>1, SubSeqProperties, Z3
<1>4. t \in Seq(S) /\ Len(t) = Len(b) - n /\ \A i \in 1..(Len(b) - n) : t[i] = b[n + i]
  <2>1. \A i \in (n + 1)..Len(b) : b[i] \in S BY <1>1
  <2> QED BY <1>1, <2>1, SubSeqProperties, Z3
<1> HIDE DEF h, t
<1>5. /\ r \o h \in Seq(S) /\ Len(r \o h) = Len(r) + Len(h)
      /\ \A i \in 1..(Len(r) + Len(h)) : (r \o h)[i] = IF i <= Len(r) THEN r[i] ELSE h[i - Len(r)]
  BY <1>2, <1>3, ConcatProperties
<1> DEFINE rh == r \o h
<1> HIDE DEF rh
<1>6. /\ rh \in Seq(S) /\ Len(rh) = Len(r) + n
      /\ \A i \in 1..(Len(r) + n) : rh[i] = IF i <= Len(r) THEN r[i] ELSE h[i - Len(r)]
  BY <1>3, <1>5 DEF rh
<1>7. \A i \in 1..(Len(r) + n) : rh[i] = i
  <2> SUFFICES ASSUME NEW i \in 1..(Len(r) + n) PROVE rh[i] = i OBVIOUS
  <2>1. CASE i <= Len(r) BY <1>1, <1>6, <2>1
  <2>2. CASE i > Len(r)
    <3>1. i - Len(r) \in 1..n /\ i - Len(r) \in 1..Len(b) BY <1>1, <2>2
    <3>2. Len(r) + (i - Len(r)) = i BY <1>1
    <3>3. rh[i] = h[i - Len(r)] BY <1>1, <1>6, <2>2
    <3>4. h[i - Len(r)] = Len(r) + (i - Len(r)) BY <1>3, <3>1
    <3> QED BY <3>2, <3>3, <3>4
  <2> QED BY <1>1, <2>1, <2>2
<1>8. \A i \in 1..(Len(b) - n) : t[i] = Len(r) + n + i
  <2> SUFFICES ASSUME NEW i \in 1..(Len(b) - n) PROVE t[i] = Len(r) + n + i OBVIOUS
  <2>1. n + i \in 1..Len(b) /\ Len(r) + (n + i) = Len(r) + n + i BY <1>1
  <2>2. b[n + i] = Len(r) + (n + i) BY <2>1
  <2> QED BY <1>4, <2>1, <2>2
<1> QED BY <1>1, <1>3, <1>4, <1>6, <1>7, <1>8 DEF h, t, rh, S, Joined, Later

LEMMA ReturnType ==
  ASSUME StreamTypeOK, NEW bytes, Len(bytes) \in 0..Room, Return(bytes)
  PROVE  /\ recv' \in RecvRec /\ recv'.rs <= recv'.sz /\ recv'.pc \in {"begin", "idle"}
         /\ read' = read \o bytes
<1>1. /\ recv \in RecvRec /\ recv.sz \in Nat /\ recv.rs \in Nat /\ recv.sz \in 0..MaxRead
      /\ recv.rs <= recv.sz /\ MaxRead \in Nat /\ recv.whole \in BOOLEAN
  BY StreamAssumption DEF StreamTypeOK, RecvRec
<1> DEFINE n == Len(bytes)
           pc == IF recv.whole /\ n < Room THEN "begin" ELSE "idle"
<1>2. Room = recv.sz - recv.rs /\ n \in 0..Room BY DEF Room
<1>3. recv' = [pc |-> pc, sz |-> recv.sz, rs |-> recv.rs + n, whole |-> recv.whole]
  BY <1>1 DEF Return, RecvRec
<1>4. pc \in {"begin", "idle"} OBVIOUS
<1> HIDE DEF n, pc
<1>5. recv.rs + n \in 0..MaxRead /\ recv.rs + n <= recv.sz BY <1>1, <1>2
<1>6. recv' \in RecvRec BY <1>1, <1>3, <1>4, <1>5 DEF RecvRec
<1>7. recv'.rs <= recv'.sz BY <1>3, <1>5
<1>8. recv'.pc \in {"begin", "idle"} BY <1>3, <1>4
<1> QED BY <1>6, <1>7, <1>8 DEF Return

LEMMA SRecvStep ==
  ASSUME StreamInv, NEW sz \in 1..MaxRead, NEW whole \in BOOLEAN, SRecv(sz, whole)
  PROVE  StreamInv'
<1>1. /\ recv.pc = "idle" /\ ended = "none"
      /\ recv' = [pc |-> "begin", sz |-> sz, rs |-> 0, whole |-> whole]
      /\ UNCHANGED <<sendVars, wire, conn, mmsg, extra, pending, read, ended>>
  BY DEF SRecv
<1>2. MaxRead \in Nat /\ sz \in 0..MaxRead /\ 0 \in 0..MaxRead /\ 0 <= sz BY StreamAssumption
<1>3. StreamTypeOK'
  BY <1>1, <1>2, SenderStays DEF StreamInv, StreamTypeOK, sendVars
<1>4. SendInv' BY <1>1, SenderStays
<1>5. Flow' = Flow BY <1>1, SenderStays DEF Flow
<1>6. Given' = Given /\ Sent' = Sent /\ Owed' = Owed BY <1>1, SenderStays DEF Given
<1>7. FlowInv'
  BY <1>1, <1>5, <1>6, FlowType, GivenType, FlowStays DEF StreamInv, StreamTypeOK, sendVars
<1>8. RecvInv' BY <1>1 DEF StreamInv, RecvInv
<1>9. ReadInv' BY <1>1, SenderStays DEF StreamInv, ReadInv
<1> QED BY <1>3, <1>4, <1>7, <1>8, <1>9 DEF StreamInv

LEMMA TakePendingStep ==
  ASSUME StreamInv, TakePending
  PROVE  StreamInv' /\ Len(read) <= Len(read')
<1> DEFINE n == Min({Room, Len(pending)})
<1>1. /\ recv.pc = "begin" /\ pending # <<>> /\ Return(SubSeq(pending, 1, n))
      /\ pending' = Later(pending, n)
      /\ UNCHANGED <<sendVars, wire, conn, mmsg, extra, ended>>
  BY DEF TakePending, Later
<1>2. Room \in Nat /\ Len(pending) \in Nat
  BY StreamAssumption, GivenType DEF StreamInv, StreamTypeOK, Room
<1>3. n \in 0..Room /\ n \in 0..Len(pending)
  <2>1. n = IF Room <= Len(pending) THEN Room ELSE Len(pending) BY <1>2, MinOfTwo
  <2> HIDE DEF n
  <2> QED BY <1>2, <2>1
<1> HIDE DEF n
<1>4. /\ read \in Seq(1..MaxBytes) /\ pending \in Seq(1..MaxBytes)
      /\ \A i \in 1..Len(read) : read[i] = i
      /\ \A i \in 1..Len(pending) : pending[i] = Len(read) + i
  BY DEF StreamInv, StreamTypeOK, ReadInv
<1>5. /\ Joined(read, pending, n) \in Seq(1..MaxBytes) /\ Len(SubSeq(pending, 1, n)) = n
      /\ Later(pending, n) \in Seq(1..MaxBytes)
      /\ Len(Joined(read, pending, n)) = Len(read) + n
      /\ Len(Later(pending, n)) = Len(pending) - n /\ Len(read) \in Nat
      /\ \A i \in 1..(Len(read) + n) : Joined(read, pending, n)[i] = i
      /\ \A i \in 1..(Len(pending) - n) : Later(pending, n)[i] = Len(read) + n + i
  BY <1>3, <1>4, GiveBytes
<1>6. /\ recv' \in RecvRec /\ recv'.rs <= recv'.sz /\ recv'.pc \in {"begin", "idle"}
      /\ read' = Joined(read, pending, n)
  BY <1>1, <1>3, <1>5, ReturnType DEF StreamInv, Joined
<1>7. StreamTypeOK'
  BY <1>1, <1>5, <1>6, SenderStays DEF StreamInv, StreamTypeOK, RecvRec
<1>8. Flow' = Flow BY <1>1, SenderStays DEF Flow
<1>9. Given' = Given
  <2>1. Len(read') = Len(read) + n BY <1>5, <1>6
  <2>2. Len(pending') = Len(pending) - n BY <1>1, <1>5
  <2> QED BY <1>2, <1>3, <1>5, <2>1, <2>2 DEF Given
<1>10. FlowInv'
  BY <1>1, <1>8, <1>9, SenderStays, FlowType, GivenType, FlowStays
     DEF StreamInv, StreamTypeOK, sendVars
<1>11. RecvInv' BY <1>1, <1>6 DEF StreamInv, RecvInv
<1>12. ReadInv'
  <2>1. ended' # "closed" BY <1>1 DEF StreamInv, RecvInv
  <2> QED BY <1>1, <1>5, <1>6, <2>1 DEF ReadInv
<1>13. Len(read) <= Len(read') BY <1>3, <1>5, <1>6
<1> QED BY <1>1, <1>7, <1>10, <1>11, <1>12, <1>13, SenderStays DEF StreamInv

LEMMA EnterLoopStep ==
  ASSUME StreamInv, EnterLoop
  PROVE  StreamInv'
<1>1. /\ recv.pc = "begin" /\ pending = <<>> /\ recv' = [recv EXCEPT !.pc = "fill"] /\ mmsg' = <<>>
      /\ UNCHANGED <<sendVars, wire, conn, extra, pending, read, ended>>
  BY DEF EnterLoop
<1>2. mmsg = <<>> BY <1>1 DEF StreamInv, RecvInv
<1>3. StreamTypeOK'
  <2>1. <<>> \in Seq(Cell) /\ Len(<<>>) = 0 /\ 0 <= 9 * MaxMessage /\ 0 <= 10 * MaxMessage
    BY StreamAssumption
  <2> QED BY <1>1, <2>1, SenderStays DEF StreamInv, StreamTypeOK
<1>4. Flow' = Flow /\ Given' = Given BY <1>1, <1>2, SenderStays DEF Flow, Given
<1>5. FlowInv'
  BY <1>1, <1>4, SenderStays, FlowType, GivenType, FlowStays DEF StreamInv, StreamTypeOK, sendVars
<1>6. RecvInv' BY <1>1 DEF StreamInv, RecvInv, StreamTypeOK
<1>7. ReadInv' BY <1>1, SenderStays DEF StreamInv, ReadInv
<1> QED BY <1>1, <1>3, <1>5, <1>6, <1>7, SenderStays DEF StreamInv

LEMMA TakeExtraStep ==
  ASSUME StreamInv, TakeExtra
  PROVE  StreamInv'
<1>1. /\ recv.pc = "fill" /\ extra # <<>> /\ mmsg' = mmsg \o extra /\ extra' = <<>>
      /\ recv' = [recv EXCEPT !.pc = "decrypt"]
      /\ UNCHANGED <<sendVars, wire, conn, pending, read, ended>>
  BY DEF TakeExtra
<1>2. mmsg = <<>> /\ Len(extra) <= 10 * MaxMessage BY <1>1 DEF StreamInv, RecvInv
<1>3. extra \in Seq(Cell) /\ wire \in Seq(Cell) BY DEF StreamInv, StreamTypeOK
<1>4. mmsg' = extra BY <1>1, <1>2, <1>3, ConcatEmptySeq
<1>5. StreamTypeOK' BY <1>1, <1>2, <1>4, SenderStays DEF StreamInv, StreamTypeOK
<1>6. Flow' = Flow
  <2>1. Stock(<<>>, extra) = extra /\ Stock(extra, <<>>) = extra BY <1>3, CellStockEmpty
  <2> QED BY <1>1, <1>2, <1>4, <2>1, SenderStays DEF Flow
<1>7. Given' = Given BY <1>1 DEF Given
<1>8. FlowInv'
  BY <1>1, <1>6, <1>7, SenderStays, FlowType, GivenType, FlowStays
     DEF StreamInv, StreamTypeOK, sendVars
<1>9. RecvInv'
  <2>1. 0 <= 10 * MaxMessage BY StreamAssumption
  <2> QED BY <1>1, <1>4, <2>1 DEF StreamInv, RecvInv, StreamTypeOK
<1>10. ReadInv' BY <1>1, SenderStays DEF StreamInv, ReadInv
<1> QED BY <1>1, <1>5, <1>8, <1>9, <1>10, SenderStays DEF StreamInv

LEMMA RecvCellsStep ==
  ASSUME StreamInv, NEW n \in 1..MaxMessage, RecvCells(n)
  PROVE  StreamInv'
<1>1. /\ recv.pc = "fill" /\ extra = <<>> /\ n <= Len(wire)
      /\ mmsg' = Joined(mmsg, wire, n) /\ wire' = Later(wire, n)
      /\ recv' = [recv EXCEPT !.pc = "decrypt"]
      /\ UNCHANGED <<sendVars, conn, extra, pending, read, ended>>
  BY DEF RecvCells, Joined, Later
<1>2. mmsg \in Seq(Cell) /\ wire \in Seq(Cell) /\ Len(mmsg) <= 9 * MaxMessage
  BY <1>1 DEF StreamInv, StreamTypeOK
<1>3. n \in 1..Len(wire) /\ MaxMessage \in Nat /\ Len(mmsg) \in Nat /\ n \in Nat /\ n <= MaxMessage
  BY <1>1, <1>2, StreamAssumption, LenProperties
<1>4. /\ mmsg' \in Seq(Cell) /\ wire' \in Seq(Cell) /\ mmsg' # <<>> /\ Len(mmsg') = Len(mmsg) + n
      /\ Stock(mmsg', wire') = Stock(mmsg, wire)
  BY <1>1, <1>2, <1>3, CellReceipt
<1>5. Len(mmsg') <= 10 * MaxMessage BY <1>2, <1>3, <1>4
<1>6. StreamTypeOK' BY <1>1, <1>4, <1>5, SenderStays DEF StreamInv, StreamTypeOK
<1>7. Flow' = Flow
  <2>1. Flow = Stock(Stock(mmsg, wire), Unsent) BY <1>1, <1>2, CellStockEmpty DEF Flow
  <2> DEFINE M == mmsg'
             W == wire'
             U == Unsent'
  <2>2. Flow' = Stock(Stock(Stock(M, <<>>), W), U) BY <1>1 DEF Flow
  <2>3. M \in Seq(Cell) /\ Stock(M, W) = Stock(mmsg, wire) /\ U = Unsent
    BY <1>1, <1>4, SenderStays
  <2> HIDE DEF M, W, U
  <2>4. Stock(M, <<>>) = M BY <2>3, CellStockEmpty
  <2> QED BY <2>1, <2>2, <2>3, <2>4
<1>8. Given' = Given BY <1>1 DEF Given
<1>9. FlowInv'
  BY <1>1, <1>7, <1>8, SenderStays, FlowType, GivenType, FlowStays
     DEF StreamInv, StreamTypeOK, sendVars
<1>10. RecvInv'
  BY <1>1, <1>4 DEF StreamInv, RecvInv, StreamTypeOK
<1>11. ReadInv' BY <1>1, SenderStays DEF StreamInv, ReadInv
<1> QED BY <1>1, <1>6, <1>9, <1>10, <1>11, SenderStays DEF StreamInv

(* A flow that ends with a whole record does not begin with part of one.    *)
LEMMA NoPart ==
  ASSUME NEW S \in Seq(Cell), NEW g \in Nat, NEW e \in Nat, Framed(S), EndsAt(S, g, e),
         S # <<>>
  PROVE  Len(S) > S[1].left
<1>1. Len(S) \in Nat \ {0} /\ 1 \in 1..Len(S) BY EmptySeq
<1>2. Starts(S, 1) BY DEF Starts
<1>3. S[Len(S)].left = 0 BY DEF EndsAt
<1>4. CASE IsClose(S, 1) BY <1>1, <1>4 DEF IsClose
<1>5. CASE IsRecord(S, 1)
  <2>1. PICK m \in 1..MaxMessage :
          /\ S[1].left = Header + m + Trailer - 1
          /\ \A j \in 1..(Header + m + Trailer) :
               1 + j - 1 <= Len(S) => S[1 + j - 1] = Record(S[1].byte, m)[j]
    BY <1>5 DEF IsRecord
  <2>2. Header \in Nat \ {0} /\ Trailer \in Nat /\ m \in Nat \ {0} BY StreamAssumption
  <2>3. ASSUME Len(S) <= S[1].left PROVE FALSE
    <3>1. Len(S) \in 1..(Header + m + Trailer) /\ 1 + Len(S) - 1 = Len(S)
      BY <1>1, <2>1, <2>2, <2>3
    <3>2. S[Len(S)] = Record(S[1].byte, m)[Len(S)] BY <1>1, <2>1, <3>1
    <3>3. S[1].byte \in Nat BY <1>1, CellFields
    <3>4. \A b \in Nat : \A i \in 1..(Header + m + Trailer) :
            Record(b, m)[i].left = Header + m + Trailer - i
      BY RecordCells
    <3> QED BY <1>1, <1>3, <2>1, <2>2, <2>3, <3>1, <3>2, <3>3, <3>4
  <2>4. S[1].left \in Nat BY <1>1, CellFields
  <2> QED BY <1>1, <2>3, <2>4
<1> QED BY <1>1, <1>2, <1>4, <1>5 DEF Framed

LEMMA RecvEndsStep ==
  ASSUME StreamInv, RecvEnds
  PROVE  StreamInv'
<1>1. /\ recv.pc = "fill" /\ extra = <<>> /\ recv' = [recv EXCEPT !.pc = "idle"]
      /\ \/ conn = "closed" /\ wire = <<>> /\ ended' = "closed"
         \/ conn = "broken" /\ ended' = "error"
      /\ UNCHANGED <<sendVars, wire, conn, mmsg, extra, pending, read>>
  BY DEF RecvEnds, ReturnEnd
<1>2. StreamTypeOK' BY <1>1, SenderStays DEF StreamInv, StreamTypeOK
<1>3. Flow' = Flow /\ Given' = Given BY <1>1, SenderStays DEF Flow, Given
<1>4. FlowInv'
  BY <1>1, <1>3, SenderStays, FlowType, GivenType, FlowStays DEF StreamInv, StreamTypeOK, sendVars
<1>5. RecvInv' BY <1>1 DEF StreamInv, RecvInv, StreamTypeOK
<1>6. ASSUME ended' = "closed" PROVE ReadInv'
  <2>1. conn = "closed" /\ wire = <<>> /\ send.pc \in {"idle", "loop", "parts"} /\ pending = <<>>
    BY <1>1, <1>6 DEF StreamInv, SendInv, RecvInv, StreamTypeOK
  <2>2. mmsg \in Seq(Cell) /\ Unsent \in Seq(Cell) BY UnsentType DEF StreamInv, StreamTypeOK
  <2>3. Flow = Stock(mmsg, Unsent) BY <1>1, <2>1, <2>2, CellStockEmpty DEF Flow
  <2>4. mmsg # <<>> => Len(mmsg) <= mmsg[1].left BY <1>1 DEF StreamInv, RecvInv
  <2>5. Given \in Nat /\ written \in Nat
    BY GivenType, StreamAssumption DEF StreamInv, StreamTypeOK
  <2>6. ASSUME send.pc = "idle" PROVE Given >= Owed
    <3>1. Unsent = <<>> BY <2>6, UnsentType DEF StreamInv
    <3>2. Flow = mmsg BY <2>2, <2>3, <3>1, CellStockEmpty
    <3>3. Sent = written /\ Owed = written BY <2>6 DEF Sent, Owed
    <3>4. EndsAt(mmsg, Given, written) /\ Framed(mmsg)
      BY <2>6, <3>2, <3>3 DEF StreamInv, FlowInv
    <3>5. ASSUME mmsg # <<>> PROVE FALSE
      <4>1. Len(mmsg) > mmsg[1].left BY <2>2, <2>5, <3>4, <3>5, NoPart
      <4>2. Len(mmsg) \in Nat \ {0} BY <2>2, <3>5, EmptySeq
      <4>3. mmsg[1].left \in Nat BY <2>2, <4>2, CellFields
      <4> QED BY <2>4, <3>5, <4>1, <4>2, <4>3
    <3>6. Given = written BY <3>4, <3>5 DEF EndsAt
    <3> QED BY <2>5, <3>3, <3>6
  <2>7. ASSUME send.pc \in {"loop", "parts"} PROVE Given >= Owed
    <3>1. EndsBefore(Flow, Given, Owed) /\ Framed(Flow) BY <2>7 DEF StreamInv, FlowInv
    <3>2. ASSUME NEW i \in 1..Len(Flow), Flow[i].left = 0, Flow[i].byte = Owed PROVE FALSE
      <4> DEFINE U == Unsent
      <4>1. U \in Seq(Cell) /\ Flow = Stock(mmsg, U) BY <2>2, <2>3
      <4>2. \A j \in 1..Len(U) : U[j].left = 0 => U[j].byte = Sent
        BY DEF StreamInv, SendInv, UnsentEnds
      <4>3. U # <<>> => send.pc = "parts" BY UnsentType DEF StreamInv
      <4> HIDE DEF U
      <4>4. /\ Len(Flow) = Len(mmsg) + Len(U) /\ Len(mmsg) \in Nat /\ Len(U) \in Nat
            /\ \A j \in 1..Len(mmsg) : Flow[j] = mmsg[j]
            /\ \A j \in 1..Len(U) : Flow[Len(mmsg) + j] = U[j]
            /\ Flow \in Seq(Cell)
        BY <2>2, <4>1, CellStock
      <4>5. CASE i <= Len(mmsg)
        <5>1. Flow[1] = mmsg[1] /\ mmsg # <<>> BY <4>4, <4>5, EmptySeq
        <5>2. Len(mmsg) <= Flow[1].left /\ Len(mmsg) <= Len(Flow) /\ i \in 1..Len(mmsg)
          BY <2>4, <4>4, <4>5, <5>1
        <5> QED BY <3>1, <3>2, <4>4, <5>2, NoEnd
      <4>6. CASE i > Len(mmsg)
        <5>1. i - Len(mmsg) \in 1..Len(U) /\ Len(mmsg) + (i - Len(mmsg)) = i BY <4>4, <4>6
        <5>2. Flow[i] = U[i - Len(mmsg)] BY <4>4, <5>1
        <5>3. Sent = Owed BY <3>2, <4>2, <5>1, <5>2
        <5>4. send.pc = "parts" /\ send.mPos > 0 BY <4>3, <5>1, EmptySeq DEF StreamInv, SendInv
        <5>5. send.sz \in Nat /\ send.mPos \in Nat BY DEF StreamInv, SendInv, SendRec
        <5> QED BY <2>5, <5>3, <5>4, <5>5 DEF Sent, Owed
      <4> QED BY <4>4, <4>5, <4>6
    <3> QED BY <3>1, <3>2 DEF EndsBefore
  <2>8. Len(read) >= Owed
    <3>1. Len(pending) = 0 BY <2>1
    <3>2. Given = Len(read) BY <3>1, GivenType DEF Given, StreamInv
    <3>3. Given >= Owed BY <2>1, <2>6, <2>7
    <3> QED BY <3>2, <3>3
  <2> QED BY <1>1, <1>6, <2>1, <2>8, SenderStays DEF ReadInv, StreamInv
<1>7. ASSUME ended' # "closed" PROVE ReadInv'
  BY <1>1, <1>7, SenderStays DEF StreamInv, ReadInv
<1> QED BY <1>1, <1>2, <1>4, <1>5, <1>6, <1>7, SenderStays DEF StreamInv

LEMMA IncompleteMessageStep ==
  ASSUME StreamInv, IncompleteMessage
  PROVE  StreamInv'
<1>1. /\ recv.pc = "decrypt" /\ Len(mmsg) <= Head(mmsg).left
      /\ recv' = [recv EXCEPT !.pc = "fill"]
      /\ UNCHANGED <<sendVars, wire, conn, mmsg, extra, pending, read, ended>>
  BY DEF IncompleteMessage, Incomplete
<1>2. mmsg # <<>> /\ extra = <<>> /\ mmsg \in Seq(Cell)
  BY <1>1 DEF StreamInv, RecvInv, StreamTypeOK
<1>3. Head(mmsg) = mmsg[1] BY <1>2
<1>4. Len(mmsg) \in Nat \ {0} BY <1>2, EmptySeq
<1>5. Len(mmsg) <= 9 * MaxMessage
  <2>1. /\ Flow \in Seq(Cell) /\ Len(Flow) \in Nat /\ Len(mmsg) <= Len(Flow)
        /\ Flow[1] = mmsg[1] /\ 1 \in 1..Len(Flow)
    BY <1>4, FlowType DEF StreamInv
  <2>2. Starts(Flow, 1) BY DEF Starts
  <2>3. IsClose(Flow, 1) \/ IsRecord(Flow, 1) BY <2>1, <2>2 DEF StreamInv, FlowInv, Framed
  <2>4. ~IsClose(Flow, 1) BY <1>1, <1>3, <1>4, <2>1 DEF IsClose
  <2>5. PICK m \in 1..MaxMessage : Flow[1].left = Header + m + Trailer - 1
    BY <2>3, <2>4 DEF IsRecord
  <2>6. /\ Header \in Nat \ {0} /\ Trailer \in Nat /\ m \in Nat \ {0} /\ MaxMessage \in Nat
        /\ Header + Trailer <= 8 * MaxMessage /\ m <= MaxMessage
    BY StreamAssumption
  <2> QED BY <1>1, <1>3, <1>4, <2>1, <2>5, <2>6
<1>6. StreamTypeOK' BY <1>1, <1>5, SenderStays DEF StreamInv, StreamTypeOK
<1>7. Flow' = Flow /\ Given' = Given BY <1>1, SenderStays DEF Flow, Given
<1>8. FlowInv'
  BY <1>1, <1>7, SenderStays, FlowType, GivenType, FlowStays DEF StreamInv, StreamTypeOK, sendVars
<1>9. RecvInv' BY <1>1, <1>2, <1>3 DEF StreamInv, RecvInv, StreamTypeOK
<1>10. ReadInv' BY <1>1, SenderStays DEF StreamInv, ReadInv
<1> QED BY <1>1, <1>6, <1>8, <1>9, <1>10, SenderStays DEF StreamInv

(* What DecryptMessage finds in mmsg is what comes after what the reader    *)
(* was given.                                                              *)
LEMMA DataIs ==
  ASSUME StreamInv, recv.pc = "decrypt", ~Incomplete(mmsg), Head(mmsg).type = "data",
         NEW d, d = mmsg[1].left + 1, NEW m, m = d - Header - Trailer
  PROVE  /\ d \in 1..Len(mmsg) /\ m \in 1..MaxMessage /\ Given + m <= written
         /\ Given = Len(read) /\ pending = <<>> /\ extra = <<>>
         /\ mmsg \in Seq(Cell) /\ Head(mmsg) = mmsg[1] /\ Flow # <<>> /\ Flow[1] = mmsg[1]
         /\ DataOf(mmsg) \in Seq(1..MaxBytes) /\ Len(DataOf(mmsg)) = m
         /\ \A i \in 1..m : DataOf(mmsg)[i] = Len(read) + i
<1>1. mmsg # <<>> /\ extra = <<>> /\ pending = <<>> /\ mmsg \in Seq(Cell)
  BY DEF StreamInv, RecvInv, StreamTypeOK
<1>2. Head(mmsg) = mmsg[1] /\ Len(mmsg) \in Nat \ {0} BY <1>1, EmptySeq
<1>3. mmsg[1].left \in Nat /\ 1 \in 1..Len(mmsg) BY <1>1, <1>2, CellFields
<1>4. d \in Nat \ {0} BY <1>3
<1>5. d \in 1..Len(mmsg) BY <1>2, <1>3, <1>4 DEF Incomplete
<1>6. /\ Flow \in Seq(Cell) /\ Len(Flow) \in Nat /\ Len(mmsg) <= Len(Flow)
      /\ \A i \in 1..Len(mmsg) : Flow[i] = mmsg[i]
  BY FlowType DEF StreamInv
<1>7. Flow # <<>> /\ Flow[1] = mmsg[1] /\ d <= Len(Flow) BY <1>2, <1>3, <1>5, <1>6, EmptySeq
<1>8. Given = Len(read) /\ Given \in Nat
  <2>1. Len(pending) = 0 BY <1>1
  <2> QED BY <2>1, GivenType DEF Given, StreamInv
<1>9. /\ m \in 1..MaxMessage
      /\ \A i \in 1..m : Flow[Header + i].byte = Given + i
      /\ Flow[d].byte = Given + m
  <2>1. Framed(Flow) /\ Chained(Flow, Given) BY DEF StreamInv, FlowInv
  <2>2. Flow[1].type = "data" /\ d = Flow[1].left + 1 BY <1>2, <1>7
  <2> QED BY <1>4, <1>6, <1>7, <1>8, <2>1, <2>2, FirstRecord
<1>10. written \in 0..MaxBytes /\ MaxBytes \in Nat /\ MaxMessage \in Nat
       /\ Header \in Nat \ {0} /\ Trailer \in Nat
  BY StreamAssumption DEF StreamInv, StreamTypeOK
<1>11. Given + m <= written
  <2>1. d \in 1..Len(Flow) BY <1>4, <1>6, <1>7
  <2>2. Flow[d].byte <= written BY <2>1 DEF StreamInv, FlowInv
  <2> QED BY <1>9, <2>2
<1>12. DataSize(mmsg) = m BY <1>2, <1>3, <1>10 DEF DataSize
<1>13. ASSUME NEW i \in 1..m
       PROVE  mmsg[Header + i].byte = Len(read) + i /\ Len(read) + i \in 1..MaxBytes
  <2>1. Header + i \in 1..d BY <1>4, <1>9, <1>10
  <2>2. Header + i \in 1..Len(mmsg) BY <1>2, <1>5, <2>1
  <2>3. mmsg[Header + i].byte = Given + i BY <1>6, <1>9, <2>2
  <2>4. Given + i \in 1..MaxBytes BY <1>8, <1>9, <1>10, <1>11
  <2> QED BY <1>8, <2>3, <2>4
<1>14. DataOf(mmsg) = [i \in 1..m |-> mmsg[Header + i].byte] BY <1>12 DEF DataOf
<1>15. \A i \in 1..m : DataOf(mmsg)[i] = Len(read) + i BY <1>13, <1>14
<1>16. DataOf(mmsg) \in [1..m -> 1..MaxBytes] BY <1>13, <1>14
<1>17. DataOf(mmsg) \in Seq(1..MaxBytes) /\ Len(DataOf(mmsg)) = m
  <2> DEFINE D == DataOf(mmsg)
             S == 1..MaxBytes
  <2>1. D \in [1..m -> S] /\ m \in Nat BY <1>9, <1>10, <1>16
  <2> HIDE DEF D, S
  <2>2. D \in Seq(S) /\ Len(D) = m BY <2>1
  <2> QED BY <2>2 DEF D, S
<1> QED BY <1>1, <1>2, <1>5, <1>7, <1>8, <1>9, <1>11, <1>15, <1>17

LEMMA DecryptDataStep ==
  ASSUME StreamInv, DecryptData
  PROVE  StreamInv' /\ Len(read) <= Len(read')
<1> DEFINE b == DataOf(mmsg)
           n == Min({Room, Len(b)})
           d == mmsg[1].left + 1
           m == d - Header - Trailer
<1>1. /\ recv.pc = "decrypt" /\ ~Incomplete(mmsg) /\ Head(mmsg).type = "data"
      /\ Return(SubSeq(b, 1, n)) /\ pending' = Later(b, n)
      /\ extra' = ExtraOf(mmsg) /\ mmsg' = <<>>
      /\ UNCHANGED <<sendVars, wire, conn, ended>>
  BY DEF DecryptData, Later
<1>2. /\ d \in 1..Len(mmsg) /\ m \in 1..MaxMessage /\ Given + m <= written
      /\ Given = Len(read) /\ pending = <<>> /\ extra = <<>>
      /\ mmsg \in Seq(Cell) /\ Head(mmsg) = mmsg[1] /\ Flow # <<>> /\ Flow[1] = mmsg[1]
      /\ b \in Seq(1..MaxBytes) /\ Len(b) = m
      /\ \A i \in 1..m : b[i] = Len(read) + i
  <2> HIDE DEF b
  <2> QED BY <1>1, DataIs DEF b
<1>3. extra' = Later(mmsg, d)
  <2>1. mmsg[1].left \in Nat
    <3>1. Len(mmsg) \in Nat BY <1>2, LenProperties
    <3>2. 1 \in 1..Len(mmsg) BY <1>2, <3>1
    <3> QED BY <1>2, <3>2, CellFields
  <2>2. mmsg[1].left + 2 = d + 1 BY <2>1
  <2> QED BY <1>1, <1>2, <2>2 DEF ExtraOf, Later
<1> HIDE DEF b, d, m
<1>4. Room \in Nat /\ m \in Nat /\ MaxMessage \in Nat
  BY <1>2, StreamAssumption DEF StreamInv, StreamTypeOK, Room
<1>5. n \in 0..Room /\ n \in 0..m
  <2>1. n = IF Room <= m THEN Room ELSE m BY <1>2, <1>4, MinOfTwo
  <2> HIDE DEF n
  <2> QED BY <1>4, <2>1
<1> HIDE DEF n
<1>6. read \in Seq(1..MaxBytes) /\ \A i \in 1..Len(read) : read[i] = i
  BY DEF StreamInv, StreamTypeOK, ReadInv
<1>7. /\ Joined(read, b, n) \in Seq(1..MaxBytes) /\ Len(SubSeq(b, 1, n)) = n
      /\ Later(b, n) \in Seq(1..MaxBytes)
      /\ Len(Joined(read, b, n)) = Len(read) + n
      /\ Len(Later(b, n)) = m - n /\ Len(read) \in Nat
      /\ \A i \in 1..(Len(read) + n) : Joined(read, b, n)[i] = i
      /\ \A i \in 1..(m - n) : Later(b, n)[i] = Len(read) + n + i
  <2>1. n \in 0..Len(b) /\ \A i \in 1..Len(b) : b[i] = Len(read) + i BY <1>2, <1>5
  <2>2. /\ Joined(read, b, n) \in Seq(1..MaxBytes) /\ Len(SubSeq(b, 1, n)) = n
        /\ Later(b, n) \in Seq(1..MaxBytes)
        /\ Len(Joined(read, b, n)) = Len(read) + n
        /\ Len(Later(b, n)) = Len(b) - n /\ Len(read) \in Nat
        /\ \A i \in 1..(Len(read) + n) : Joined(read, b, n)[i] = i
        /\ \A i \in 1..(Len(b) - n) : Later(b, n)[i] = Len(read) + n + i
    <3>1. b \in Seq(1..MaxBytes) BY <1>2
    <3> QED BY <1>6, <2>1, <3>1, GiveBytes
  <2> QED BY <1>2, <2>2
<1>8. /\ recv' \in RecvRec /\ recv'.rs <= recv'.sz /\ recv'.pc \in {"begin", "idle"}
      /\ read' = Joined(read, b, n)
  BY <1>1, <1>5, <1>7, ReturnType DEF StreamInv, Joined
<1>9. /\ Later(mmsg, d) \in Seq(Cell) /\ Len(Later(mmsg, d)) = Len(mmsg) - d
      /\ Len(mmsg) \in Nat /\ d \in 0..Len(mmsg)
  <2>1. d \in 0..Len(mmsg) /\ Len(mmsg) \in Nat BY <1>2, LenProperties
  <2> QED BY <1>2, <2>1, CellLater
<1>10. Len(mmsg) <= 10 * MaxMessage /\ Len(extra') <= 10 * MaxMessage
  <2>1. Len(mmsg) <= 10 * MaxMessage BY DEF StreamInv, StreamTypeOK
  <2> QED BY <1>2, <1>3, <1>4, <1>9, <2>1
<1>11. StreamTypeOK'
  <2>1. <<>> \in Seq(Cell) /\ Len(<<>>) = 0 /\ 0 <= 9 * MaxMessage /\ 0 <= 10 * MaxMessage
    BY StreamAssumption
  <2> QED BY <1>1, <1>3, <1>7, <1>8, <1>9, <2>1, SenderStays
          DEF StreamInv, StreamTypeOK, RecvRec
<1>12. Given' = Given + m
  <2>1. Len(read') = Len(read) + n BY <1>7, <1>8
  <2>2. Len(pending') = m - n BY <1>1, <1>7
  <2> QED BY <1>2, <1>4, <1>5, <1>7, <2>1, <2>2 DEF Given
<1>13. Flow' = Later(Flow, d)
  <2> DEFINE W == wire
             U == Unsent
             L == Later(mmsg, d)
             MW == Stock(mmsg, W)
  <2>1. W \in Seq(Cell) /\ U \in Seq(Cell) BY UnsentType DEF StreamInv, StreamTypeOK
  <2>2. Flow = Stock(Stock(mmsg, W), U) BY <1>2, CellStockEmpty DEF Flow
  <2>3. Flow' = Stock(Stock(Stock(<<>>, L), W), U) BY <1>1, <1>3, SenderStays DEF Flow
  <2> HIDE DEF W, U
  <2>4. Stock(<<>>, L) = L BY <1>9, CellStockEmpty
  <2>5. Stock(L, W) = Later(MW, d) BY <1>2, <1>9, <2>1, LaterStock
  <2>6. MW \in Seq(Cell) /\ Len(MW) = Len(mmsg) + Len(W) /\ Len(W) \in Nat
    BY <1>2, <2>1, CellStock
  <2> HIDE DEF MW, L
  <2>7. d \in 0..Len(MW) BY <1>9, <2>6
  <2>8. Stock(Later(MW, d), U) = Later(Stock(MW, U), d) BY <2>1, <2>6, <2>7, LaterStock
  <2> QED BY <2>2, <2>3, <2>4, <2>5, <2>8 DEF MW
<1>14. FlowInv'
  <2> DEFINE T == Later(Flow, d)
             g == Given + m
  <2>1. /\ Flow \in Seq(Cell) /\ Len(Flow) \in Nat /\ Len(mmsg) <= Len(Flow) /\ Given \in Nat
        /\ \A i \in 1..Len(mmsg) : Flow[i] = mmsg[i]
    BY FlowType, GivenType DEF StreamInv
  <2>2. d \in 0..Len(Flow) /\ d \in Nat /\ d <= Len(Flow) BY <1>9, <2>1
  <2>3. Flow[1].type = "data" /\ d = Flow[1].left + 1 BY <1>1, <1>2 DEF d
  <2>4. /\ Framed(Flow) /\ Chained(Flow, Given)
        /\ \A i \in 1..Len(Flow) : Flow[i].byte <= written
        /\ send.pc # "failed" => EndsAt(Flow, Given, Sent)
        /\ send.pc \in {"loop", "parts"} => EndsBefore(Flow, Given, Owed)
        /\ \A i \in 1..Len(Flow) : Flow[i].type = "close" => conn = "closed" /\ send.pc = "idle"
    BY DEF StreamInv, FlowInv
  <2>5. Sent \in Nat
    BY StreamAssumption DEF Sent, StreamInv, StreamTypeOK, SendInv
  <2>12. Owed \in Int
    BY StreamAssumption DEF Owed, StreamInv, StreamTypeOK, SendInv
  <2>6. /\ Framed(T) /\ Chained(T, g)
        /\ EndsAt(Flow, Given, Sent) => EndsAt(T, g, Sent)
        /\ EndsBefore(Flow, Given, Owed) => EndsBefore(T, g, Owed)
    BY <1>2, <2>1, <2>2, <2>3, <2>4, <2>5, <2>12, DropFirst DEF m
  <2>7. Len(T) = Len(Flow) - d /\ \A i \in 1..Len(T) : T[i] = Flow[d + i]
    BY <2>1, <2>2, CellLater
  <2> HIDE DEF T
  <2>8. \A i \in 1..Len(T) : d + i \in 1..Len(Flow) BY <2>1, <2>2, <2>7
  <2>9. /\ \A i \in 1..Len(T) : T[i].byte <= written
        /\ \A i \in 1..Len(T) : T[i].type = "close" => conn = "closed" /\ send.pc = "idle"
    BY <2>4, <2>7, <2>8
  <2>10. /\ Flow' = T /\ Given' = g /\ written' = written /\ send' = send /\ conn' = conn
         /\ Sent' = Sent /\ Owed' = Owed
    BY <1>1, <1>12, <1>13, SenderStays DEF sendVars, T
  <2>11. g <= written BY <1>2
  <2> HIDE DEF g
  <2> QED BY <2>4, <2>6, <2>9, <2>10, <2>11 DEF FlowInv
<1>15. RecvInv' BY <1>1, <1>8, <1>10 DEF StreamInv, RecvInv
<1>16. ReadInv'
  <2>1. ended' # "closed" BY <1>1 DEF StreamInv, RecvInv
  <2> QED BY <1>1, <1>7, <1>8, <2>1 DEF ReadInv
<1>17. Len(read) <= Len(read') BY <1>4, <1>5, <1>7, <1>8
<1> QED BY <1>1, <1>11, <1>14, <1>15, <1>16, <1>17, SenderStays DEF StreamInv

LEMMA DecryptCloseStep ==
  ASSUME StreamInv, DecryptClose
  PROVE  StreamInv'
<1>1. /\ recv.pc = "decrypt" /\ Head(mmsg).type = "close"
      /\ ended' = "closed" /\ recv' = [recv EXCEPT !.pc = "idle"]
      /\ mmsg' = <<>> /\ extra' = ExtraOf(mmsg)
      /\ UNCHANGED <<sendVars, wire, conn, pending, read>>
  BY DEF DecryptClose, ReturnEnd
<1>2. /\ mmsg # <<>> /\ extra = <<>> /\ pending = <<>>
      /\ mmsg \in Seq(Cell) /\ wire \in Seq(Cell) /\ Unsent \in Seq(Cell)
  BY <1>1, UnsentType DEF StreamInv, RecvInv, StreamTypeOK
<1>3. Head(mmsg) = mmsg[1] /\ Len(mmsg) \in Nat \ {0} /\ 1 \in 1..Len(mmsg) BY <1>2, EmptySeq
<1>4. /\ Flow \in Seq(Cell) /\ Len(Flow) \in Nat /\ Len(mmsg) <= Len(Flow)
      /\ Flow[1] = mmsg[1] /\ 1 \in 1..Len(Flow)
  BY <1>3, FlowType DEF StreamInv
<1>5. Starts(Flow, 1) BY DEF Starts
<1>6. ~IsRecord(Flow, 1)
  <2>1. ASSUME IsRecord(Flow, 1) PROVE FALSE
    <3>1. PICK m \in 1..MaxMessage : \A j \in 1..(Header + m + Trailer) :
            1 + j - 1 <= Len(Flow) => Flow[1 + j - 1] = Record(Flow[1].byte, m)[j]
      BY <2>1 DEF IsRecord
    <3>2. 1 \in 1..(Header + m + Trailer) /\ 1 + 1 - 1 = 1 BY StreamAssumption
    <3>3. 1 + 1 - 1 <= Len(Flow) BY <1>4, <3>2
    <3>4. Flow[1 + 1 - 1] = Record(Flow[1].byte, m)[1] BY <3>1, <3>2, <3>3
    <3>5. Flow[1].byte \in Nat BY <1>4, CellFields
    <3>6. ASSUME NEW b \in Nat PROVE Record(b, m)[1].type = "data"
      <4>1. \A i \in 1..(Header + m + Trailer) : Record(b, m)[i].type = "data" BY RecordCells
      <4> QED BY <3>2, <4>1
    <3> QED BY <1>1, <1>3, <1>4, <3>2, <3>4, <3>5, <3>6
  <2> QED BY <2>1
<1>7. Flow[1].left = 0 /\ Len(Flow) = 1 /\ Flow[1].byte = Given
  <2>1. IsClose(Flow, 1) /\ Flow[1].byte = Given
    BY <1>4, <1>5, <1>6 DEF StreamInv, FlowInv, Framed, Chained
  <2> QED BY <2>1 DEF IsClose
<1>8. conn = "closed" /\ send.pc = "idle"
  BY <1>1, <1>3, <1>4 DEF StreamInv, FlowInv, SendInv
<1>9. Given = written
  <2>1. EndsAt(Flow, Given, Sent) /\ Sent = written BY <1>8 DEF StreamInv, FlowInv, Sent
  <2>2. Flow # <<>> BY <1>7, EmptySeq
  <2> QED BY <1>7, <2>1, <2>2 DEF EndsAt
<1>10. Len(mmsg) = 1 /\ wire = <<>> /\ Unsent = <<>>
  <2>1. /\ Len(Stock(mmsg, wire)) = Len(mmsg) + Len(wire) /\ Stock(mmsg, wire) \in Seq(Cell)
        /\ Len(wire) \in Nat
    BY <1>2, CellStock
  <2>2. Flow = Stock(Stock(mmsg, wire), Unsent) BY <1>2, CellStockEmpty DEF Flow
  <2> DEFINE MW == Stock(mmsg, wire)
             U == Unsent
  <2>3. MW \in Seq(Cell) /\ U \in Seq(Cell) BY <1>2, <2>1
  <2> HIDE DEF MW, U
  <2>4. Len(Stock(MW, U)) = Len(MW) + Len(U) /\ Len(U) \in Nat BY <2>3, CellStock
  <2>5. Len(U) = 0 /\ Len(wire) = 0 /\ Len(mmsg) = 1
    BY <1>3, <1>7, <2>1, <2>2, <2>4 DEF MW, U
  <2> QED BY <1>2, <2>3, <2>5, EmptySeq DEF U
<1>11. extra' = <<>>
  <2>1. mmsg[1].left = 0 BY <1>4, <1>7
  <2>2. SubSeq(mmsg, 2, 1) = <<>> BY SubSeqEmpty
  <2> QED BY <1>1, <1>3, <1>10, <2>1, <2>2 DEF ExtraOf
<1>12. StreamTypeOK'
  <2>1. <<>> \in Seq(Cell) /\ Len(<<>>) = 0 /\ 0 <= 9 * MaxMessage /\ 0 <= 10 * MaxMessage
    BY StreamAssumption
  <2> QED BY <1>1, <1>11, <2>1, SenderStays DEF StreamInv, StreamTypeOK
<1>13. Flow' = <<>>
  <2>1. <<>> \in Seq(Cell) OBVIOUS
  <2>2. Stock(<<>>, <<>>) = <<>> BY <2>1, CellStockEmpty
  <2> QED BY <1>1, <1>10, <1>11, <2>2, SenderStays DEF Flow
<1>14. /\ Given' = Given /\ Sent' = written' /\ written' = written /\ Owed = written
       /\ Owed' = Owed /\ send' = send
  BY <1>1, <1>8 DEF Given, Sent, Owed, sendVars
<1>15. FlowInv'
  <2>1. /\ Framed(<<>>) /\ Chained(<<>>, Given) /\ EndsAt(<<>>, Given, written)
        /\ Len(<<>>) = 0 /\ Given <= written
    BY <1>9, GivenType DEF Framed, Chained, EndsAt, StreamInv
  <2> QED BY <1>8, <1>13, <1>14, <2>1 DEF FlowInv
<1>16. RecvInv'
  <2>1. 0 <= 10 * MaxMessage /\ Len(<<>>) = 0 BY StreamAssumption
  <2> QED BY <1>1, <1>11, <2>1 DEF StreamInv, RecvInv, StreamTypeOK
<1>17. ReadInv'
  <2>1. Len(read) = written
    <3>1. Len(pending) = 0 BY <1>2
    <3> QED BY <1>9, <3>1, GivenType DEF Given, StreamInv
  <2> QED BY <1>1, <1>8, <1>14, <2>1 DEF StreamInv, ReadInv
<1> QED BY <1>1, <1>12, <1>15, <1>16, <1>17, SenderStays DEF StreamInv

LEMMA StreamSteps ==
  ASSUME StreamInv, StreamNext
  PROVE  /\ StreamInv'
         /\ \/ UNCHANGED read
            \/ UNCHANGED written /\ Len(read) <= Len(read')
<1>1. CASE \E sz \in 1..MaxBytes : SSend(sz)
  BY <1>1, SSendStep DEF SSend, recvVars
<1>2. CASE Encrypt BY <1>2, EncryptStep DEF Encrypt, recvVars
<1>3. CASE AllOk BY <1>3, AllOkStep DEF AllOk, recvVars
<1>4. CASE SendPart BY <1>4, SendPartStep DEF SendPart, recvVars
<1>5. CASE \E k \in 0..(Header + MaxMessage) : SendFails(k)
  BY <1>5, SendFailsStep DEF SendFails, recvVars
<1>6. CASE Off BY <1>6, OffStep DEF Off, recvVars
<1>7. CASE CloseSocket BY <1>7, CloseSocketStep DEF CloseSocket, recvVars
<1>8. CASE \E sz \in 1..MaxRead, whole \in BOOLEAN : SRecv(sz, whole)
  BY <1>8, SRecvStep DEF SRecv
<1>9. CASE TakePending BY <1>9, TakePendingStep DEF TakePending, sendVars
<1>10. CASE EnterLoop BY <1>10, EnterLoopStep DEF EnterLoop
<1>11. CASE TakeExtra BY <1>11, TakeExtraStep DEF TakeExtra
<1>12. CASE RecvEnds BY <1>12, RecvEndsStep DEF RecvEnds
<1>13. CASE IncompleteMessage BY <1>13, IncompleteMessageStep DEF IncompleteMessage
<1>14. CASE DecryptData BY <1>14, DecryptDataStep DEF DecryptData, sendVars
<1>15. CASE DecryptClose BY <1>15, DecryptCloseStep DEF DecryptClose
<1>16. CASE \E n \in 1..MaxMessage : RecvCells(n) BY <1>16, RecvCellsStep DEF RecvCells
<1> QED
  BY <1>1, <1>2, <1>3, <1>4, <1>5, <1>6, <1>7, <1>8, <1>9, <1>10, <1>11, <1>12, <1>13, <1>14, <1>15,
     <1>16
     DEF StreamNext, Sending, Receiving

LEMMA StreamInductive == StreamInv /\ [Next]_vars => StreamInv'
<1> SUFFICES ASSUME StreamInv, [Next]_vars PROVE StreamInv' OBVIOUS
<1>1. CASE UNCHANGED streamVars BY <1>1, StreamStays
<1>2. CASE StreamNext BY <1>2, StreamSteps
<1> QED BY <1>1, <1>2 DEF Next, Handshaking, Streaming, vars

LEMMA StreamInvariance == Spec => []StreamInv
<1>1. Init => StreamInv BY StreamInits DEF Init
<1> QED BY <1>1, StreamInductive, PTL DEF Spec

(* Every state of a connection is of its type: what s_recv gathers fits its *)
(* buffer, and what it gives the reader's (ssl.cpp:229-365).               *)
THEOREM TypeCorrect == Spec => []TypeOK
<1>1. HandshakeInv /\ StreamInv => TypeOK BY DEF HandshakeInv, StreamInv, TypeOK
<1> QED BY <1>1, HandshakeInvariance, StreamInvariance, PTL

(* A reader that is told the connection was closed has got every byte of    *)
(* the calls of s_ssend that had returned (ssl.cpp:245-264, 272-284,        *)
(* 320-352).                                                               *)
THEOREM NothingIsLost == Spec => []NothingLost
<1>1. StreamInv => NothingLost BY DEF StreamInv, ReadInv, NothingLost
<1> QED BY <1>1, StreamInvariance, PTL

-----------------------------------------------------------------------------
(* The connection implements ByteStream *)

LEMMA NumbersPrefix ==
  ASSUME NEW a \in Nat, NEW b \in Nat, a <= b
  PROVE  /\ Stream!IsPrefix(Numbers(a), Numbers(b))
         /\ a # b => Stream!IsStrictPrefix(Numbers(a), Numbers(b))
         /\ Numbers(a) \in Seq(Int) /\ Len(Numbers(a)) = a
<1>1. /\ Numbers(a) \in Seq(Int) /\ Len(Numbers(a)) = a
      /\ Numbers(b) \in Seq(Int) /\ Len(Numbers(b)) = b
      /\ \A i \in 1..a : Numbers(a)[i] = i
      /\ \A i \in 1..b : Numbers(b)[i] = i
  BY DEF Numbers
<1> DEFINE A == Numbers(a)
           B == Numbers(b)
<1> HIDE DEF A, B
<1>2. /\ A \in Seq(Int) /\ Len(A) = a /\ B \in Seq(Int) /\ Len(B) = b
      /\ (\A i \in 1..a : A[i] = i) /\ (\A i \in 1..b : B[i] = i)
  BY <1>1 DEF A, B
<1>3. /\ SubSeq(B, 1, a) \in Seq(Int) /\ Len(SubSeq(B, 1, a)) = a
      /\ \A i \in 1..a : SubSeq(B, 1, a)[i] = B[i]
  <2>1. \A i \in 1..a : B[i] \in Int BY <1>2
  <2> QED BY <2>1, SubSeqProperties, Z3
<1>4. SubSeq(A, 1, a) = A BY <1>2, SubSeqFull
<1>5. SubSeq(B, 1, a) = A
  <2> DEFINE T == SubSeq(B, 1, a)
  <2>1. T \in Seq(Int) /\ Len(T) = a /\ \A i \in 1..a : T[i] = B[i] BY <1>3
  <2> HIDE DEF T
  <2>2. \A i \in 1..Len(T) : T[i] = A[i] BY <1>2, <2>1
  <2>3. T = A BY <1>2, <2>1, <2>2, SeqEqual
  <2> QED BY <2>3 DEF T
<1>6. Stream!IsPrefix(A, B) BY <1>2, <1>4, <1>5 DEF Stream!IsPrefix
<1>7. a # b => A # B BY <1>2
<1> QED BY <1>1, <1>6, <1>7 DEF A, B, Stream!IsStrictPrefix

LEMMA IsNumbers ==
  ASSUME NEW r \in Seq(1..MaxBytes), \A i \in 1..Len(r) : r[i] = i
  PROVE  r = Numbers(Len(r)) /\ Len(r) \in Nat
<1>1. r \in [1..Len(r) -> 1..MaxBytes] /\ Len(r) \in Nat BY LenProperties
<1>2. r = [i \in 1..Len(r) |-> i] BY <1>1
<1> QED BY <1>1, <1>2 DEF Numbers

(* A step of the connection writes, reads or does neither.                  *)
LEMMA StreamRefines ==
  ASSUME StreamInv, StreamInv', [Next]_vars
  PROVE  [Stream!Write \/ Stream!Read]_(Stream!vars)
<1> DEFINE a == Len(read)
           w == written
           aa == Len(read')
           ww == written'
<1>1. a \in Nat /\ w \in Nat /\ a <= w /\ read = Numbers(a)
  <2>1. /\ read \in Seq(1..MaxBytes) /\ pending \in Seq(1..MaxBytes) /\ w \in Nat
        /\ (\A i \in 1..a : read[i] = i) /\ a + Len(pending) <= w
    <3>1. Given <= written BY DEF StreamInv, FlowInv
    <3> QED BY <3>1, StreamAssumption DEF StreamInv, StreamTypeOK, ReadInv, Given
  <2>2. Len(pending) \in Nat BY <2>1, LenProperties
  <2>3. read = Numbers(a) /\ a \in Nat BY <2>1, IsNumbers
  <2> QED BY <2>1, <2>2, <2>3
<1>2. aa \in Nat /\ ww \in Nat /\ aa <= ww /\ read' = Numbers(aa)
  <2>1. /\ read' \in Seq(1..MaxBytes) /\ pending' \in Seq(1..MaxBytes) /\ ww \in Nat
        /\ (\A i \in 1..aa : read'[i] = i) /\ aa + Len(pending') <= ww
    <3>1. (Given <= written)' BY DEF StreamInv, FlowInv
    <3> QED BY <3>1, StreamAssumption DEF StreamInv, StreamTypeOK, ReadInv, Given
  <2>2. Len(pending') \in Nat BY <2>1, LenProperties
  <2>3. read' = Numbers(aa) /\ aa \in Nat BY <2>1, IsNumbers
  <2> QED BY <2>1, <2>2, <2>3
<1>3. \/ read' = read /\ w <= ww
      \/ w = ww /\ a <= aa
  <2>1. CASE UNCHANGED streamVars BY <1>1, <2>1 DEF streamVars, sendVars, recvVars
  <2>2. CASE StreamNext
    <3>1. read' = read \/ (w = ww /\ a <= aa) BY <2>2, StreamSteps
    <3>2. written' = written \/ \E sz \in 1..MaxBytes : SSend(sz)
      BY <2>2 DEF StreamNext, Sending, Receiving, Encrypt, AllOk, SendPart, SendFails, Off,
         CloseSocket, SRecv, TakePending, EnterLoop, TakeExtra, RecvEnds, IncompleteMessage,
         DecryptData, DecryptClose, RecvCells, sendVars
    <3>3. w <= ww
      <4>1. ASSUME NEW sz \in 1..MaxBytes, SSend(sz) PROVE w <= ww
        <5>1. ww = w + sz /\ sz \in Nat BY <4>1, StreamAssumption DEF SSend
        <5> QED BY <1>1, <5>1
      <4> QED BY <1>1, <3>2, <4>1
    <3> QED BY <3>1, <3>3
  <2> QED BY <2>1, <2>2 DEF Next, Handshaking, Streaming, vars
<1>4. CASE read' = read /\ w = ww
  BY <1>4 DEF Stream!vars
<1>5. CASE read' = read /\ w <= ww /\ w # ww
  <2>1. Stream!IsStrictPrefix(Numbers(w), Numbers(ww)) BY <1>1, <1>2, <1>5, NumbersPrefix
  <2> QED BY <1>5, <2>1 DEF Stream!Write
<1>6. CASE read' # read /\ w = ww /\ a <= aa
  <2>1. a # aa BY <1>1, <1>2, <1>6
  <2>2. Stream!IsStrictPrefix(Numbers(a), Numbers(aa)) /\ Stream!IsPrefix(Numbers(aa), Numbers(ww))
    BY <1>1, <1>2, <1>6, <2>1, NumbersPrefix
  <2>3. Stream!IsStrictPrefix(read, read') /\ Stream!IsPrefix(read', Numbers(written))
    BY <1>1, <1>2, <1>6, <2>2
  <2> QED BY <1>6, <2>3 DEF Stream!Read
<1> QED BY <1>3, <1>4, <1>5, <1>6

(* What is read is what was written, in order, without gaps or repetitions, *)
(* for every size of the records, of what recv returns and of the reader's  *)
(* buffers (ssl.cpp:229-431).                                              *)
THEOREM StreamImplementation == Spec => ImplementsStream
<1>1. Init => Stream!Init
  <2> SUFFICES ASSUME Init PROVE Stream!Init OBVIOUS
  <2>1. written = 0 /\ read = <<>> BY DEF Init, StreamInit
  <2>2. Numbers(0) = <<>> BY DEF Numbers
  <2> QED BY <2>1, <2>2 DEF Stream!Init
<1>2. StreamInv /\ StreamInv' /\ [Next]_vars => [Stream!Write \/ Stream!Read]_(Stream!vars)
  BY StreamRefines
<1> QED BY <1>1, <1>2, StreamInvariance, PTL DEF Spec, ImplementsStream, Stream!Spec
===============================================================================
