------------------------------ MODULE SslHandshake -----------------------------
(***************************************************************************)
(* The handshake of two SSL_SOCKETs (ssl.cpp): ClientInit with ClientLoop   *)
(* on one side, ServerInit with ServerLoop on the other, over TCP, which    *)
(* cuts and joins what is sent.  SChannel's two functions are external: a   *)
(* full handshake of four flights, of which the client sends the first.     *)
(* Certificates and the extra data a renegotiation may find are left out;   *)
(* and that recv is given the room of an empty buffer however full it is,   *)
(* which takes pieces that together are longer than 0x11000.                *)
(***************************************************************************)
EXTENDS Integers, SequencesExt, FiniteSetsExt

CONSTANTS
  Size,        \* cells of a flight
  SplitHello,  \* whether the first flight may arrive in pieces
  EarlyData,   \* whether the server sends data as soon as it may
  MayEnd       \* whether credentials may be refused and the network may fail

ASSUME HandshakeAssumption ==
  /\ Size \in Nat \ {0}
  /\ SplitHello \in BOOLEAN /\ EarlyData \in BOOLEAN /\ MayEnd \in BOOLEAN

VARIABLES
  client, server,      \* pc, what is in the buffer t, InitContext, and whether hCtx is valid
  toClient, toServer,  \* cells on their way
  gone,                \* the programs that closed their sockets, and the network
  refused,             \* history: the programs that got no credentials
  dropped              \* history: cells received behind a flight and not kept

handshakeVars == <<client, server, toClient, toServer, gone, refused, dropped>>

Side == [pc |-> "init", t |-> <<>>, InitContext |-> FALSE, hCtx |-> FALSE]

HandshakeInit ==
  /\ client = Side /\ server = Side
  /\ toClient = <<>> /\ toServer = <<>> /\ gone = {} /\ refused = {} /\ dropped = <<>>

Flight(f) == [i \in 1..Size |-> [flight |-> f, left |-> Size - i]]

(* SChannel finds a flight whole when its last cell is there.               *)
Complete(t) == Len(t) > Head(t).left
Behind(t) == SubSeq(t, Head(t).left + 2, Len(t))

(* ClientInit returns 0 both for a handshake and without credentials.       *)
Returned == {"ok", "zero", "failed"}
ReturnedZero == {"ok", "zero"}

(* ssend_p sends a flight, or less of it when the connection fails under    *)
(* it: the loop returns -1 then.                                           *)
CutShort(f) == {SubSeq(Flight(f), 1, k) : k \in 0..(Size - 1)}
SendMayFail(peer) == "network" \in gone \/ peer \in gone

-----------------------------------------------------------------------------
(* ClientInit and ClientLoop *)

ClientInit ==
  /\ client.pc = "init"
  /\ \/ client' = [client EXCEPT !.pc = "hello"] /\ UNCHANGED refused
     \/ MayEnd /\ client' = [client EXCEPT !.pc = "zero"] /\ refused' = refused \cup {"client"}
  /\ UNCHANGED <<server, toClient, toServer, gone, dropped>>

(* InitializeSecurityContext without input. *)
ClientHello ==
  /\ client.pc = "hello"
  /\ \/ /\ toServer' = toServer \o Flight("hello")
        /\ client' = [client EXCEPT !.pc = "recv", !.InitContext = TRUE, !.hCtx = TRUE]
     \/ /\ SendMayFail("server")
        /\ \E part \in CutShort("hello") : toServer' = toServer \o part
        /\ client' = [client EXCEPT !.pc = "failed", !.hCtx = TRUE]
  /\ UNCHANGED <<server, toClient, gone, refused, dropped>>

(* An incomplete flight stays in t; a complete one is consumed with all     *)
(* that is behind it.                                                      *)
ClientRecv_Succeeded(n) ==
  LET t == client.t \o SubSeq(toClient, 1, n)
  IN  /\ client.pc = "recv"
      /\ n \in 1..Len(toClient)
      /\ toClient' = SubSeq(toClient, n + 1, Len(toClient))
      /\ \/ /\ ~Complete(t)
            /\ client' = [client EXCEPT !.t = t]
            /\ UNCHANGED <<toServer, dropped>>
         \/ /\ Complete(t)
            /\ toServer' = IF Head(t).flight = "serverHello" THEN toServer \o Flight("keys")
                                                             ELSE toServer
            /\ client' = [client EXCEPT !.t = <<>>, !.pc = "ok"]
            /\ dropped' = dropped \o Behind(t)
      /\ UNCHANGED <<server, gone, refused>>
ClientRecv(n) ==
  LET t == client.t \o SubSeq(toClient, 1, n)
  IN  /\ client.pc = "recv"
      /\ n \in 1..Len(toClient)
      /\ toClient' = SubSeq(toClient, n + 1, Len(toClient))
      /\ \/ /\ ~Complete(t)
            /\ client' = [client EXCEPT !.t = t]
            /\ UNCHANGED <<toServer, dropped>>
         \/ /\ Complete(t) /\ Head(t).flight = "serverHello"
            /\ toServer' = toServer \o Flight("keys")
            /\ client' = [client EXCEPT !.t = <<>>]
            /\ dropped' = dropped \o Behind(t)
         \/ /\ Complete(t) /\ Head(t).flight = "serverHello"
            /\ SendMayFail("server")
            /\ \E part \in CutShort("keys") : toServer' = toServer \o part
            /\ client' = [client EXCEPT !.t = <<>>, !.pc = "failed"]
            /\ dropped' = dropped \o Behind(t)
         \/ /\ Complete(t) /\ Head(t).flight = "finished"
            /\ client' = [client EXCEPT !.t = <<>>, !.pc = "ok"]
            /\ dropped' = dropped \o Behind(t)
            /\ UNCHANGED toServer
      /\ UNCHANGED <<server, gone, refused>>

(* recv returns 0 when the server closed the connection and -1 when it      *)
(* failed, and ClientLoop returns the same.                                 *)
ClientRecvEnds_Early ==
  /\ client.pc = "recv"
  /\ \/ "network" \in gone /\ client' = [client EXCEPT !.pc = "failed"]
     \/ "server" \in gone /\ client' = [client EXCEPT !.pc = "zero"]
  /\ UNCHANGED <<server, toClient, toServer, gone, refused, dropped>>
ClientRecvEnds ==
  /\ client.pc = "recv"
  /\ \/ "network" \in gone /\ client' = [client EXCEPT !.pc = "failed"]
     \/ toClient = <<>> /\ "server" \in gone /\ client' = [client EXCEPT !.pc = "zero"]
  /\ UNCHANGED <<server, toClient, toServer, gone, refused, dropped>>

-----------------------------------------------------------------------------
(* ServerInit and ServerLoop *)

ServerInit ==
  /\ server.pc = "init"
  /\ \/ server' = [server EXCEPT !.pc = "recv"] /\ UNCHANGED refused
     \/ MayEnd /\ server' = [server EXCEPT !.pc = "failed"] /\ refused' = refused \cup {"server"}
  /\ UNCHANGED <<client, toClient, toServer, gone, dropped>>

(* The first flight arrives at once, as far as it was sent.                 *)
Whole(n) == server.t # <<>> \/ Head(toServer).flight # "hello" \/ n = Len(toServer)

Answer == [hello |-> "serverHello", keys |-> "finished"]

(* AcceptSecurityContext.  InitContext is set after the first call, though  *)
(* an incomplete hello leaves no context in hCtx: the next call is given a  *)
(* handle that is not valid, and fails.                                     *)
ServerRecv(n) ==
  LET t == server.t \o SubSeq(toServer, 1, n)
      invalid == server.InitContext /\ ~server.hCtx
      next == [server EXCEPT !.t = <<>>, !.InitContext = TRUE]
  IN  /\ server.pc = "recv"
      /\ n \in 1..Len(toServer)
      /\ SplitHello \/ Whole(n)
      /\ toServer' = SubSeq(toServer, n + 1, Len(toServer))
      /\ \/ /\ invalid
            /\ server' = [next EXCEPT !.pc = "failed"]
            /\ UNCHANGED <<toClient, dropped>>
         \/ /\ ~invalid /\ ~Complete(t)
            /\ server' = [next EXCEPT !.t = t]
            /\ UNCHANGED <<toClient, dropped>>
         \/ /\ ~invalid /\ Complete(t) /\ Head(t).flight = "hello"
            /\ toClient' = toClient \o Flight("serverHello")
            /\ server' = [next EXCEPT !.hCtx = TRUE]
            /\ dropped' = dropped \o Behind(t)
         \/ /\ ~invalid /\ Complete(t) /\ Head(t).flight = "keys"
            /\ toClient' = toClient \o Flight("finished")
            /\ server' = [next EXCEPT !.pc = "ok"]
            /\ dropped' = dropped \o Behind(t)
         \/ /\ ~invalid /\ Complete(t) /\ Head(t).flight \in {"hello", "keys"}
            /\ SendMayFail("client")
            /\ \E part \in CutShort(Answer[Head(t).flight]) : toClient' = toClient \o part
            /\ server' = [next EXCEPT !.pc = "failed", !.hCtx = TRUE]
            /\ dropped' = dropped \o Behind(t)
      /\ UNCHANGED <<client, gone, refused>>

ServerRecvEnds_Unchecked ==
  /\ server.pc = "recv"
  /\ "network" \in gone
  /\ server' = [server EXCEPT !.pc = "failed"]
  /\ UNCHANGED <<client, toClient, toServer, gone, refused, dropped>>
ServerRecvEnds ==
  /\ server.pc = "recv"
  /\ "network" \in gone \/ (toServer = <<>> /\ "client" \in gone)
  /\ server' = [server EXCEPT !.pc = "failed"]
  /\ UNCHANGED <<client, toClient, toServer, gone, refused, dropped>>

-----------------------------------------------------------------------------
(* The programs *)

(* s_ssend, once ServerInit has returned.                                   *)
ServerSends ==
  /\ EarlyData
  /\ server.pc = "ok" /\ "server" \notin gone
  /\ ~\E i \in 1..Len(toClient) : toClient[i].flight = "data"
  /\ toClient' = toClient \o Flight("data")
  /\ UNCHANGED <<client, server, toServer, gone, refused, dropped>>

(* A program closes the socket after its call has returned.                 *)
Close(who, side) ==
  /\ who \notin gone
  /\ side.pc \in Returned
  /\ gone' = gone \cup {who}
  /\ UNCHANGED <<client, server, toClient, toServer, refused, dropped>>

NetworkFails ==
  /\ MayEnd /\ "network" \notin gone
  /\ gone' = gone \cup {"network"}
  /\ UNCHANGED <<client, server, toClient, toServer, refused, dropped>>

ClientStep ==
  \/ ClientInit \/ ClientHello \/ ClientRecvEnds
  \/ \E n \in 1..(3 * Size) : ClientRecv(n)

ServerStep ==
  \/ ServerInit \/ ServerRecvEnds
  \/ \E n \in 1..(2 * Size) : ServerRecv(n)

Closing == Close("client", client) \/ Close("server", server)

HandshakeNext == ClientStep \/ ServerStep \/ ServerSends \/ Closing \/ NetworkFails

-----------------------------------------------------------------------------
Cells == [flight : {"hello", "serverHello", "keys", "finished", "data"}, left : 0..(Size - 1)]

Sides == [pc : {"init", "hello", "recv"} \cup Returned, t : Seq(Cells), InitContext : BOOLEAN,
          hCtx : BOOLEAN]

HandshakeTypeOK ==
  /\ client \in Sides /\ server \in Sides
  /\ toClient \in Seq(Cells) /\ toServer \in Seq(Cells)
  /\ gone \subseteq {"client", "server", "network"} /\ refused \subseteq {"client", "server"}
  /\ dropped \in Seq(Cells)
  /\ Len(client.t) < Size /\ Len(server.t) < Size

(* When both loops have ended in success nothing of the handshake is left   *)
(* over that the first record would be mixed up with, neither on its way    *)
(* nor in a buffer, and nothing of it was thrown away as being behind       *)
(* another flight, however the flights were cut up (ssl.cpp:443-447,        *)
(* 524-566, 672-691): where the handshake ends, SslStream begins.           *)
StreamsStartClean == client.pc = "ok" /\ server.pc = "ok" =>
  /\ client.t = <<>> /\ server.t = <<>> /\ toServer = <<>>
  /\ \A i \in 1..Len(toClient) : toClient[i].flight = "data"
  /\ \A i \in 1..Len(dropped) : dropped[i].flight = "data"

(* No handshake is given up unless one of the programs got no credentials   *)
(* or the network failed: neither pieces of flights make it fail, as long   *)
(* as the first arrives whole, nor a server that closes the connection at   *)
(* once (ssl.cpp:482-485, 524-525, 632-634, 672-673).                       *)
FailsForAReason ==
  client.pc \in {"zero", "failed"} \/ server.pc = "failed" =>
    refused # {} \/ "network" \in gone

(* Neither loop waits for ever for what the other will not send.            *)
BothReturn == <>(client.pc \in Returned /\ server.pc \in Returned)

-----------------------------------------------------------------------------
(* What comments of the code say *)

(* "allow more" (ssl.cpp:673): an incomplete message is waited for.         *)
SplitHelloAccepted == server.pc # "failed"

(* "Handle possible ExtraData" (ssl.cpp:535): what was received behind a    *)
(* flight is kept.                                                         *)
ExtraDataKept == dropped = <<>>

(* "Loop using InitializeSecurityContext until success" (ssl.cpp:443): a    *)
(* ClientInit that returns 0 made a handshake.                              *)
ZeroIsSuccess == client.pc \in ReturnedZero => server.pc = "ok"
================================================================================
