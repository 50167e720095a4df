----------------------------- MODULE SslConnection -----------------------------
(***************************************************************************)
(* A connection of two SSL_SOCKETs (ssl.cpp) from ClientInit and ServerInit *)
(* to its end: the handshake and then the bytes the client sends.  The     *)
(* server's call returns before the client's, so that the client's first    *)
(* record is sent when both are done.                                      *)
(***************************************************************************)
EXTENDS SslHandshake, SslStream

vars == <<handshakeVars, streamVars>>

Init == HandshakeInit /\ StreamInit

Established == client.pc = "ok" /\ server.pc = "ok" /\ gone = {}

Handshaking(A) == ~Established /\ A /\ UNCHANGED streamVars
Streaming(A) == Established /\ A /\ UNCHANGED handshakeVars

Next == Handshaking(HandshakeNext) \/ Streaming(StreamNext)

(* Both programs run, and close a socket whose handshake they do not go on  *)
(* from; a call of s_recv that can go on goes on.  Nothing is assumed of    *)
(* what is sent, of when the reader reads or of how the connection ends.    *)
Fairness ==
  /\ WF_vars(Handshaking(ClientStep))
  /\ WF_vars(Handshaking(ServerStep))
  /\ WF_vars(Handshaking(Closing))
  /\ WF_vars(Streaming(Receiving))

Spec == Init /\ [][Next]_vars /\ Fairness

TypeOK == HandshakeTypeOK /\ StreamTypeOK
================================================================================
