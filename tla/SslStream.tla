------------------------------- MODULE SslStream -------------------------------
(***************************************************************************)
(* One direction of an established SSL_SOCKET connection (ssl.cpp): s_ssend *)
(* cuts what it is given into records of a header, data and a trailer;      *)
(* s_recv puts records together from what the socket returns, keeps what it *)
(* received of the next record (ExtraData) and what its caller had no room  *)
(* for (PendingRecvData) for the next call.  SChannel's EncryptMessage and  *)
(* DecryptMessage are external; renegotiation is left out.                  *)
(*                                                                         *)
(* The i-th byte written is the number i.  A cell is a byte on the wire;    *)
(* left is the number of cells that follow it in its record, byte the last  *)
(* byte written that does not lie behind it.                                *)
(***************************************************************************)
EXTENDS Integers, SequencesExt, FiniteSetsExt

CONSTANTS
  MaxMessage,  \* cbMaximumMessage
  Header,      \* cbHeader
  Trailer,     \* cbTrailer
  MaxBytes,    \* bound: bytes written
  MaxRead      \* bound: room of a reader

ASSUME StreamAssumption ==
  /\ MaxMessage \in Nat \ {0} /\ Header \in Nat \ {0} /\ Trailer \in Nat
  /\ MaxBytes \in Nat /\ MaxRead \in Nat
  /\ Header + Trailer <= 8 * MaxMessage  \* bytes, against the 16 KB of a message

VARIABLES
  written,  \* bytes passed to s_ssend
  send,     \* the call of s_ssend
  wire,     \* cells sent and not received
  conn,     \* "open"; "closed" in order; "broken"
  recv,     \* the call of s_recv, or of s_rrecv, which loops over it
  mmsg,     \* s_recv's local buffer
  extra,    \* ExtraData
  pending,  \* PendingRecvData
  read,     \* bytes given to the reader
  ended     \* what s_recv last returned, if not bytes: 0 is "closed", -1 is "error"

sendVars == <<written, send>>
recvVars == <<recv, mmsg, extra, pending, read, ended>>
streamVars == <<sendVars, wire, conn, recvVars>>

NoSend == [pc |-> "idle", sz |-> 0, mPos |-> 0, parts |-> <<>>, ret |-> 0]
NoRecv == [pc |-> "idle", sz |-> 0, rs |-> 0, whole |-> FALSE]

StreamInit ==
  /\ written = 0 /\ send = NoSend /\ wire = <<>> /\ conn = "open"
  /\ recv = NoRecv /\ mmsg = <<>> /\ extra = <<>> /\ pending = <<>> /\ read = <<>>
  /\ ended = "none"

-----------------------------------------------------------------------------
(* SChannel *)

(* EncryptMessage: the record of m bytes after the first `from`, in parts.  *)
Record(from, m) == [i \in 1..(Header + m + Trailer) |->
  [type |-> "data", left |-> Header + m + Trailer - i,
   byte |-> IF i <= Header THEN from ELSE IF i <= Header + m THEN from + i - Header ELSE from + m]]

EncryptMessage(from, m) ==
  LET record == Record(from, m)
  IN  <<SubSeq(record, 1, Header), SubSeq(record, Header + 1, Header + m),
        SubSeq(record, Header + m + 1, Header + m + Trailer)>>

CloseNotify == [type |-> "close", left |-> 0, byte |-> written]

(* DecryptMessage looks at the record buf begins with and decrypts its data *)
(* where they are, behind the header; nothing on the wire is altered, so    *)
(* that it does not fail otherwise.                                         *)
Incomplete(buf) == Len(buf) <= Head(buf).left
ExtraOf(buf) == SubSeq(buf, Head(buf).left + 2, Len(buf))
DataSize(buf) == Head(buf).left + 1 - Header - Trailer
DataOf(buf) == [i \in 1..DataSize(buf) |-> buf[Header + i].byte]

-----------------------------------------------------------------------------
(* s_ssend *)

SSend(sz) ==
  /\ send.pc = "idle" /\ conn = "open"
  /\ written + sz <= MaxBytes
  /\ written' = written + sz
  /\ send' = [NoSend EXCEPT !.pc = "loop", !.sz = sz]
  /\ UNCHANGED <<wire, conn, recvVars>>

Encrypt_Overlap ==
  /\ send.pc = "loop" /\ send.mPos < send.sz
  /\ LET m == Min({send.sz - send.mPos, MaxMessage})
     IN  send' = [send EXCEPT !.pc = "parts", !.mPos = @ + m,
                              !.parts = EncryptMessage(written - send.sz, m)]
  /\ UNCHANGED <<written, wire, conn, recvVars>>
Encrypt ==
  /\ send.pc = "loop" /\ conn = "open" /\ send.mPos < send.sz
  /\ LET m == Min({send.sz - send.mPos, MaxMessage})
     IN  send' = [send EXCEPT !.pc = "parts", !.mPos = @ + m,
                              !.parts = EncryptMessage(written - send.sz + send.mPos, m)]
  /\ UNCHANGED <<written, wire, conn, recvVars>>

AllOk ==
  /\ send.pc = "loop" /\ conn = "open" /\ send.mPos = send.sz
  /\ send' = [NoSend EXCEPT !.ret = send.sz, !.sz = send.sz]
  /\ UNCHANGED <<written, wire, conn, recvVars>>

(* ssend_p sends all of a part, or returns how much of it was sent before   *)
(* the socket failed, which s_ssend returns in its turn.                    *)
SendPart ==
  /\ send.pc = "parts" /\ conn = "open"
  /\ wire' = wire \o Head(send.parts)
  /\ send' = IF Len(send.parts) = 1 THEN [send EXCEPT !.pc = "loop", !.parts = <<>>]
                                    ELSE [send EXCEPT !.parts = Tail(@)]
  /\ UNCHANGED <<written, conn, recvVars>>

SendFails(k) ==
  /\ send.pc = "parts" /\ conn = "open"
  /\ k < Len(Head(send.parts))
  /\ wire' = wire \o SubSeq(Head(send.parts), 1, k)
  /\ conn' = "broken"
  /\ send' = [NoSend EXCEPT !.pc = "failed", !.sz = send.sz, !.ret = k]
  /\ UNCHANGED <<written, recvVars>>

(* ClientOff or ServerOff, and the socket is closed.                        *)
Off ==
  /\ send.pc = "idle" /\ conn = "open"
  /\ wire' = Append(wire, CloseNotify)
  /\ conn' = "closed"
  /\ UNCHANGED <<sendVars, recvVars>>

(* The socket is closed without, by another thread or at the end of the     *)
(* program perhaps in the middle of s_ssend, which does not get further.    *)
CloseSocket ==
  /\ conn = "open"
  /\ conn' = "closed"
  /\ UNCHANGED <<sendVars, wire, recvVars>>

-----------------------------------------------------------------------------
(* s_recv and s_rrecv *)

SRecv(sz, whole) ==
  /\ recv.pc = "idle" /\ ended = "none"
  /\ recv' = [pc |-> "begin", sz |-> sz, rs |-> 0, whole |-> whole]
  /\ UNCHANGED <<sendVars, wire, conn, mmsg, extra, pending, read, ended>>

Room == recv.sz - recv.rs

(* Bytes go to the reader.  s_rrecv calls s_recv again until it has all.    *)
Return(bytes) ==
  /\ read' = read \o bytes
  /\ recv' = [recv EXCEPT !.rs = @ + Len(bytes),
                          !.pc = IF recv.whole /\ Len(bytes) < Room THEN "begin" ELSE "idle"]

ReturnEnd(how) ==
  /\ ended' = how
  /\ recv' = [recv EXCEPT !.pc = "idle"]

TakePending_Overrun ==
  /\ recv.pc = "begin" /\ pending # <<>>
  /\ Return(pending) /\ pending' = <<>>
  /\ UNCHANGED <<sendVars, wire, conn, mmsg, extra, ended>>
TakePending_All ==
  /\ recv.pc = "begin" /\ pending # <<>>
  /\ LET n == Min({Room, Len(pending)})
     IN  Return(SubSeq(pending, 1, n)) /\ pending' = <<>>
  /\ UNCHANGED <<sendVars, wire, conn, mmsg, extra, ended>>
TakePending ==
  /\ recv.pc = "begin" /\ pending # <<>>
  /\ LET n == Min({Room, Len(pending)})
     IN  Return(SubSeq(pending, 1, n)) /\ pending' = SubSeq(pending, n + 1, Len(pending))
  /\ UNCHANGED <<sendVars, wire, conn, mmsg, extra, ended>>

EnterLoop ==
  /\ recv.pc = "begin" /\ pending = <<>>
  /\ recv' = [recv EXCEPT !.pc = "fill"]
  /\ mmsg' = <<>>
  /\ UNCHANGED <<sendVars, wire, conn, extra, pending, read, ended>>

TakeExtra ==
  /\ recv.pc = "fill" /\ extra # <<>>
  /\ mmsg' = mmsg \o extra /\ extra' = <<>>
  /\ recv' = [recv EXCEPT !.pc = "decrypt"]
  /\ UNCHANGED <<sendVars, wire, conn, pending, read, ended>>

RecvCells(n) ==
  /\ recv.pc = "fill" /\ extra = <<>>
  /\ n <= Len(wire)
  /\ mmsg' = mmsg \o SubSeq(wire, 1, n)
  /\ wire' = SubSeq(wire, n + 1, Len(wire))
  /\ recv' = [recv EXCEPT !.pc = "decrypt"]
  /\ UNCHANGED <<sendVars, conn, extra, pending, read, ended>>

(* recv returns 0 when the peer has closed and everything was received; it  *)
(* returns -1 on a broken connection, whatever was still on its way.        *)
RecvEnds_Unchecked ==
  /\ recv.pc = "fill" /\ extra = <<>>
  /\ conn = "closed" /\ wire = <<>> /\ ReturnEnd("closed")
  /\ UNCHANGED <<sendVars, wire, conn, mmsg, extra, pending, read>>
RecvEnds ==
  /\ recv.pc = "fill" /\ extra = <<>>
  /\ \/ conn = "closed" /\ wire = <<>> /\ ReturnEnd("closed")
     \/ conn = "broken" /\ ReturnEnd("error")
  /\ UNCHANGED <<sendVars, wire, conn, mmsg, extra, pending, read>>

IncompleteMessage ==
  /\ recv.pc = "decrypt" /\ Incomplete(mmsg)
  /\ recv' = [recv EXCEPT !.pc = "fill"]
  /\ UNCHANGED <<sendVars, wire, conn, mmsg, extra, pending, read, ended>>

DecryptData ==
  /\ recv.pc = "decrypt" /\ ~Incomplete(mmsg) /\ Head(mmsg).type = "data"
  /\ LET n == Min({Room, Len(DataOf(mmsg))})
     IN  /\ Return(SubSeq(DataOf(mmsg), 1, n))
         /\ pending' = SubSeq(DataOf(mmsg), n + 1, Len(DataOf(mmsg)))
  /\ extra' = ExtraOf(mmsg)
  /\ mmsg' = <<>>
  /\ UNCHANGED <<sendVars, wire, conn, ended>>

(* SEC_I_CONTEXT_EXPIRED: without a data buffer the answer is 0.  It is     *)
(* assumed of DecryptMessage that it leaves none: that it gives the first   *)
(* buffer, which s_recv handed over as SECBUFFER_DATA, another type.        *)
DecryptClose ==
  /\ recv.pc = "decrypt" /\ Head(mmsg).type = "close"
  /\ ReturnEnd("closed")
  /\ mmsg' = <<>> /\ extra' = ExtraOf(mmsg)
  /\ UNCHANGED <<sendVars, wire, conn, pending, read>>

Receiving ==
  \/ TakePending \/ EnterLoop \/ TakeExtra \/ RecvEnds
  \/ IncompleteMessage \/ DecryptData \/ DecryptClose
  \/ \E n \in 1..MaxMessage : RecvCells(n)

Sending == Encrypt \/ AllOk \/ SendPart

StreamNext ==
  \/ \E sz \in 1..MaxBytes : SSend(sz)
  \/ Sending \/ (\E k \in 0..(Header + MaxMessage) : SendFails(k)) \/ Off \/ CloseSocket
  \/ \E sz \in 1..MaxRead, whole \in BOOLEAN : SRecv(sz, whole)
  \/ Receiving

-----------------------------------------------------------------------------
Cell == [type : {"data", "close"}, left : Nat, byte : 0..MaxBytes]

(* The types; the next recv always fits into s_recv's mmsg, and what is     *)
(* read into the reader's buffer.                                           *)
StreamTypeOK ==
  /\ written \in 0..MaxBytes
  /\ send.pc \in {"idle", "loop", "parts", "failed"} /\ send.mPos \in 0..send.sz
  /\ send.sz \in 0..MaxBytes
  /\ wire \in Seq(Cell) /\ mmsg \in Seq(Cell) /\ extra \in Seq(Cell)
  /\ Len(mmsg) <= 10 * MaxMessage /\ (recv.pc = "fill" => Len(mmsg) <= 9 * MaxMessage)
  /\ conn \in {"open", "closed", "broken"}
  /\ recv \in [pc : {"idle", "begin", "fill", "decrypt"}, sz : 0..MaxRead, rs : 0..MaxRead,
               whole : BOOLEAN]
  /\ recv.rs <= recv.sz
  /\ pending \in Seq(1..MaxBytes) /\ read \in Seq(1..MaxBytes)
  /\ ended \in {"none", "closed", "error"}

Numbers(n) == [i \in 1..n |-> i]

(* What is read is what was written, in order, without gaps or repetitions, *)
(* however the socket cuts the records and however small the reader's       *)
(* buffers are (ssl.cpp:229-431).                                           *)
Stream == INSTANCE ByteStream WITH written <- Numbers(written), read <- read
ImplementsStream == Stream!Spec

(* A reader that is told the connection was closed has got every byte that  *)
(* was written, those kept in PendingRecvData and ExtraData too             *)
(* (ssl.cpp:245-264, 272-284, 320-352); only of a call of s_ssend that was  *)
(* under way when the socket was closed some may be missing.                *)
Owed == IF send.pc \in {"loop", "parts"} THEN written - send.sz ELSE written
NothingLost == ended = "closed" => Len(read) >= Owed

(* A reader is not kept waiting on a connection that is no more: with       *)
(* nothing left but part of a record its call still returns                 *)
(* (ssl.cpp:266-305).                                                      *)
ReadEnds == conn # "open" ~> recv.pc = "idle"

-----------------------------------------------------------------------------
(* What comments of the code say *)

(* "all ok!" (ssl.cpp:385), where sz is returned: a call of s_ssend that    *)
(* returns sz has sent everything.                                         *)
SentAll == send.pc = "failed" => send.ret # send.sz
================================================================================
