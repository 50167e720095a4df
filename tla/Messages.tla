------------------------------- MODULE Messages --------------------------------
(***************************************************************************)
(* What clients' messages say and which of them the server understands: the *)
(* names .reg accepts (discordbot.h), the "encryption" of both directions   *)
(* and the login message (clienthandler.cpp).  Login takes a message for    *)
(* its fields; here it is its characters, each its ASCII code.              *)
(*                                                                         *)
(* All clients here are one machine with the current version, and a         *)
(* password hash, being hexadecimal, is a single letter.  Left out: a       *)
(* message longer than BuffSize and the least length of a .reg.             *)
(***************************************************************************)
EXTENDS Text

CONSTANTS
  Names,        \* what people type as a name
  PwdHash,      \* the hash of everybody's password
  Hwid,         \* the machine
  MaxAccounts   \* bound: accounts registered

\* Characters.
NUL == 0
Substitute == 26
Space == 32
Quote == 34
Hash == 35
Apostrophe == 39
Open == 40
Close == 41
Dash == 45
Slash == 47
Equals == 61
F == 70
L == 76
Backslash == 92

Version == <<118>>   \* CurrentClientVersion

\* manager::badchars: ' @ # $ % ^ = / \ ` : ; ~ < > ?
badchars == {Apostrophe, 64, Hash, 36, 37, 94, Equals, Slash, Backslash, 96, 58, 59, 126, 60,
             62, 63}

\* The characters handleConnection refuses in a name.
refused == {Apostrophe, Quote, Backslash, Slash, Open, Close, Equals}

Answers == {"F-ok", "L-ok", "L-Error-USERNAME-BAD", "L-Error-Wrong-PWD", "L-Error-Wrong-HWID",
            "L-Error-Wrong-ver", "ignored", "fault"}

ASSUME MessagesAssumption ==
  /\ \A n \in Names \cup {PwdHash, Hwid} : n # <<>> /\ n \in Seq(1..127)
  /\ MaxAccounts \in Nat
  /\ ToSet(PwdHash \o Hwid) \cap {Hash, Dash, Substitute} = {}

VARIABLES
  accounts,   \* the names in table users
  message,    \* the client's last message
  buf,        \* what receivepacket made of it
  told        \* the answer the owner of each name last got to a login

messagesVars == <<accounts, message, buf, told>>

MessagesInit == accounts = {} /\ message = <<>> /\ buf = <<>> /\ told = [n \in Names |-> "none"]

(* .reg name password: three words, none with a bad character.              *)
words(n) == explode(<<46, 114>> \o <<Space>> \o n \o <<Space>> \o <<112>>, Space)

Reg(n) ==
  /\ Cardinality(accounts) < MaxAccounts
  /\ Len(words(n)) = 3
  /\ LET uname == words(n)[2]
     IN  /\ ToSet(uname) \cap badchars = {}
         /\ uname \notin accounts
         /\ accounts' = accounts \cup {uname}
  /\ UNCHANGED <<message, buf, told>>

(* Both sides XOR every character with '#', whose bits are 32, 2 and 1, and *)
(* pass C strings around.                                                   *)
Flip(x, bit) == IF (x \div bit) % 2 = 0 THEN x + bit ELSE x - bit
XorHash(x) == Flip(Flip(Flip(x, 32), 2), 1)
encryptDecrypt(s) == [i \in 1..Len(s) |-> XorHash(s[i])]

receivepacket(bytes) == CString(encryptDecrypt(CString(bytes, NUL)), NUL)

(* The answer to a message that reads sr.                                   *)
answerLogin(uname, pwd, hwid, ver) ==
  IF ToSet(uname) \cap refused # {} THEN "L-Error-USERNAME-BAD" ELSE
  IF uname \notin accounts THEN "L-Error-USERNAME-BAD" ELSE
  IF pwd # PwdHash THEN "L-Error-Wrong-PWD" ELSE
  IF hwid # Hwid THEN "L-Error-Wrong-HWID" ELSE
  IF ver # Version THEN "L-Error-Wrong-ver" ELSE "L-ok"

(* A message with a substitute character anywhere is passed over.  explode  *)
(* leaves out empty fields; one that is not there is an index out of range. *)
answer_Shifted(sr) ==
  LET field == explode(sr, Dash)
  IN  IF Len(field) < 5 THEN "fault" ELSE answerLogin(field[1], field[2], field[3], field[4])
answer(sr) ==
  LET field == explode(sr, Dash)
  IN  IF Substitute \in ToSet(sr) THEN "ignored" ELSE
      CASE sr # <<>> /\ sr[1] = F -> IF Len(field) < 2 THEN "fault" ELSE "F-ok"
        [] sr # <<>> /\ sr[1] = L ->
             IF Len(field) < 5 THEN "fault"
             ELSE answerLogin(field[2], field[3], field[4], field[5])
        [] OTHER -> "ignored"

Receive(m) ==
  /\ message' = m
  /\ buf' = receivepacket(encryptDecrypt(m))

(* "F-hwid", the client's first message.                                    *)
FirstConnect ==
  /\ Receive(<<F, Dash>> \o Hwid)
  /\ UNCHANGED <<accounts, told>>

(* "L-name-password-hwid-version".                                          *)
SignIn(n) ==
  /\ Receive(<<L, Dash>> \o n \o <<Dash>> \o PwdHash \o <<Dash>> \o Hwid \o <<Dash>> \o Version)
  /\ told' = IF n \in accounts THEN [told EXCEPT ![n] = answer(buf')] ELSE told
  /\ UNCHANGED accounts

MessagesNext == (\E n \in Names : Reg(n) \/ SignIn(n)) \/ FirstConnect

MessagesSpec == MessagesInit /\ [][MessagesNext]_messagesVars

-----------------------------------------------------------------------------
\* Refused or passed over at login or taken for the end of the name, and not
\* in badchars.
Unforeseen == {Substitute, Quote, Open, Close, Dash}

(* Whoever registered a name with the bot can sign in with it, if it has    *)
(* none of five characters: what one component accepts, the other must      *)
(* understand (discordbot.h:187-198; clienthandler.cpp:179-180, 214-225).   *)
PlainNamesCanSignIn == \A n \in Names :
  ToSet(n) \cap Unforeseen = {} => told[n] \in {"none", "L-ok"}

(* A message arrives as it was sent, up to its first '#', which XOR turns   *)
(* into a terminator (clienthandler.cpp:116-144), and is read as its        *)
(* fields: the maximal runs of characters other than the separator,         *)
(* whatever separators it starts, ends or is doubled with                   *)
(* (dbmanager.h:79-92).                                                    *)
FieldsArrive == explode(buf, Dash) = Fields(CString(message, Hash), Dash)

-----------------------------------------------------------------------------
(* What the bot says *)

(* "You can sign-in with the username and password you have provided!"      *)
(* (discordbot.h:266)                                                      *)
RegisteredCanSignIn == \A n \in Names : told[n] \in {"none", "L-ok"}
================================================================================
