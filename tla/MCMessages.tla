------------------------------ MODULE MCMessages -------------------------------
(* A small instance of Messages for TLC. *)
EXTENDS Messages

\* Names of one and two characters: letters, and each kind of character that
\* the bot, the login, explode or the encryption treats in a way of its own.
MCNames == BoundedSeq({97, Substitute, Space, Hash, Apostrophe, Dash, Open}, 2) \ {<<>>}

MCHash == <<104>>
MCHwid == <<109>>
================================================================================
