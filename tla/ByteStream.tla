------------------------------ MODULE ByteStream ------------------------------
(***************************************************************************)
(* What one direction of an SSL_SOCKET promises its callers: the bytes that *)
(* are read are those that were written, in their order, none twice and     *)
(* none left out.  SslStream implements it.                                *)
(***************************************************************************)
EXTENDS Sequences, SequencesExt

VARIABLES
  written,  \* the bytes passed to s_ssend
  read      \* the bytes s_recv gave out

vars == <<written, read>>

Init == written = <<>> /\ read = <<>>

Write ==
  /\ IsStrictPrefix(written, written')
  /\ UNCHANGED read

Read ==
  /\ IsStrictPrefix(read, read') /\ IsPrefix(read', written)
  /\ UNCHANGED written

Spec == Init /\ [][Write \/ Read]_vars
===============================================================================
