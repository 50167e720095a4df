--------------------------- MODULE AccountLifecycle ---------------------------
(***************************************************************************)
(* What the server promises of orders and accounts, without threads,        *)
(* statements, messages or restarts: an order is listed once and spent at   *)
(* most once; an account is opened against a listed, unspent order under a  *)
(* fresh uid; it is closed only after it was archived, and never reopened.  *)
(* Server implements this specification (Server!ImplementsLifecycle).      *)
(***************************************************************************)
EXTENDS Naturals, Sequences

CONSTANT OrderIds

VARIABLES
  listed,   \* orders entered from the feed
  spent,    \* orders that were redeemed
  sold,     \* for each uid ever given out, the order it was opened with
  live,     \* uids of existing accounts
  archive   \* uids kept in the log

vars == <<listed, spent, sold, live, archive>>

Init == listed = {} /\ spent = {} /\ sold = <<>> /\ live = {} /\ archive = {}

List(o) ==
  /\ o \notin listed
  /\ listed' = listed \cup {o}
  /\ UNCHANGED <<spent, sold, live, archive>>

Open(o) ==
  /\ o \in listed \ spent
  /\ sold' = Append(sold, o)
  /\ live' = live \cup {Len(sold) + 1}
  /\ UNCHANGED <<listed, spent, archive>>

Spend(o) ==
  /\ o \in listed \ spent
  /\ spent' = spent \cup {o}
  /\ UNCHANGED <<listed, sold, live, archive>>

Archive(u) ==
  /\ u \in live
  /\ archive' = archive \cup {u}
  /\ UNCHANGED <<listed, spent, sold, live>>

Close(u) ==
  /\ u \in live \cap archive
  /\ live' = live \ {u}
  /\ UNCHANGED <<listed, spent, sold, archive>>

Next ==
  \/ \E o \in OrderIds : List(o) \/ Open(o) \/ Spend(o)
  \/ \E u \in live : Archive(u) \/ Close(u)

Spec == Init /\ [][Next]_vars
=============================================================================
