----------------------------- MODULE StatusChanger -----------------------------
(***************************************************************************)
(* The bot's status line (discord::statuschanger, discordbot.h): every      *)
(* READY event starts a thread that never ends and shows, by turns, how     *)
(* many accounts there are and how many of them are Premium+ or Premium.    *)
(* It asks for the uids and then for the level of each, while the bot and   *)
(* the account checker go on adding and removing accounts.                  *)
(***************************************************************************)
EXTENDS Integers, FiniteSets

CONSTANTS
  MaxReady,  \* bound: READY events
  MaxUid,    \* bound: accounts created
  Levels     \* the access levels the bot gives

ASSUME StatusAssumption ==
  /\ MaxReady \in Nat /\ MaxUid \in Nat
  /\ Levels \subseteq 0..4

VARIABLES
  users,    \* accessLevel of each account in table users
  nextUid,
  threads,  \* the status threads
  shown     \* the status: what was counted, and between which sets it must lie

vars == <<users, nextUid, threads, shown>>

DBINTERROR == -1
Uids == 1..MaxUid
Threads == 1..MaxReady

\* The levels each half of the loop counts.
Premium == {1, 3}
PremiumPlus == {2, 4}

(* uids is the snapshot, of which left is still to be asked about; counted  *)
(* is how many had the level; was and stays are history: the accounts of    *)
(* the snapshot with that level, and those of them not removed since.       *)
Counting == [pc : {"none", "users", "uids", "levels", "show", "sleep"},
             half : {Premium, PremiumPlus}, useramount : Nat, left : SUBSET Uids, counted : Nat,
             was : SUBSET Uids, stays : SUBSET Uids]

NoThread == [pc |-> "none", half |-> PremiumPlus, useramount |-> 0, left |-> {}, counted |-> 0,
             was |-> {}, stays |-> {}]

Init ==
  /\ users = [u \in {} |-> 0] /\ nextUid = 1
  /\ threads = [t \in Threads |-> NoThread]
  /\ shown = [users |-> 0, slots |-> 0, least |-> 0, most |-> 0]

At(t, pc) == threads[t].pc = pc

getAccessLevel(u) == IF u \in DOMAIN users THEN users[u] ELSE DBINTERROR

Having(half) == {u \in DOMAIN users : users[u] \in half}

-----------------------------------------------------------------------------
(* onReady *)
Ready(t) ==
  /\ At(t, "none")
  /\ threads' = [threads EXCEPT ![t].pc = "users"]
  /\ UNCHANGED <<users, nextUid, shown>>

CountUsers(t) ==
  /\ At(t, "users")
  /\ threads' = [threads EXCEPT ![t].pc = "uids",
                                ![t].useramount = Cardinality(DOMAIN users)]
  /\ UNCHANGED <<users, nextUid, shown>>

(* getAllPremiumPlus and getAllPremium: the uids ...                        *)
ListUids_Again(t) ==
  /\ At(t, "uids")
  /\ threads' = [threads EXCEPT ![t].pc = "levels", ![t].left = DOMAIN users,
                                ![t].was = Having(threads[t].half),
                                ![t].stays = Having(threads[t].half)]
  /\ UNCHANGED <<users, nextUid, shown>>
ListUids(t) ==
  /\ At(t, "uids")
  /\ threads' = [threads EXCEPT ![t].pc = "levels", ![t].left = DOMAIN users, ![t].counted = 0,
                                ![t].was = Having(threads[t].half),
                                ![t].stays = Having(threads[t].half)]
  /\ UNCHANGED <<users, nextUid, shown>>

(* ... and the level of one after the other.                                *)
AskLevel_NotFound(t, u) ==
  /\ At(t, "levels")
  /\ u \in threads[t].left
  /\ threads' = [threads EXCEPT ![t].left = @ \ {u},
       ![t].counted = IF getAccessLevel(u) \in threads[t].half \cup {DBINTERROR} THEN @ + 1 ELSE @]
  /\ UNCHANGED <<users, nextUid, shown>>
AskLevel(t, u) ==
  /\ At(t, "levels")
  /\ u \in threads[t].left
  /\ threads' = [threads EXCEPT ![t].left = @ \ {u},
       ![t].counted = IF getAccessLevel(u) \in threads[t].half THEN @ + 1 ELSE @]
  /\ UNCHANGED <<users, nextUid, shown>>

AllAsked(t) ==
  /\ At(t, "levels")
  /\ threads[t].left = {}
  /\ threads' = [threads EXCEPT ![t].pc = "show"]
  /\ UNCHANGED <<users, nextUid, shown>>

(* updateStatus, and the thread sleeps thirty seconds.                      *)
UpdateStatus(t) ==
  /\ At(t, "show")
  /\ shown' = [users |-> threads[t].useramount, slots |-> threads[t].counted,
               least |-> Cardinality(threads[t].stays), most |-> Cardinality(threads[t].was)]
  /\ threads' = [threads EXCEPT ![t] = [NoThread EXCEPT !.pc = "sleep",
                                                       !.half = threads[t].half,
                                                       !.counted = threads[t].counted]]
  /\ UNCHANGED <<users, nextUid>>

OtherHalf(half) == IF half = Premium THEN PremiumPlus ELSE Premium

WakeUp(t) ==
  /\ At(t, "sleep")
  /\ threads' = [threads EXCEPT ![t].pc = "users", ![t].half = OtherHalf(@)]
  /\ UNCHANGED <<users, nextUid, shown>>

-----------------------------------------------------------------------------
(* The bot registers, the account checker removes. *)

AddUser(level) ==
  /\ nextUid <= MaxUid
  /\ users' = [u \in DOMAIN users \cup {nextUid} |-> IF u = nextUid THEN level ELSE users[u]]
  /\ nextUid' = nextUid + 1
  /\ UNCHANGED <<threads, shown>>

RemoveUser(uid) ==
  /\ users' = [u \in DOMAIN users \ {uid} |-> users[u]]
  /\ threads' = [t \in Threads |-> [threads[t] EXCEPT !.stays = @ \ {uid}]]
  /\ UNCHANGED <<nextUid, shown>>

Next ==
  \/ \E t \in Threads :
       \/ Ready(t) \/ CountUsers(t) \/ ListUids(t) \/ AllAsked(t) \/ UpdateStatus(t) \/ WakeUp(t)
       \/ \E u \in Uids : AskLevel(t, u)
  \/ \E level \in Levels : AddUser(level)
  \/ \E u \in DOMAIN users : RemoveUser(u)

Spec == Init /\ [][Next]_vars

-----------------------------------------------------------------------------
TypeOK ==
  /\ DOMAIN users \subseteq Uids /\ \A u \in DOMAIN users : users[u] \in Levels
  /\ nextUid \in 1..(MaxUid + 1)
  /\ threads \in [Threads -> Counting]
  /\ \A t \in Threads : threads[t].counted <= MaxUid /\ threads[t].stays \subseteq threads[t].was
  /\ shown \in [users : Nat, slots : Nat, least : Nat, most : Nat]

(* However many status threads run and whatever is registered and removed   *)
(* while one of them counts, the number of slots shown is at most that of   *)
(* the accounts that had them when it began and at least that of those that *)
(* still had them when it ended (discordbot.h:28-36, dbmanager.cpp:498-522). *)
SlotsShownWereHeld == shown.slots \in shown.least..shown.most
================================================================================
