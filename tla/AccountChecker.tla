---------------------------- MODULE AccountChecker ----------------------------
(***************************************************************************)
(* The account checker (class accountchecker, clienthandler.cpp, and        *)
(* manager::expiredUser): every ten minutes it reads the list of uids and   *)
(* removes each account whose subscription has ended, after copying it to   *)
(* sublog.  sweep.pc names the statement that comes next.                  *)
(*                                                                         *)
(* The date was cut in UTC and is turned back into a time by mktime, in     *)
(* local time.  Only tm_year, tm_mon and tm_mday are set before: hour,      *)
(* minute and second are whatever the stack held.  So the time compared is  *)
(* the date's local midnight plus any offset in TmGarbage.                 *)
(***************************************************************************)
EXTENDS DbManager

CONSTANTS
  ZoneOffsets,  \* ticks the local time may be ahead of UTC
  TmGarbage     \* offsets, in ticks, the unset tm fields may add

ASSUME SweepAssumption ==
  /\ \A z \in ZoneOffsets : z \in Int /\ -TicksPerDay < z /\ z < TicksPerDay
  /\ TmGarbage \subseteq Int

VARIABLE sweep  \* the pass over the accounts

SweepAsleep == [pc |-> "asleep", todo |-> {}, uid |-> 0, order |-> Null]

SweepTypeOK ==
  /\ sweep \in [pc : {"asleep", "getSubEndDate", "getOrderuid", "log", "delete"},
                todo : SUBSET Nat, uid : Nat, order : OrderIds \cup {Null}]

SweepInit == sweep = SweepAsleep

SweepWake ==
  /\ sweep.pc = "asleep"
  /\ sweep' = [SweepAsleep EXCEPT !.pc = "getSubEndDate", !.todo = DOMAIN users]
  /\ UNCHANGED dbVars

LocalMidnight(date, z) == date * TicksPerDay - z

mktime(date) == {LocalMidnight(date, z) + g : z \in ZoneOffsets, g \in TmGarbage}

(* The account is to be removed. *)
SweepExpired_NullToo(u) ==
  /\ sweep.pc = "getSubEndDate"
  /\ u \in sweep.todo
  /\ getSubEndDate(u) # Null => \E end \in mktime(getSubEndDate(u)) : end < now
  /\ sweep' = [sweep EXCEPT !.pc = "getOrderuid", !.uid = u]
  /\ UNCHANGED dbVars
SweepExpired(u) ==
  /\ sweep.pc = "getSubEndDate"
  /\ u \in sweep.todo
  /\ getSubEndDate(u) # Null
  /\ \E end \in mktime(getSubEndDate(u)) : end < now
  /\ sweep' = [sweep EXCEPT !.pc = "getOrderuid", !.uid = u]
  /\ UNCHANGED dbVars

(* The account is good until the next pass. *)
SweepSkip_Stay(u) ==
  /\ sweep.pc = "getSubEndDate"
  /\ u \in sweep.todo
  /\ getSubEndDate(u) # Null
  /\ \E end \in mktime(getSubEndDate(u)) : end >= now
  /\ UNCHANGED <<sweep, dbVars>>
SweepSkip(u) ==
  /\ sweep.pc = "getSubEndDate"
  /\ u \in sweep.todo
  /\ getSubEndDate(u) # Null
  /\ \E end \in mktime(getSubEndDate(u)) : end >= now
  /\ sweep' = [sweep EXCEPT !.todo = @ \ {u}]
  /\ UNCHANGED dbVars

(* An account without an end date: the guard that should skip it compares   *)
(* with "\n", the query returns "", and explode("")[0] reads past the end   *)
(* of an empty vector.                                                     *)
SweepFaults ==
  /\ sweep.pc = "getSubEndDate"
  /\ \E u \in sweep.todo : getSubEndDate(u) = Null

(* expiredUser reads the row and its order ...                             *)
ExpiredGetOrder ==
  /\ sweep.pc = "getOrderuid"
  /\ sweep' = [sweep EXCEPT !.pc = "log", !.order = getOrderuid(sweep.uid)]
  /\ UNCHANGED dbVars

(* ... copies it ...                                                       *)
ExpiredLog_Skip ==
  /\ sweep.pc = "log"
  /\ sweep' = [sweep EXCEPT !.pc = "delete"]
  /\ UNCHANGED dbVars
ExpiredLog ==
  /\ sweep.pc = "log"
  /\ logSubscription(sweep.uid, sweep.order)
  /\ sweep' = [sweep EXCEPT !.pc = "delete"]
  /\ UNCHANGED <<users, nextUid, orders, now>>

(* ... and removes it.                                                     *)
ExpiredDelete ==
  /\ sweep.pc = "delete"
  /\ deleteUser(sweep.uid)
  /\ sweep' = [SweepAsleep EXCEPT !.pc = "getSubEndDate", !.todo = sweep.todo \ {sweep.uid}]
  /\ UNCHANGED <<nextUid, orders, sublog, now>>

SweepDone ==
  /\ sweep.pc = "getSubEndDate"
  /\ sweep.todo = {}
  /\ sweep' = SweepAsleep
  /\ UNCHANGED dbVars

SweepStep ==
  \/ \E u \in sweep.todo : SweepExpired(u) \/ SweepSkip(u)
  \/ ExpiredGetOrder \/ ExpiredLog \/ ExpiredDelete \/ SweepDone
=============================================================================
