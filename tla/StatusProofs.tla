----------------------------- MODULE StatusProofs -----------------------------
(***************************************************************************)
(* For any number of status threads, accounts and READY events, the number  *)
(* of slots shown lies between those that were held throughout the count    *)
(* and those that were held when it began.                                  *)
(***************************************************************************)
EXTENDS StatusChanger, FiniteSetTheorems, TLAPS

(* The uids given out; none is given out again.                             *)
Given == 1..(nextUid - 1)

(* Of the uids still to be asked about, those whose answer will count are   *)
(* the ones that have stayed; the count so far is right about the rest.     *)
CountInv(c) ==
  /\ c.left \subseteq Given
  /\ \A u \in c.left : u \in c.stays <=> u \in DOMAIN users /\ users[u] \in c.half
  /\ c.counted \in Cardinality(c.stays \ c.left)..Cardinality(c.was \ c.left)

ThreadInv(c) ==
  /\ c \in Counting
  /\ c.counted <= MaxUid
  /\ c.stays \subseteq c.was
  /\ c.pc = "levels" => CountInv(c)
  /\ c.pc = "show" => c.counted \in Cardinality(c.stays)..Cardinality(c.was)

TablesInv ==
  /\ DOMAIN users \subseteq Given /\ \A u \in DOMAIN users : users[u] \in Levels
  /\ nextUid \in 1..(MaxUid + 1)
  /\ shown \in [users : Nat, slots : Nat, least : Nat, most : Nat]

StatusInv ==
  /\ TablesInv
  /\ DOMAIN threads = Threads /\ threads = [t \in Threads |-> threads[t]]
  /\ \A t \in Threads : ThreadInv(threads[t])
  /\ SlotsShownWereHeld

-----------------------------------------------------------------------------
(* Sizes *)

LEMMA SmallSets ==
  ASSUME NEW S \in SUBSET Uids
  PROVE  IsFiniteSet(S) /\ Cardinality(S) \in 0..MaxUid
<1>1. IsFiniteSet(Uids) /\ Cardinality(Uids) = MaxUid
  BY FS_Interval, StatusAssumption DEF Uids
<1>2. IsFiniteSet(S) /\ Cardinality(S) <= Cardinality(Uids) BY <1>1, FS_Subset
<1>3. Cardinality(S) \in Nat BY <1>2, FS_CardinalityType
<1> QED BY <1>1, <1>2, <1>3, StatusAssumption

(* One more uid asked about.                                                *)
LEMMA OneMore ==
  ASSUME NEW S \in SUBSET Uids, NEW left \in SUBSET Uids, NEW u \in left
  PROVE  Cardinality(S \ (left \ {u})) =
           Cardinality(S \ left) + IF u \in S THEN 1 ELSE 0
<1>1. IsFiniteSet(S \ left) BY SmallSets
<1>2. CASE u \in S
  <2>1. S \ (left \ {u}) = (S \ left) \cup {u} /\ u \notin S \ left BY <1>2
  <2> QED BY <1>1, <1>2, <2>1, FS_AddElement
<1>3. CASE u \notin S
  <2>1. S \ (left \ {u}) = S \ left BY <1>3
  <2>2. Cardinality(S \ left) \in Nat BY <1>1, FS_CardinalityType
  <2> QED BY <1>3, <2>1, <2>2
<1> QED BY <1>2, <1>3

-----------------------------------------------------------------------------
(* The steps *)

LEMMA StatusInit == Init => StatusInv
<1> SUFFICES ASSUME Init PROVE StatusInv OBVIOUS
<1> USE StatusAssumption DEF Init
<1>1. TablesInv BY DEF TablesInv, Given
<1>2. ThreadInv(NoThread) BY DEF ThreadInv, NoThread, Counting
<1> QED BY <1>1, <1>2 DEF StatusInv, SlotsShownWereHeld

(* A thread's step that leaves the tables and the status alone.             *)
LEMMA OneThread ==
  ASSUME StatusInv, NEW t \in Threads, NEW c,
         threads' = [threads EXCEPT ![t] = c], ThreadInv(c),
         UNCHANGED <<users, nextUid, shown>>
  PROVE  StatusInv'
<1>1. threads' = [u \in Threads |-> IF u = t THEN c ELSE threads[u]] BY DEF StatusInv
<1>2. \A u \in Threads : ThreadInv(threads'[u]) BY <1>1 DEF StatusInv
<1>3. \A u \in Threads : ThreadInv(threads[u])' BY <1>2 DEF ThreadInv, CountInv, Given
<1> QED BY <1>1, <1>3 DEF StatusInv, TablesInv, Given, SlotsShownWereHeld

LEMMA CountingKeeps ==
  ASSUME StatusInv, NEW t \in Threads,
         Ready(t) \/ CountUsers(t) \/ ListUids(t) \/ AllAsked(t) \/ WakeUp(t)
  PROVE  StatusInv'
<1> DEFINE c == threads[t]
<1>0. ThreadInv(c) /\ c \in Counting /\ TablesInv /\ DOMAIN threads = Threads
  BY DEF StatusInv, ThreadInv
<1>1. CASE Ready(t)
  <2>1. threads' = [threads EXCEPT ![t] = [c EXCEPT !.pc = "users"]]
        /\ UNCHANGED <<users, nextUid, shown>>
    BY <1>0, <1>1 DEF Ready
  <2>2. ThreadInv([c EXCEPT !.pc = "users"]) BY <1>0 DEF ThreadInv, Counting
  <2> QED BY <2>1, <2>2, OneThread
<1>2. CASE CountUsers(t)
  <2> DEFINE d == [c EXCEPT !.pc = "uids", !.useramount = Cardinality(DOMAIN users)]
  <2>1. threads' = [threads EXCEPT ![t] = d] /\ UNCHANGED <<users, nextUid, shown>>
    BY <1>0, <1>2 DEF CountUsers
  <2>2. DOMAIN users \in SUBSET Uids BY <1>0, StatusAssumption DEF TablesInv, Given, Uids
  <2>3. Cardinality(DOMAIN users) \in Nat BY <2>2, SmallSets
  <2>4. ThreadInv(d) BY <1>0, <2>3 DEF ThreadInv, Counting
  <2> QED BY <2>1, <2>4, OneThread
<1>3. CASE ListUids(t)
  <2> DEFINE H == Having(c.half)
             d == [c EXCEPT !.pc = "levels", !.left = DOMAIN users, !.counted = 0, !.was = H,
                            !.stays = H]
  <2>1. threads' = [threads EXCEPT ![t] = d] /\ UNCHANGED <<users, nextUid, shown>>
    BY <1>0, <1>3 DEF ListUids
  <2>2. DOMAIN users \in SUBSET Uids BY <1>0, StatusAssumption DEF TablesInv, Given, Uids
  <2>3. H \in SUBSET Uids /\ H \ DOMAIN users = {} BY <2>2 DEF Having
  <2>4. Cardinality({}) = 0 BY FS_EmptySet
  <2>5. /\ d \in Counting /\ d.pc = "levels" /\ d.left = DOMAIN users /\ d.counted = 0
        /\ d.was = H /\ d.stays = H /\ d.half = c.half
    BY <1>0, <2>2, <2>3 DEF Counting
  <2>6. CountInv(d) BY <1>0, <2>3, <2>4, <2>5 DEF CountInv, TablesInv, Having
  <2>7. ThreadInv(d)
    <3> HIDE DEF d
    <3> QED BY <2>5, <2>6, StatusAssumption DEF ThreadInv
  <2> QED BY <2>1, <2>7, OneThread
<1>4. CASE AllAsked(t)
  <2> DEFINE d == [c EXCEPT !.pc = "show"]
  <2>1. threads' = [threads EXCEPT ![t] = d] /\ UNCHANGED <<users, nextUid, shown>>
        /\ c.left = {} /\ c.pc = "levels"
    BY <1>0, <1>4 DEF AllAsked, At
  <2>2. c.counted \in Cardinality(c.stays)..Cardinality(c.was)
    <3>1. c.stays \ c.left = c.stays /\ c.was \ c.left = c.was BY <2>1
    <3> QED BY <1>0, <2>1, <3>1 DEF ThreadInv, CountInv
  <2>3. ThreadInv(d) BY <1>0, <2>2 DEF ThreadInv, Counting
  <2> QED BY <2>1, <2>3, OneThread
<1>5. CASE WakeUp(t)
  <2> DEFINE d == [c EXCEPT !.pc = "users", !.half = OtherHalf(c.half)]
  <2>1. threads' = [threads EXCEPT ![t] = d] /\ UNCHANGED <<users, nextUid, shown>>
    BY <1>0, <1>5 DEF WakeUp
  <2>2. ThreadInv(d) BY <1>0 DEF ThreadInv, Counting, OtherHalf
  <2> QED BY <2>1, <2>2, OneThread
<1> QED BY <1>1, <1>2, <1>3, <1>4, <1>5

(* The answer counts exactly if the account has stayed.                     *)
LEMMA AskLevelKeeps ==
  ASSUME StatusInv, NEW t \in Threads, NEW u \in Uids, AskLevel(t, u)
  PROVE  StatusInv'
<1> DEFINE c == threads[t]
           n == IF getAccessLevel(u) \in c.half THEN c.counted + 1 ELSE c.counted
           d == [c EXCEPT !.left = c.left \ {u}, !.counted = n]
<1>1. /\ ThreadInv(c) /\ c \in Counting /\ c.pc = "levels" /\ u \in c.left /\ CountInv(c)
      /\ DOMAIN threads = Threads
  BY DEF StatusInv, ThreadInv, AskLevel, At
<1>2. threads' = [threads EXCEPT ![t] = d] /\ UNCHANGED <<users, nextUid, shown>>
  BY <1>1 DEF AskLevel
<1>3. getAccessLevel(u) \in c.half <=> u \in c.stays
  <2>1. DBINTERROR \notin c.half BY <1>1 DEF DBINTERROR, Counting, Premium, PremiumPlus
  <2> QED BY <1>1, <2>1 DEF CountInv, getAccessLevel
<1>4. c.stays \in SUBSET Uids /\ c.was \in SUBSET Uids /\ c.left \in SUBSET Uids
      /\ c.counted \in Nat /\ c.stays \subseteq c.was
  BY <1>1 DEF Counting, ThreadInv
<1> DEFINE least == Cardinality(c.stays \ c.left)
           most == Cardinality(c.was \ c.left)
<1>5. /\ Cardinality(c.stays \ (c.left \ {u})) = least + IF u \in c.stays THEN 1 ELSE 0
      /\ Cardinality(c.was \ (c.left \ {u})) = most + IF u \in c.was THEN 1 ELSE 0
      /\ least \in Nat /\ most \in Nat
      /\ Cardinality(c.was \ (c.left \ {u})) \in 0..MaxUid
  <2>1. c.stays \ c.left \in SUBSET Uids /\ c.was \ c.left \in SUBSET Uids
        /\ c.was \ (c.left \ {u}) \in SUBSET Uids
    BY <1>4
  <2>2. u \in c.left BY <1>1
  <2> HIDE DEF c
  <2>3. Cardinality(c.stays \ (c.left \ {u})) = least + IF u \in c.stays THEN 1 ELSE 0
    BY <1>4, <2>2, OneMore
  <2>4. Cardinality(c.was \ (c.left \ {u})) = most + IF u \in c.was THEN 1 ELSE 0
    BY <1>4, <2>2, OneMore
  <2>5. least \in Nat /\ most \in Nat /\ Cardinality(c.was \ (c.left \ {u})) \in 0..MaxUid
    BY <2>1, SmallSets
  <2> QED BY <2>3, <2>4, <2>5
<1>6. c.counted \in least..most BY <1>1 DEF CountInv
<1> HIDE DEF least, most
<1>7. n \in Cardinality(c.stays \ (c.left \ {u}))..Cardinality(c.was \ (c.left \ {u})) /\ n \in Nat
  BY <1>3, <1>4, <1>5, <1>6
<1>8. n <= MaxUid BY <1>5, <1>7, StatusAssumption
<1> HIDE DEF n
<1>9. d \in Counting /\ d.pc = "levels" /\ d.left = c.left \ {u} /\ d.counted = n
      /\ d.was = c.was /\ d.stays = c.stays /\ d.half = c.half
  BY <1>1, <1>4, <1>7 DEF Counting
<1>10. ThreadInv(d)
  <2>1. CountInv(d) BY <1>1, <1>7, <1>9 DEF CountInv
  <2> HIDE DEF d
  <2> QED BY <1>4, <1>8, <1>9, <2>1 DEF ThreadInv
<1> HIDE DEF d
<1> QED BY <1>2, <1>10, OneThread

LEMMA UpdateStatusKeeps ==
  ASSUME StatusInv, NEW t \in Threads, UpdateStatus(t)
  PROVE  StatusInv'
<1> DEFINE c == threads[t]
           d == [NoThread EXCEPT !.pc = "sleep", !.half = c.half, !.counted = c.counted]
<1>1. ThreadInv(c) /\ c \in Counting /\ c.pc = "show" /\ DOMAIN threads = Threads /\ TablesInv
  BY DEF StatusInv, ThreadInv, UpdateStatus, At
<1>2. /\ threads' = [threads EXCEPT ![t] = d] /\ UNCHANGED <<users, nextUid>>
      /\ shown' = [users |-> c.useramount, slots |-> c.counted,
                   least |-> Cardinality(c.stays), most |-> Cardinality(c.was)]
  BY DEF UpdateStatus
<1>3. ThreadInv(d) BY <1>1 DEF ThreadInv, NoThread, Counting
<1>4. c.stays \in SUBSET Uids /\ c.was \in SUBSET Uids /\ c.useramount \in Nat /\ c.counted \in Nat
  BY <1>1 DEF Counting
<1>5. Cardinality(c.stays) \in Nat /\ Cardinality(c.was) \in Nat BY <1>4, SmallSets
<1>6. TablesInv' BY <1>1, <1>2, <1>4, <1>5 DEF TablesInv, Given
<1>7. SlotsShownWereHeld' BY <1>1, <1>2 DEF SlotsShownWereHeld, ThreadInv
<1> HIDE DEF d
<1>8. threads' = [u \in Threads |-> IF u = t THEN d ELSE threads[u]] BY <1>2 DEF StatusInv
<1>9. \A u \in Threads : ThreadInv(threads'[u]) BY <1>3, <1>8 DEF StatusInv
<1>10. \A u \in Threads : ThreadInv(threads[u])' BY <1>2, <1>9 DEF ThreadInv, CountInv, Given
<1> QED BY <1>6, <1>7, <1>8, <1>10 DEF StatusInv

(* A new account has a new uid, which no thread has listed.                 *)
LEMMA AddUserKeeps ==
  ASSUME StatusInv, NEW level \in Levels, AddUser(level)
  PROVE  StatusInv'
<1>1. TablesInv /\ nextUid <= MaxUid /\ nextUid' = nextUid + 1 /\ UNCHANGED <<threads, shown>>
      /\ users' = [u \in DOMAIN users \cup {nextUid} |-> IF u = nextUid THEN level ELSE users[u]]
  BY DEF StatusInv, AddUser
<1>2. /\ nextUid \in Nat /\ nextUid \notin Given /\ Given \subseteq Given' /\ nextUid \in Given'
      /\ nextUid' \in 1..(MaxUid + 1)
  BY <1>1, StatusAssumption DEF TablesInv, Given
<1>3. TablesInv' BY <1>1, <1>2 DEF TablesInv
<1>4. ASSUME NEW t \in Threads PROVE ThreadInv(threads[t])'
  <2>1. ThreadInv(threads[t]) BY DEF StatusInv
  <2>2. CountInv(threads[t]) => CountInv(threads[t])' BY <1>1, <1>2 DEF CountInv
  <2> QED BY <1>1, <2>1, <2>2 DEF ThreadInv
<1> QED BY <1>1, <1>3, <1>4 DEF StatusInv, SlotsShownWereHeld

(* A removed account has not stayed: fewer must be counted.                 *)
LEMMA RemoveUserKeeps ==
  ASSUME StatusInv, NEW uid \in DOMAIN users, RemoveUser(uid)
  PROVE  StatusInv'
<1>1. TablesInv /\ users' = [u \in DOMAIN users \ {uid} |-> users[u]]
      /\ UNCHANGED <<nextUid, shown>>
      /\ threads' = [t \in Threads |-> [threads[t] EXCEPT !.stays = threads[t].stays \ {uid}]]
  BY DEF StatusInv, RemoveUser
<1>2. TablesInv' BY <1>1 DEF TablesInv, Given
<1>3. ASSUME NEW t \in Threads PROVE ThreadInv(threads[t])'
  <2> DEFINE c == threads[t]
             d == [c EXCEPT !.stays = c.stays \ {uid}]
  <2>1. ThreadInv(c) /\ c \in Counting BY DEF StatusInv, ThreadInv
  <2>2. d \in Counting /\ d.pc = c.pc /\ d.left = c.left /\ d.counted = c.counted
        /\ d.was = c.was /\ d.stays = c.stays \ {uid} /\ d.half = c.half
    BY <2>1 DEF Counting
  <2>3. c.stays \in SUBSET Uids /\ c.was \in SUBSET Uids /\ c.counted \in Nat BY <2>1 DEF Counting
  <2>4. ASSUME NEW S \in SUBSET Uids, NEW R \in SUBSET S PROVE Cardinality(R) <= Cardinality(S)
    BY SmallSets, FS_Subset
  <2>5. /\ Cardinality(d.stays \ d.left) <= Cardinality(c.stays \ c.left)
        /\ Cardinality(d.stays) <= Cardinality(c.stays)
    <3>1. c.stays \ c.left \in SUBSET Uids /\ d.stays \ d.left \in SUBSET (c.stays \ c.left)
          /\ d.stays \in SUBSET c.stays
      BY <2>2, <2>3
    <3> HIDE DEF c, d
    <3> QED BY <2>3, <2>4, <3>1
  <2>6. /\ Cardinality(d.stays \ d.left) \in Int /\ Cardinality(c.stays \ c.left) \in Int
        /\ Cardinality(d.stays) \in Int /\ Cardinality(c.stays) \in Int
        /\ Cardinality(c.was \ c.left) \in Int /\ Cardinality(c.was) \in Int
    <3>1. d.stays \in SUBSET Uids BY <2>2, <2>3
    <3> HIDE DEF c, d
    <3> QED BY <2>3, <3>1, SmallSets
  <2>7. threads'[t] = d BY <1>1
  <2> HIDE DEF c, d
  <2>8. c.pc = "levels" => CountInv(threads[t])'
    <3> SUFFICES ASSUME c.pc = "levels" PROVE CountInv(threads[t])' OBVIOUS
    <3>1. CountInv(c) BY <2>1 DEF ThreadInv
    <3>2. d.left \subseteq Given' BY <1>1, <2>2, <3>1 DEF CountInv, Given
    <3>3. \A u \in d.left : u \in d.stays <=> u \in DOMAIN users' /\ users'[u] \in d.half
      BY <1>1, <2>2, <3>1 DEF CountInv
    <3>4. d.counted \in Cardinality(d.stays \ d.left)..Cardinality(d.was \ d.left)
      BY <2>2, <2>3, <2>5, <2>6, <3>1 DEF CountInv
    <3> QED BY <2>7, <3>2, <3>3, <3>4 DEF CountInv
  <2>9. c.pc = "show" => d.counted \in Cardinality(d.stays)..Cardinality(d.was)
    BY <2>1, <2>2, <2>3, <2>5, <2>6 DEF ThreadInv
  <2>10. d.counted <= MaxUid /\ d.stays \subseteq d.was BY <2>1, <2>2 DEF ThreadInv
  <2> QED BY <2>2, <2>7, <2>8, <2>9, <2>10 DEF ThreadInv
<1> QED BY <1>1, <1>2, <1>3 DEF StatusInv, SlotsShownWereHeld

LEMMA StatusInductive == StatusInv /\ [Next]_vars => StatusInv'
<1> SUFFICES ASSUME StatusInv, [Next]_vars PROVE StatusInv' OBVIOUS
<1>1. CASE UNCHANGED vars
  BY <1>1 DEF vars, StatusInv, TablesInv, ThreadInv, CountInv, Given, SlotsShownWereHeld
<1>2. ASSUME NEW t \in Threads,
             Ready(t) \/ CountUsers(t) \/ ListUids(t) \/ AllAsked(t) \/ WakeUp(t)
      PROVE  StatusInv'
  BY <1>2, CountingKeeps
<1> QED BY <1>1, <1>2, UpdateStatusKeeps, AskLevelKeeps, AddUserKeeps, RemoveUserKeeps DEF Next

(* The number of slots shown is at most that of the accounts that had them  *)
(* when the count began and at least that of those that still had them when *)
(* it ended (discordbot.h:28-36, dbmanager.cpp:498-522).                    *)
THEOREM SlotsShownSound == Spec => []SlotsShownWereHeld
<1>1. StatusInv => SlotsShownWereHeld BY DEF StatusInv
<1> QED BY <1>1, StatusInit, StatusInductive, PTL DEF Spec

(* The types, with what TypeOK says of the counts.                          *)
THEOREM StatusTypeCorrect == Spec => []TypeOK
<1>1. StatusInv => TypeOK
  <2> SUFFICES ASSUME StatusInv PROVE TypeOK OBVIOUS
  <2>1. Given \subseteq Uids BY StatusAssumption DEF StatusInv, TablesInv, Given, Uids
  <2>2. threads \in [Threads -> Counting] BY DEF StatusInv, ThreadInv
  <2> QED BY <2>1, <2>2 DEF StatusInv, TablesInv, ThreadInv, TypeOK
<1> QED BY <1>1, StatusInit, StatusInductive, PTL DEF Spec
================================================================================
