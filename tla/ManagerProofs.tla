----------------------------- MODULE ManagerProofs -----------------------------
(***************************************************************************)
(* For any threads, queries and number of connections: if no two threads    *)
(* share a manager, every call is answered with the rows of its own         *)
(* question, and a statement throws only if MySQL refuses the connection.   *)
(* All that the client threads lack is a manager each.                      *)
(***************************************************************************)
EXTENDS SharedManager, TLAPS

Private == \A t, u \in Threads : manager[t] = manager[u] => t = u

(* The answer after n rows.                                                 *)
UpTo(q, int, n) ==
  IF int THEN (IF n = 0 THEN <<DBINTERROR>> ELSE <<q.rows[n]>>)
         ELSE [j \in 1..n |-> q.rows[j]]

(* The statement a thread executes is that of its own manager, and from the *)
(* first row to the last the result set there is the one of its question.   *)
ThreadInv(t) ==
  LET c == call[t]
      r == res[manager[t]]
      conn == stmt[manager[t]]
  IN  /\ c.pc # "idle" => c.query \in Queries
      /\ c.pc = "execute" => conn > 0
      /\ c.pc = "executing" => conn > 0 /\ c.conn = conn
      /\ c.pc \in {"connect", "execute", "executing"} => c.answer = UpTo(c.query, c.int, 0)
      /\ c.pc \in {"next", "get"} => r.query = c.query
      /\ c.pc = "next" => r.at \in 0..Len(c.query.rows) /\ c.answer = UpTo(c.query, c.int, r.at)
      /\ c.pc = "get" => r.at \in 1..Len(c.query.rows) /\ c.answer = UpTo(c.query, c.int, r.at - 1)
      /\ c.pc = "answered" => c.answer = Answer(c.query, c.int)

(* No two managers have the same connection.                                *)
ConnInv ==
  /\ \A m \in Managers : stmt[m] <= opened
  /\ \A m, n \in Managers : stmt[m] = stmt[n] /\ stmt[m] > 0 => m = n

ManagerInv == TypeOK /\ ConnInv /\ (\A t \in Threads : ThreadInv(t)) /\ ThrowsOnlyIfRefused

-----------------------------------------------------------------------------
(* Rows *)

LEMMA NoRows == \A q \in Queries, int \in BOOLEAN :
  UpTo(q, int, 0) = IF int THEN <<DBINTERROR>> ELSE <<>>
BY DEF UpTo

LEMMA OneMoreRow ==
  ASSUME NEW q \in Queries, NEW int \in BOOLEAN, NEW n \in 1..Len(q.rows)
  PROVE  (IF int THEN <<q.rows[n]>> ELSE UpTo(q, int, n - 1) \o <<q.rows[n]>>) = UpTo(q, int, n)
<1>1. q.rows \in Seq(Int) BY ManagerAssumption
<1>2. CASE int BY <1>2 DEF UpTo
<1>3. CASE ~int
  <2> DEFINE s == [j \in 1..(n - 1) |-> q.rows[j]]
  <2>1. s \in Seq(Int) /\ Len(s) = n - 1 BY <1>1
  <2>2. s \o <<q.rows[n]>> = [j \in 1..n |-> q.rows[j]]
    <3>1. q.rows[n] \in Int BY <1>1
    <3>2. s \o <<q.rows[n]>> \in Seq(Int) /\ Len(s \o <<q.rows[n]>>) = n BY <2>1, <3>1
    <3>3. ASSUME NEW j \in 1..n PROVE (s \o <<q.rows[n]>>)[j] = q.rows[j]
      <4>1. CASE j < n
        <5>1. s[j] = q.rows[j] BY <1>1, <4>1
        <5> HIDE DEF s
        <5> QED BY <2>1, <3>1, <4>1, <5>1
      <4>2. CASE j = n
        <5> HIDE DEF s
        <5> QED BY <2>1, <3>1, <4>2
      <4> QED BY <4>1, <4>2
    <3> QED BY <3>2, <3>3
  <2> QED BY <1>3, <2>2 DEF UpTo
<1> QED BY <1>2, <1>3

LEMMA AllRows ==
  ASSUME NEW q \in Queries, NEW int \in BOOLEAN
  PROVE  UpTo(q, int, Len(q.rows)) = Answer(q, int)
<1>1. q.rows \in Seq(Int) BY ManagerAssumption
<1>2. CASE int
  <2>1. q.rows = <<>> <=> Len(q.rows) = 0 BY <1>1
  <2> QED BY <1>2, <2>1 DEF UpTo, Answer
<1>3. CASE ~int
  <2>1. [j \in 1..Len(q.rows) |-> q.rows[j]] = q.rows BY <1>1
  <2> QED BY <1>3, <2>1 DEF UpTo, Answer
<1> QED BY <1>2, <1>3

-----------------------------------------------------------------------------
(* A step of thread t leaves every other thread's call and manager alone.   *)
LEMMA OthersKeep ==
  ASSUME Private, ManagerInv, NEW t \in Threads,
         \A u \in Threads \ {t} : call'[u] = call[u],
         \A m \in Managers \ {manager[t]} : res'[m] = res[m] /\ stmt'[m] = stmt[m]
  PROVE  \A u \in Threads \ {t} : ThreadInv(u)'
<1> SUFFICES ASSUME NEW u \in Threads \ {t} PROVE ThreadInv(u)' OBVIOUS
<1>1. manager[u] \in Managers \ {manager[t]} BY ManagerAssumption DEF Private
<1>2. call'[u] = call[u] /\ res'[manager[u]] = res[manager[u]]
      /\ stmt'[manager[u]] = stmt[manager[u]]
  BY <1>1
<1>3. ThreadInv(u) BY DEF ManagerInv
<1> QED BY <1>2, <1>3 DEF ThreadInv

(* What is left to show of a step of thread t.                              *)
LEMMA StepKeeps ==
  ASSUME Private, ManagerInv, NEW t \in Threads, TypeOK', ConnInv', ThreadInv(t)',
         \A u \in Threads \ {t} : call'[u] = call[u],
         \A m \in Managers \ {manager[t]} : res'[m] = res[m] /\ stmt'[m] = stmt[m],
         t \notin stopped,
         stopped' \in {stopped, stopped \cup {t}},
         t \in stopped' => call'[t].pc = "connect"
  PROVE  ManagerInv'
<1>1. \A u \in Threads : ThreadInv(u)' BY OthersKeep
<1>2. ThrowsOnlyIfRefused' BY DEF ManagerInv, ThrowsOnlyIfRefused, TypeOK
<1> QED BY <1>1, <1>2 DEF ManagerInv

-----------------------------------------------------------------------------
(* The steps *)

LEMMA InitManager == Init => ManagerInv
<1> SUFFICES ASSUME Init PROVE ManagerInv OBVIOUS
<1> USE ManagerAssumption DEF Init
<1>1. NoCall \in Call BY DEF NoCall, Call
<1>2. NoResult \in ResultSet BY DEF NoResult, ResultSet
<1>3. TypeOK BY <1>1, <1>2 DEF TypeOK
<1>4. ConnInv BY DEF ConnInv
<1>5. \A t \in Threads : ThreadInv(t) BY DEF ThreadInv, NoCall
<1>6. ThrowsOnlyIfRefused BY DEF ThrowsOnlyIfRefused
<1> QED BY <1>3, <1>4, <1>5, <1>6 DEF ManagerInv

LEMMA AskKeeps ==
  ASSUME Private, ManagerInv, NEW t \in Threads, NEW q \in Queries, NEW int \in BOOLEAN,
         Ask(t, q, int)
  PROVE  ManagerInv'
<1> DEFINE c == [NoCall EXCEPT !.pc = "connect", !.query = q, !.int = int,
                               !.answer = IF int THEN <<DBINTERROR>> ELSE <<>>,
                               !.asked = call[t].asked + 1]
<1>1. /\ call' = [call EXCEPT ![t] = c]
      /\ UNCHANGED <<stmt, res, opened, stopped>>
      /\ t \notin stopped /\ call[t].asked < MaxAsked
  BY DEF Ask
<1>2. TypeOK BY DEF ManagerInv
<1>3. c \in Call
  <2>1. call[t].asked \in 0..MaxAsked BY <1>2 DEF TypeOK, Call
  <2>2. call[t].asked + 1 \in 0..MaxAsked BY <1>1, <2>1, ManagerAssumption
  <2>3. (IF int THEN <<DBINTERROR>> ELSE <<>>) \in Seq(Int) BY DEF DBINTERROR
  <2>4. NoCall \in Call BY ManagerAssumption DEF NoCall, Call
  <2>5. q \in Queries \cup {NoQuery} OBVIOUS
  <2> QED BY ONLY <2>2, <2>3, <2>4, <2>5, int \in BOOLEAN DEF Call
<1>4. c.pc = "connect" /\ c.query = q /\ c.int = int /\ c.answer = UpTo(q, int, 0)
  BY NoRows DEF NoCall
<1> HIDE DEF c
<1>5. call' \in [Threads -> Call] /\ call'[t] = c /\ \A u \in Threads \ {t} : call'[u] = call[u]
  BY <1>1, <1>2, <1>3 DEF TypeOK
<1>6. TypeOK' BY <1>1, <1>2, <1>5 DEF TypeOK
<1>7. ConnInv' BY <1>1 DEF ManagerInv, ConnInv
<1>8. ThreadInv(t)' BY <1>4, <1>5 DEF ThreadInv
<1> QED BY <1>1, <1>5, <1>6, <1>7, <1>8, StepKeeps

(* Only a refused connect pauses, and leaves everything else as it is.      *)
LEMMA PauseKeeps ==
  ASSUME Private, ManagerInv, NEW t \in Threads, At(t, "connect"), Pause(t),
         UNCHANGED <<stmt, res, opened>>
  PROVE  ManagerInv'
<1>1. TypeOK' BY DEF ManagerInv, TypeOK, Pause
<1>2. ConnInv' BY DEF ManagerInv, ConnInv
<1>3. ThreadInv(t)' BY DEF ManagerInv, ThreadInv, Pause
<1> QED BY <1>1, <1>2, <1>3, StepKeeps DEF At, Pause

LEMMA ConnectKeeps ==
  ASSUME Private, ManagerInv, NEW t \in Threads, Connect(t)
  PROVE  ManagerInv'
<1>0. At(t, "connect") /\ UNCHANGED res BY DEF Connect
<1>1. CASE opened >= MaxConnections
  BY <1>0, <1>1, PauseKeeps, ManagerAssumption DEF Connect, ManagerInv, TypeOK
<1>2. CASE opened < MaxConnections
  <2>1. /\ opened' = opened + 1
        /\ stmt' = [stmt EXCEPT ![manager[t]] = opened + 1]
        /\ call' = [call EXCEPT ![t].pc = "execute"]
        /\ UNCHANGED stopped /\ call[t].pc = "connect" /\ t \notin stopped
    BY <1>0, <1>2 DEF Connect, Goto, At
  <2>2. TypeOK /\ ConnInv /\ ThreadInv(t) /\ manager[t] \in Managers
    BY ManagerAssumption DEF ManagerInv
  <2>3. opened' \in 0..MaxConnections BY <1>2, <2>1, <2>2, ManagerAssumption DEF TypeOK
  <2>4. stmt' \in [Managers -> 0..MaxConnections] BY <2>1, <2>2, <2>3 DEF TypeOK
  <2>5. call' \in [Threads -> Call] /\ call'[t] = [call[t] EXCEPT !.pc = "execute"]
        /\ \A u \in Threads \ {t} : call'[u] = call[u]
    BY <2>1, <2>2 DEF TypeOK, Call
  <2>6. TypeOK' BY <1>0, <2>1, <2>2, <2>3, <2>4, <2>5 DEF TypeOK
  <2>7. ConnInv'
    <3>1. \A m \in Managers : stmt[m] \in Nat /\ stmt[m] <= opened /\ opened \in Nat
      BY <2>2, ManagerAssumption DEF ConnInv, TypeOK
    <3>2. \A m \in Managers : stmt'[m] = IF m = manager[t] THEN opened + 1 ELSE stmt[m]
      BY <2>1, <2>2 DEF TypeOK
    <3> QED BY <2>1, <2>2, <3>1, <3>2 DEF ConnInv
  <2>8. ThreadInv(t)'
    <3>1. stmt'[manager[t]] > 0 BY <2>1, <2>2 DEF TypeOK
    <3>2. call'[t].pc = "execute" /\ call'[t].query = call[t].query /\ call'[t].int = call[t].int
          /\ call'[t].answer = call[t].answer
      BY <2>2, <2>5 DEF TypeOK, Call
    <3> QED BY <2>1, <2>2, <3>1, <3>2 DEF ThreadInv
  <2>9. \A m \in Managers \ {manager[t]} : res'[m] = res[m] /\ stmt'[m] = stmt[m]
    BY <1>0, <2>1, <2>2 DEF TypeOK
  <2> QED BY <2>1, <2>5, <2>6, <2>7, <2>8, <2>9, StepKeeps
<1> QED BY <1>1, <1>2, ManagerAssumption DEF ManagerInv, TypeOK

(* No other thread executes on this manager's connection.                   *)
LEMMA ExecuteKeeps ==
  ASSUME Private, ManagerInv, NEW t \in Threads, Execute(t)
  PROVE  ManagerInv'
<1> DEFINE conn == stmt[manager[t]]
<1>0. /\ call[t].pc = "execute" /\ t \notin stopped /\ UNCHANGED <<stmt, res, opened>>
      /\ TypeOK /\ ConnInv /\ ThreadInv(t) /\ manager[t] \in Managers
      /\ \A u \in Threads : ThreadInv(u) /\ manager[u] \in Managers
  BY ManagerAssumption DEF Execute, At, ManagerInv
<1>1. conn > 0 /\ conn \in 0..MaxConnections BY <1>0 DEF ThreadInv, TypeOK
<1>2. ~\E u \in Threads : call[u].pc = "executing" /\ call[u].conn = conn
  <2> SUFFICES ASSUME NEW u \in Threads, call[u].pc = "executing", call[u].conn = conn
               PROVE FALSE
    OBVIOUS
  <2>1. stmt[manager[u]] = conn BY <1>0 DEF ThreadInv
  <2>2. manager[u] = manager[t] BY <1>0, <1>1, <2>1 DEF ConnInv
  <2> QED BY <1>0, <2>2 DEF Private
<1>3. call' = [call EXCEPT ![t].pc = "executing", ![t].conn = conn] /\ UNCHANGED stopped
  BY <1>2 DEF Execute
<1> HIDE DEF conn
<1>4. call'[t] = [call[t] EXCEPT !.pc = "executing", !.conn = conn]
      /\ \A u \in Threads \ {t} : call'[u] = call[u]
  BY <1>0, <1>3 DEF TypeOK
<1>5. call' \in [Threads -> Call]
  <2>1. call[t] \in Call BY <1>0 DEF TypeOK
  <2>2. [call[t] EXCEPT !.pc = "executing", !.conn = conn] \in Call BY ONLY <1>1, <2>1 DEF Call
  <2>3. call' = [call EXCEPT ![t] = [call[t] EXCEPT !.pc = "executing", !.conn = conn]]
    BY <1>0, <1>3 DEF TypeOK
  <2> QED BY <1>0, <2>2, <2>3 DEF TypeOK
<1>6. TypeOK' BY <1>0, <1>3, <1>5 DEF TypeOK
<1>7. ConnInv' BY <1>0 DEF ConnInv
<1>8. ThreadInv(t)'
  <2>1. call'[t].pc = "executing" /\ call'[t].conn = conn /\ call'[t].query = call[t].query
        /\ call'[t].int = call[t].int /\ call'[t].answer = call[t].answer
    BY <1>0, <1>4 DEF TypeOK, Call
  <2> QED BY <1>0, <1>1, <2>1 DEF ThreadInv, conn
<1> QED BY <1>0, <1>3, <1>4, <1>6, <1>7, <1>8, StepKeeps

(* Its own result set, before the first row.                                *)
LEMMA ExecutedKeeps ==
  ASSUME Private, ManagerInv, NEW t \in Threads, Executed(t)
  PROVE  ManagerInv'
<1> DEFINE r == [query |-> call[t].query, at |-> 0]
<1>0. /\ call[t].pc = "executing" /\ t \notin stopped /\ UNCHANGED <<stmt, opened, stopped>>
      /\ res' = [res EXCEPT ![manager[t]] = r]
      /\ call' = [call EXCEPT ![t].pc = "next"]
      /\ TypeOK /\ ConnInv /\ ThreadInv(t) /\ manager[t] \in Managers
  BY ManagerAssumption DEF Executed, At, Goto, ManagerInv
<1>1. call[t].query \in Queries /\ call[t].int \in BOOLEAN
      /\ call[t].answer = UpTo(call[t].query, call[t].int, 0)
  BY <1>0 DEF ThreadInv, TypeOK, Call
<1>2. r \in ResultSet /\ r.query = call[t].query /\ r.at = 0 BY <1>1 DEF ResultSet
<1> HIDE DEF r
<1>3. res' \in [Managers -> ResultSet] /\ res'[manager[t]] = r
      /\ \A m \in Managers \ {manager[t]} : res'[m] = res[m] /\ stmt'[m] = stmt[m]
  BY <1>0, <1>2 DEF TypeOK
<1>4. call' \in [Threads -> Call] /\ call'[t] = [call[t] EXCEPT !.pc = "next"]
      /\ \A u \in Threads \ {t} : call'[u] = call[u]
  BY <1>0 DEF TypeOK, Call
<1>5. TypeOK' BY <1>0, <1>3, <1>4 DEF TypeOK
<1>6. ConnInv' BY <1>0 DEF ConnInv
<1>7. ThreadInv(t)'
  <2>1. call'[t].pc = "next" /\ call'[t].query = call[t].query
        /\ call'[t].int = call[t].int /\ call'[t].answer = call[t].answer
    BY <1>0, <1>4 DEF TypeOK, Call
  <2>2. 0 \in 0..Len(call[t].query.rows) BY <1>1, ManagerAssumption
  <2> QED BY <1>1, <1>2, <1>3, <2>1, <2>2 DEF ThreadInv
<1> QED BY <1>0, <1>3, <1>4, <1>5, <1>6, <1>7, StepKeeps

(* One row further, or the end: then the answer is complete.                *)
LEMMA NextRowKeeps ==
  ASSUME Private, ManagerInv, NEW t \in Threads, NextRow(t)
  PROVE  ManagerInv'
<1> DEFINE q == call[t].query
           at == res[manager[t]].at
<1>0. /\ call[t].pc = "next" /\ t \notin stopped /\ UNCHANGED <<stmt, opened, stopped>>
      /\ TypeOK /\ ConnInv /\ ThreadInv(t) /\ manager[t] \in Managers
  BY ManagerAssumption DEF NextRow, At, ManagerInv
<1>1. q \in Queries /\ call[t].int \in BOOLEAN /\ res[manager[t]].query = q
      /\ at \in 0..Len(q.rows) /\ call[t].answer = UpTo(q, call[t].int, at)
  BY <1>0 DEF ThreadInv, TypeOK, Call
<1>2. Len(q.rows) \in Nat BY <1>1, ManagerAssumption
<1>3. CASE at < Len(q.rows)
  <2>1. call' = [call EXCEPT ![t].pc = "get"] /\ res' = [res EXCEPT ![manager[t]].at = at + 1]
    BY <1>1, <1>3 DEF NextRow, Goto
  <2>2. [res[manager[t]] EXCEPT !.at = at + 1] \in ResultSet
    BY <1>0, <1>1, <1>2 DEF TypeOK, ResultSet
  <2>3. /\ res' \in [Managers -> ResultSet]
        /\ res'[manager[t]] = [res[manager[t]] EXCEPT !.at = at + 1]
        /\ \A m \in Managers \ {manager[t]} : res'[m] = res[m] /\ stmt'[m] = stmt[m]
    BY <1>0, <2>1, <2>2 DEF TypeOK
  <2>4. call' \in [Threads -> Call] /\ call'[t] = [call[t] EXCEPT !.pc = "get"]
        /\ \A u \in Threads \ {t} : call'[u] = call[u]
    BY <1>0, <2>1 DEF TypeOK, Call
  <2>5. TypeOK' BY <1>0, <2>3, <2>4 DEF TypeOK
  <2>6. ConnInv' BY <1>0 DEF ConnInv
  <2>7. ThreadInv(t)'
    <3>1. call'[t].pc = "get" /\ call'[t].query = q
          /\ call'[t].int = call[t].int /\ call'[t].answer = call[t].answer
      BY <1>0, <2>4 DEF TypeOK, Call
    <3>2. res'[manager[t]].query = q /\ res'[manager[t]].at = at + 1
      BY <1>0, <1>1, <2>3 DEF TypeOK, ResultSet
    <3>3. at + 1 \in 1..Len(q.rows) /\ (at + 1) - 1 = at BY <1>1, <1>2, <1>3
    <3> HIDE DEF q, at
    <3> QED BY <1>1, <3>1, <3>2, <3>3 DEF ThreadInv
  <2> QED BY <1>0, <2>3, <2>4, <2>5, <2>6, <2>7, StepKeeps
<1>4. CASE at = Len(q.rows)
  <2>1. call' = [call EXCEPT ![t].pc = "answered"] /\ UNCHANGED res
    BY <1>1, <1>2, <1>4 DEF NextRow, Goto
  <2>2. call' \in [Threads -> Call] /\ call'[t] = [call[t] EXCEPT !.pc = "answered"]
        /\ \A u \in Threads \ {t} : call'[u] = call[u]
    BY <1>0, <2>1 DEF TypeOK, Call
  <2>3. TypeOK' BY <1>0, <2>1, <2>2 DEF TypeOK
  <2>4. ConnInv' BY <1>0 DEF ConnInv
  <2>5. ThreadInv(t)'
    <3>1. call'[t].pc = "answered" /\ call'[t].query = q
          /\ call'[t].int = call[t].int /\ call'[t].answer = call[t].answer
      BY <1>0, <2>2 DEF TypeOK, Call
    <3>2. call[t].answer = Answer(q, call[t].int) BY <1>1, <1>4, AllRows
    <3> QED BY <1>1, <3>1, <3>2 DEF ThreadInv
  <2> QED BY <1>0, <2>1, <2>2, <2>3, <2>4, <2>5, StepKeeps
<1> QED BY <1>1, <1>2, <1>3, <1>4

(* The row is of the thread's own result set, so it has the column.         *)
LEMMA GetRowKeeps ==
  ASSUME Private, ManagerInv, NEW t \in Threads, GetRow(t)
  PROVE  ManagerInv'
<1> DEFINE q == call[t].query
           at == res[manager[t]].at
           answer == IF call[t].int THEN <<q.rows[at]>> ELSE call[t].answer \o <<q.rows[at]>>
<1>0. /\ call[t].pc = "get" /\ t \notin stopped /\ UNCHANGED <<stmt, res, opened>>
      /\ TypeOK /\ ConnInv /\ ThreadInv(t) /\ manager[t] \in Managers
  BY ManagerAssumption DEF GetRow, At, ManagerInv
<1>1. q \in Queries /\ call[t].int \in BOOLEAN /\ res[manager[t]].query = q
      /\ at \in 1..Len(q.rows) /\ call[t].answer = UpTo(q, call[t].int, at - 1)
      /\ call[t].answer \in Seq(Int)
  BY <1>0 DEF ThreadInv, TypeOK, Call
<1>2. call' = [call EXCEPT ![t].pc = "next", ![t].answer = answer] /\ UNCHANGED stopped
  <2>1. at > 0 /\ res[manager[t]].query.column = q.column BY <1>1
  <2>2. call' = [call EXCEPT ![t].pc = "next",
                             ![t].answer = IF call[t].int THEN <<q.rows[at]>>
                                                          ELSE @ \o <<q.rows[at]>>]
        /\ UNCHANGED stopped
    BY <1>1, <2>1 DEF GetRow
  <2>3. call[t] \in Call BY <1>0 DEF TypeOK
  <2> QED BY ONLY <1>0, <2>2, <2>3 DEF Call, TypeOK
<1>3. answer = UpTo(q, call[t].int, at) BY <1>1, OneMoreRow
<1>4. answer \in Seq(Int)
  <2>1. q.rows \in Seq(Int) BY <1>1, ManagerAssumption
  <2>2. q.rows[at] \in Int BY <1>1, <2>1
  <2> QED BY <1>1, <2>2
<1> HIDE DEF answer
<1>5. call'[t] = [call[t] EXCEPT !.pc = "next", !.answer = answer]
      /\ \A u \in Threads \ {t} : call'[u] = call[u]
  BY <1>0, <1>2 DEF TypeOK
<1>6. call' \in [Threads -> Call]
  <2>1. call[t] \in Call BY <1>0 DEF TypeOK
  <2>2. [call[t] EXCEPT !.pc = "next", !.answer = answer] \in Call BY ONLY <1>4, <2>1 DEF Call
  <2>3. call' = [call EXCEPT ![t] = [call[t] EXCEPT !.pc = "next", !.answer = answer]]
    BY <1>0, <1>2 DEF TypeOK
  <2> QED BY <1>0, <2>2, <2>3 DEF TypeOK
<1>7. TypeOK' BY <1>0, <1>2, <1>6 DEF TypeOK
<1>8. ConnInv' BY <1>0 DEF ConnInv
<1>9. ThreadInv(t)'
  <2>1. call'[t].pc = "next" /\ call'[t].query = q
        /\ call'[t].int = call[t].int /\ call'[t].answer = answer
    BY <1>0, <1>5 DEF TypeOK, Call
  <2>2. Len(q.rows) \in Nat BY <1>1, ManagerAssumption
  <2>3. at \in 0..Len(q.rows) BY <1>1, <2>2
  <2>4. res'[manager[t]].query = q /\ res'[manager[t]].at = at BY <1>0, <1>1
  <2> HIDE DEF q, at
  <2> QED BY <1>1, <1>3, <2>1, <2>3, <2>4 DEF ThreadInv
<1> QED BY <1>0, <1>2, <1>5, <1>7, <1>8, <1>9, StepKeeps

-----------------------------------------------------------------------------
LEMMA ManagerInductive == Private /\ ManagerInv /\ [Next]_vars => ManagerInv'
<1> SUFFICES ASSUME Private, ManagerInv, [Next]_vars PROVE ManagerInv' OBVIOUS
<1>1. ASSUME NEW t \in Threads, NEW q \in Queries, NEW int \in BOOLEAN, Ask(t, q, int)
      PROVE  ManagerInv'
  BY <1>1, AskKeeps
<1>2. ASSUME NEW t \in Threads,
             Connect(t) \/ Execute(t) \/ Executed(t) \/ NextRow(t) \/ GetRow(t)
      PROVE  ManagerInv'
  BY <1>2, ConnectKeeps, ExecuteKeeps, ExecutedKeeps, NextRowKeeps, GetRowKeeps
<1>3. CASE UNCHANGED vars
  BY <1>3 DEF vars, ManagerInv, TypeOK, ConnInv, ThreadInv, ThrowsOnlyIfRefused
<1> QED BY <1>1, <1>2, <1>3 DEF Next

(* A call returns the answer to its own question, if no two threads have    *)
(* the same manager (dbmanager.cpp:71-95, 103-129).                         *)
THEOREM AnswersAreOwn == Private => (Spec => []AnswersOwnQuestion)
<1> SUFFICES ASSUME Private PROVE Spec => []AnswersOwnQuestion OBVIOUS
<1>1. Init => ManagerInv BY InitManager
<1>2. ManagerInv /\ [Next]_vars => ManagerInv' BY ManagerInductive
<1>3. ManagerInv => AnswersOwnQuestion
  BY DEF ManagerInv, ThreadInv, AnswersOwnQuestion
<1> QED BY <1>1, <1>2, <1>3, PTL DEF Spec

(* A statement throws only because MySQL refuses the connection, if no two  *)
(* threads have the same manager (dbmanager.cpp:22-41, 85-94).              *)
THEOREM ThrowsOnlyRefused == Private => (Spec => []ThrowsOnlyIfRefused)
<1> SUFFICES ASSUME Private PROVE Spec => []ThrowsOnlyIfRefused OBVIOUS
<1>1. Init => ManagerInv BY InitManager
<1>2. ManagerInv /\ [Next]_vars => ManagerInv' BY ManagerInductive
<1>3. ManagerInv => ThrowsOnlyIfRefused BY DEF ManagerInv
<1> QED BY <1>1, <1>2, <1>3, PTL DEF Spec
================================================================================
