---------------------------- MODULE SharedManager ----------------------------
(***************************************************************************)
(* How class manager (dbmanager.cpp) runs a statement: connect() opens a    *)
(* new connection and leaves a statement object in the member stmt, the     *)
(* result set goes to the member res, and the loop over the rows goes       *)
(* through res each time.  The bot, the feed, the checker and the status    *)
(* threads have a manager each; all client threads share that of the one    *)
(* clienthandler (clienthandler.h).                                        *)
(*                                                                         *)
(* A query is a table of its column and its rows; what the rows mean is in  *)
(* DbManager and Login, which take every answer for the query's own.        *)
(***************************************************************************)
EXTENDS Integers, Sequences, FiniteSets

CONSTANTS
  Threads,
  Managers,
  manager,         \* the manager each thread calls
  Queries,         \* records [column, rows]: what MySQL answers to each query
  MaxAsked,        \* bound: queries a thread sends
  MaxConnections   \* connections MySQL accepts at a time

ASSUME ManagerAssumption ==
  /\ manager \in [Threads -> Managers]
  /\ \A q \in Queries : q.rows \in Seq(Int)
  /\ MaxAsked \in Nat /\ MaxConnections \in Nat

VARIABLES
  stmt,     \* member of each manager: the connection its statement is of
  res,      \* member of each manager: a result set and its cursor
  call,     \* the call of ExecuteQuery or ExecuteQueryInt a thread is in
  opened,   \* connections opened, numbered in that order; none is closed
  stopped   \* threads in system("pause"), after which the process exits

vars == <<stmt, res, call, opened, stopped>>

DBINTERROR == -1

NoQuery == [column |-> "none", rows |-> <<>>]
NoResult == [query |-> NoQuery, at |-> 0]
NoCall == [pc |-> "idle", query |-> NoQuery, int |-> FALSE, answer |-> <<>>, asked |-> 0,
           conn |-> 0]

ResultSet == [query : Queries \cup {NoQuery}, at : Nat]
Call == [pc : {"idle", "connect", "execute", "executing", "next", "get", "answered"},
         query : Queries \cup {NoQuery}, int : BOOLEAN, answer : Seq(Int), asked : 0..MaxAsked,
         conn : 0..MaxConnections]

Init ==
  /\ stmt = [m \in Managers |-> 0]
  /\ res = [m \in Managers |-> NoResult]
  /\ call = [t \in Threads |-> NoCall]
  /\ opened = 0
  /\ stopped = {}

At(t, pc) == call[t].pc = pc /\ t \notin stopped
Goto(t, pc) == call' = [call EXCEPT ![t].pc = pc]
Pause(t) == stopped' = stopped \cup {t} /\ UNCHANGED call

(* A thread calls ExecuteQuery, whose answer is the rows' values, or        *)
(* ExecuteQueryInt, whose answer is the last row's value or DBINTERROR.     *)
Ask(t, q, int) ==
  /\ call[t].pc \in {"idle", "answered"} /\ t \notin stopped
  /\ call[t].asked < MaxAsked
  /\ call' = [call EXCEPT ![t] = [NoCall EXCEPT !.pc = "connect", !.query = q, !.int = int,
                                                !.answer = IF int THEN <<DBINTERROR>> ELSE <<>>,
                                                !.asked = call[t].asked + 1]]
  /\ UNCHANGED <<stmt, res, opened, stopped>>

(* Refused, it throws: the thread waits for a key, then the process exits.  *)
Connect(t) ==
  /\ At(t, "connect")
  /\ IF opened < MaxConnections
     THEN /\ opened' = opened + 1
          /\ stmt' = [stmt EXCEPT ![manager[t]] = opened + 1]
          /\ Goto(t, "execute") /\ UNCHANGED stopped
     ELSE Pause(t) /\ UNCHANGED <<opened, stmt>>
  /\ UNCHANGED res

(* The statement object is whichever is in stmt now: on a connection that   *)
(* is in the middle of another thread's statement it throws.                *)
Execute(t) ==
  LET conn == stmt[manager[t]]
  IN  /\ At(t, "execute")
      /\ IF \E u \in Threads : call[u].pc = "executing" /\ call[u].conn = conn
         THEN Pause(t)
         ELSE /\ call' = [call EXCEPT ![t].pc = "executing", ![t].conn = conn]
              /\ UNCHANGED stopped
      /\ UNCHANGED <<stmt, res, opened>>

Executed(t) ==
  /\ At(t, "executing")
  /\ res' = [res EXCEPT ![manager[t]] = [query |-> call[t].query, at |-> 0]]
  /\ Goto(t, "next")
  /\ UNCHANGED <<stmt, opened, stopped>>

(* res->next(): whoever's result set res is now.                            *)
NextRow_Unmoved(t) ==
  LET r == res[manager[t]]
  IN  /\ At(t, "next")
      /\ IF r.at < Len(r.query.rows) THEN Goto(t, "get") ELSE Goto(t, "answered")
      /\ UNCHANGED <<stmt, res, opened, stopped>>
NextRow(t) ==
  LET r == res[manager[t]]
  IN  /\ At(t, "next")
      /\ IF r.at < Len(r.query.rows)
         THEN Goto(t, "get") /\ res' = [res EXCEPT ![manager[t]].at = @ + 1]
         ELSE Goto(t, "answered") /\ UNCHANGED res
      /\ UNCHANGED <<stmt, opened, stopped>>

(* res->getString(column), which throws before the first row and for a      *)
(* column the result set does not have.                                    *)
GetRow_Skip(t) ==
  /\ At(t, "get")
  /\ Goto(t, "next")
  /\ UNCHANGED <<stmt, res, opened, stopped>>
GetRow(t) ==
  LET r == res[manager[t]]
      row == <<r.query.rows[r.at]>>
  IN  /\ At(t, "get")
      /\ IF r.at > 0 /\ r.query.column = call[t].query.column
         THEN /\ call' = [call EXCEPT ![t].pc = "next",
                                      ![t].answer = IF call[t].int THEN row ELSE @ \o row]
              /\ UNCHANGED stopped
         ELSE Pause(t)
      /\ UNCHANGED <<stmt, res, opened>>

Next == \E t \in Threads :
  \/ \E q \in Queries, int \in BOOLEAN : Ask(t, q, int)
  \/ Connect(t) \/ Execute(t) \/ Executed(t) \/ NextRow(t) \/ GetRow(t)

Spec == Init /\ [][Next]_vars

-----------------------------------------------------------------------------
TypeOK ==
  /\ stmt \in [Managers -> 0..MaxConnections]
  /\ res \in [Managers -> ResultSet]
  /\ call \in [Threads -> Call]
  /\ opened \in 0..MaxConnections
  /\ stopped \subseteq Threads

Answer(q, int) ==
  IF ~int THEN q.rows
  ELSE IF q.rows = <<>> THEN <<DBINTERROR>> ELSE <<q.rows[Len(q.rows)]>>

(* A call returns the answer to its own question, whatever other threads    *)
(* ask meanwhile, though statement and result set are members               *)
(* (dbmanager.cpp:75-78, 107-110).  It holds if no two threads share a      *)
(* manager.                                                                *)
AnswersOwnQuestion == \A t \in Threads : call[t].pc = "answered" =>
  call[t].answer = Answer(call[t].query, call[t].int)

(* A statement that MySQL would answer throws only for want of a            *)
(* connection: never because another thread took its statement or its       *)
(* result set away (dbmanager.cpp:85-94).                                  *)
ThrowsOnlyIfRefused == \A t \in stopped : call[t].pc = "connect"

(* "check if username and password exist together" (clienthandler.cpp:218): *)
(* what a login is told is what the database says to its question.          *)
LoginToldTheTruth == AnswersOwnQuestion
=============================================================================
