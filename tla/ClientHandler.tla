---------------------------- MODULE ClientHandler ----------------------------
(***************************************************************************)
(* The client handler's threads (class clienthandler, clienthandler.cpp):   *)
(* the accept loop, the members client, clientAddr and ssl through which it *)
(* hands a connection to the connection's thread, and the vector            *)
(* clientlist, which the loop appends to and every ending thread erases     *)
(* from, without a lock.  Once a thread is in its loop over the vector while *)
(* another is between the two halves of push_back or erase, the behaviour   *)
(* is undefined: here the vector is torn, what a loop finds in it is        *)
(* anything, and the process may end; memory beside it is left alone.  What *)
(* a thread does with its connection is in Login and Session.               *)
(*                                                                         *)
(* Connections are numbered in the order they are accepted; the number      *)
(* stands for the connection's socket, its address and its SSL object, and  *)
(* 0 for what was never assigned.                                          *)
(***************************************************************************)
EXTENDS Integers, FiniteSets

CONSTANTS
  MaxConns,  \* bound: connections accepted
  Timely     \* whether a new thread copies the members within SleepEx(250)

ASSUME HandlerAssumption ==
  /\ MaxConns \in Nat
  /\ Timely \in BOOLEAN

VARIABLES
  up,          \* the process is running
  loop,        \* the accept loop: the statement that comes next
  accepted,    \* connections accepted so far
  client, clientAddr, ssl,  \* the members
  list, size,  \* clientlist: its buffer, and where its end pointer points
  torn,        \* the vector was written beside another access to it
  thread,      \* the thread launched for each connection
  freed        \* connections whose SSL object was freed

memberVars == <<client, clientAddr, ssl>>
listVars == <<list, size>>
vars == <<up, loop, accepted, memberVars, listVars, torn, thread, freed>>

Conns == 1..MaxConns

(* addr, ssl and client are the thread's copies; i is its index into        *)
(* clientlist; err is the connection whose state SSL_get_error was asked.   *)
NoThread == [pc |-> "none", addr |-> 0, ssl |-> 0, client |-> 0, i |-> 1, throws |-> FALSE,
             err |-> 0]

Thread == [pc : {"none", "copyAddr", "copySsl", "copyClient", "serve", "scan", "shrink",
                 "close", "closed"},
           addr : 0..MaxConns, ssl : 0..MaxConns, client : 0..MaxConns,
           i : 1..(MaxConns + 1), throws : BOOLEAN, err : 0..MaxConns]

Init ==
  /\ up = TRUE /\ loop = "context" /\ accepted = 0
  /\ client = 0 /\ clientAddr = 0 /\ ssl = 0
  /\ list = [i \in Conns |-> 0] /\ size = 0 /\ torn = FALSE
  /\ thread = [k \in Conns |-> NoThread]
  /\ freed = {}

At(k, pc) == thread[k].pc = pc
Goto(k, pc) == thread' = [thread EXCEPT ![k].pc = pc]

(* The thread is in its loop over clientlist.                               *)
AtList(k) == thread[k].pc \in {"scan", "shrink"}

(* A push_back or an erase is under way while a thread is in its loop.      *)
ListRace ==
  \/ loop = "grow" /\ \E k \in Conns : AtList(k)
  \/ \E j, k \in Conns : j # k /\ At(j, "shrink") /\ AtList(k)

-----------------------------------------------------------------------------
(* The accept loop *)

(* create_context and configure_context: without a context, a certificate   *)
(* and a key the process ends.                                              *)
CreateContext ==
  /\ loop = "context"
  /\ loop' = "socket"
  /\ UNCHANGED <<up, accepted, memberVars, listVars, thread, freed>>

(* create_socket: socket, bind and listen, or the process ends.             *)
CreateSocket ==
  /\ loop = "socket"
  /\ loop' = "accept"
  /\ UNCHANGED <<up, accepted, memberVars, listVars, thread, freed>>

Accept ==
  /\ loop = "accept"
  /\ accepted < MaxConns
  /\ accepted' = accepted + 1
  /\ client' = accepted + 1
  /\ loop' = "setAddr"
  /\ UNCHANGED <<up, clientAddr, ssl, listVars, thread, freed>>

SetAddr ==
  /\ loop = "setAddr"
  /\ clientAddr' = accepted
  /\ loop' = "setSsl"
  /\ UNCHANGED <<up, accepted, client, ssl, listVars, thread, freed>>

SetSsl ==
  /\ loop = "setSsl"
  /\ ssl' = accepted
  /\ loop' = "push"
  /\ UNCHANGED <<up, accepted, client, clientAddr, listVars, thread, freed>>

(* push_back writes the new element behind the last ...                     *)
Push ==
  /\ loop = "push"
  /\ list' = IF torn THEN list ELSE [list EXCEPT ![size + 1] = ssl]
  /\ loop' = "grow"
  /\ UNCHANGED <<up, accepted, memberVars, size, thread, freed>>

(* ... and moves the end pointer.                                           *)
Grow_Twice ==
  /\ loop = "grow"
  /\ size' = IF torn THEN size ELSE size + 2
  /\ loop' = "launch"
  /\ UNCHANGED <<up, accepted, memberVars, list, thread, freed>>
Grow ==
  /\ loop = "grow"
  /\ size' = IF torn THEN size ELSE size + 1
  /\ loop' = "launch"
  /\ UNCHANGED <<up, accepted, memberVars, list, thread, freed>>

Launch ==
  /\ loop = "launch"
  /\ Goto(accepted, "copyAddr")
  /\ loop' = "sleep"
  /\ UNCHANGED <<up, accepted, memberVars, listVars, freed>>

(* SleepEx(250) is over.                                                    *)
Slept_Early == TRUE
Slept == Timely => \A k \in Conns : thread[k].pc \notin {"copyAddr", "copySsl", "copyClient"}

Sleep ==
  /\ loop = "sleep"
  /\ Slept
  /\ loop' = "accept"
  /\ UNCHANGED <<up, accepted, memberVars, listVars, thread, freed>>

AcceptLoop ==
  \/ CreateContext \/ CreateSocket
  \/ Accept \/ SetAddr \/ SetSsl \/ Push \/ Grow \/ Launch \/ Sleep

-----------------------------------------------------------------------------
(* handleConnection *)

CopyAddr(k) ==
  /\ At(k, "copyAddr")
  /\ thread' = [thread EXCEPT ![k].pc = "copySsl", ![k].addr = clientAddr]
  /\ UNCHANGED <<up, loop, accepted, memberVars, listVars, freed>>

CopySsl(k) ==
  /\ At(k, "copySsl")
  /\ thread' = [thread EXCEPT ![k].pc = "copyClient", ![k].ssl = ssl]
  /\ UNCHANGED <<up, loop, accepted, memberVars, listVars, freed>>

CopyClient(k) ==
  /\ At(k, "copyClient")
  /\ thread' = [thread EXCEPT ![k].pc = "serve", ![k].client = client]
  /\ UNCHANGED <<up, loop, accepted, memberVars, listVars, freed>>

(* The read fails, or a ping is answered wrongly: SSL_get_error is asked of *)
(* the member ssl, not of the thread's copy.                                *)
ConnectionEnds(k) ==
  /\ At(k, "serve")
  /\ thread' = [thread EXCEPT ![k].pc = "scan", ![k].err = ssl]
  /\ UNCHANGED <<up, loop, accepted, memberVars, listVars, freed>>

(* Something throws: catch (...).                                           *)
ConnectionThrows(k) ==
  /\ At(k, "serve")
  /\ thread' = [thread EXCEPT ![k].pc = "scan", ![k].throws = TRUE]
  /\ UNCHANGED <<up, loop, accepted, memberVars, listVars, freed>>

(* One turn of the loop over clientlist: erase moves the elements behind    *)
(* the one found forward ...                                               *)
Scan(k) ==
  LET i == thread[k].i
  IN  /\ At(k, "scan")
      /\ \/ torn /\ (\E pc \in {"scan", "close"} : Goto(k, pc)) /\ UNCHANGED list
         \/ ~torn /\ i > size /\ Goto(k, "close") /\ UNCHANGED list
         \/ /\ ~torn /\ i <= size
            /\ list[i] # thread[k].ssl
            /\ thread' = [thread EXCEPT ![k].i = i + 1]
            /\ UNCHANGED list
         \/ /\ ~torn /\ i <= size
            /\ list[i] = thread[k].ssl
            /\ list' = [j \in Conns |-> IF j \in i..(size - 1) THEN list[j + 1] ELSE list[j]]
            /\ Goto(k, "shrink")
      /\ UNCHANGED <<up, loop, accepted, memberVars, size, freed>>

(* ... and moves the end pointer back.                                      *)
Shrink(k) ==
  /\ At(k, "shrink")
  /\ size' = IF torn THEN size ELSE size - 1
  /\ thread' = [thread EXCEPT ![k].pc = "scan", ![k].i = @ + 1]
  /\ UNCHANGED <<up, loop, accepted, memberVars, list, freed>>

(* closesocket; only the catch (...) frees the SSL object.                  *)
CloseSocket(k) ==
  /\ At(k, "close")
  /\ Goto(k, "closed")
  /\ freed' = IF thread[k].throws THEN freed \cup {thread[k].ssl} ELSE freed
  /\ UNCHANGED <<up, loop, accepted, memberVars, listVars>>

HandleConnection(k) ==
  \/ CopyAddr(k) \/ CopySsl(k) \/ CopyClient(k)
  \/ ConnectionEnds(k) \/ ConnectionThrows(k)
  \/ Scan(k) \/ Shrink(k) \/ CloseSocket(k)

-----------------------------------------------------------------------------
(* The process ends: a call of the set-up or accept fails; a query of a     *)
(* thread's throws (manager exits), or its SSL_get_error is asked of a      *)
(* freed object; or the vector is torn.                                     *)
Exit ==
  /\ loop \in {"context", "socket", "accept"} \/ (\E k \in Conns : At(k, "serve")) \/ torn
  /\ up' = FALSE
  /\ UNCHANGED <<loop, accepted, memberVars, listVars, thread, freed>>

Next ==
  /\ up
  /\ AcceptLoop \/ (\E k \in Conns : HandleConnection(k)) \/ Exit
  /\ torn' = (torn \/ ListRace')

Spec == Init /\ [][Next]_vars

-----------------------------------------------------------------------------
TypeOK ==
  /\ up \in BOOLEAN
  /\ loop \in {"context", "socket", "accept", "setAddr", "setSsl", "push", "grow", "launch",
               "sleep"}
  /\ accepted \in 0..MaxConns
  /\ client \in 0..MaxConns /\ clientAddr \in 0..MaxConns /\ ssl \in 0..MaxConns
  /\ list \in [Conns -> 0..MaxConns]
  /\ size \in 0..MaxConns /\ torn \in BOOLEAN
  /\ thread \in [Conns -> Thread]
  /\ freed \subseteq 0..MaxConns

Serving(k) == thread[k].pc \in {"serve", "scan", "shrink", "close", "closed"}

(* The thread launched for a connection serves that connection, with its    *)
(* address, its SSL object and its socket, though it takes them from        *)
(* members that the accept loop goes on writing (clienthandler.cpp:150-152, *)
(* 56-59): "launch new thread to handle connection".                        *)
OneHandlerPerConnection == \A k \in Conns : Serving(k) =>
  thread[k].addr = k /\ thread[k].ssl = k /\ thread[k].client = k

-----------------------------------------------------------------------------
(* What the log says *)

Listed == {list[i] : i \in 1..size}

(* Connections appended whose threads have not ended.                       *)
Connected == {k \in 1..accepted : thread[k].pc \notin {"close", "closed"}}

(* "connected users" (clienthandler.cpp:265): whenever nobody is at         *)
(* clientlist it is whole, and holds the connections whose threads have not *)
(* ended, each once.                                                        *)
ListIsConnected ==
  loop \in {"launch", "sleep", "accept"} /\ (\A k \in Conns : ~AtList(k)) =>
    ~torn /\ Listed = Connected /\ size = Cardinality(Connected)

(* The state a thread logs with "closed connection" is its connection's     *)
(* (clienthandler.cpp:183-190, 274-280).                                    *)
LoggedStateIsOwn == \A k \in Conns :
  thread[k].pc \in {"close", "closed"} /\ ~thread[k].throws => thread[k].err = thread[k].ssl
=============================================================================
