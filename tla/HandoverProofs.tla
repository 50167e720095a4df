---------------------------- MODULE HandoverProofs ----------------------------
(***************************************************************************)
(* For any number of connections: the types, whatever two threads do to the *)
(* vector clientlist at a time; and as long as a new thread copies the      *)
(* members before the accept loop's SleepEx(250) is over (Timely), every    *)
(* connection is served by the thread launched for it, whatever becomes of  *)
(* clientlist.                                                              *)
(***************************************************************************)
EXTENDS ClientHandler, TLAPS

(* The thread records; the index into clientlist is bounded by its size     *)
(* only, which plays no part here.                                          *)
ThreadRec == [pc : {"none", "copyAddr", "copySsl", "copyClient", "serve", "scan", "shrink",
                    "close", "closed"},
              addr : 0..MaxConns, ssl : 0..MaxConns, client : 0..MaxConns,
              i : Nat, throws : BOOLEAN, err : 0..MaxConns]

Types ==
  /\ loop \in {"context", "socket", "accept", "setAddr", "setSsl", "push", "grow", "launch",
               "sleep"}
  /\ accepted \in 0..MaxConns
  /\ client \in 0..MaxConns /\ clientAddr \in 0..MaxConns /\ ssl \in 0..MaxConns
  /\ thread \in [Conns -> ThreadRec]

Copying(k) == thread[k].pc \in {"copyAddr", "copySsl", "copyClient"}

(* From accept to the launch the members become the new connection's.       *)
MembersInv ==
  /\ loop \notin {"context", "socket", "accept"} => client = accepted /\ accepted > 0
  /\ loop \notin {"context", "socket", "accept", "setAddr"} => clientAddr = accepted
  /\ loop \notin {"context", "socket", "accept", "setAddr", "setSsl"} => ssl = accepted

(* A thread only copies while the loop sleeps, and then it is the newest.   *)
CopyInv == \A k \in Conns :
  /\ Copying(k) => loop = "sleep" /\ k = accepted
  /\ thread[k].pc \in {"copySsl", "copyClient"} => thread[k].addr = k
  /\ thread[k].pc = "copyClient" => thread[k].ssl = k

HandoverInv == Types /\ MembersInv /\ CopyInv /\ OneHandlerPerConnection

(* Steps of a thread that touch neither its copies nor another thread.      *)
LEMMA KeepsCopies ==
  ASSUME HandoverInv, NEW k \in Conns, Serving(k),
         thread' \in [Conns -> ThreadRec],
         \A j \in Conns \ {k} : thread'[j] = thread[j],
         thread'[k].pc \in {"scan", "shrink", "close", "closed"},
         thread'[k].addr = thread[k].addr, thread'[k].ssl = thread[k].ssl,
         thread'[k].client = thread[k].client,
         UNCHANGED <<loop, accepted, memberVars>>
  PROVE  HandoverInv'
BY DEF HandoverInv, Types, MembersInv, CopyInv, Copying, OneHandlerPerConnection, Serving,
       memberVars

LEMMA InitHandover == Init => HandoverInv
BY HandlerAssumption
   DEF Init, HandoverInv, Types, MembersInv, CopyInv, Copying, OneHandlerPerConnection, Serving,
       NoThread, ThreadRec, Conns

(* The accept loop.                                                         *)
LEMMA LoopHandover ==
  ASSUME Timely, HandoverInv, AcceptLoop
  PROVE  HandoverInv'
<1>0. thread \in [Conns -> ThreadRec] BY DEF HandoverInv, Types
<1> USE HandlerAssumption
    DEF HandoverInv, Types, MembersInv, CopyInv, Copying, OneHandlerPerConnection, Serving,
        memberVars, listVars, Conns
<1>1. CASE CreateContext BY <1>1 DEF CreateContext
<1>2. CASE CreateSocket BY <1>2 DEF CreateSocket
<1>3. CASE Accept BY <1>3 DEF Accept
<1>4. CASE SetAddr BY <1>4 DEF SetAddr
<1>5. CASE SetSsl BY <1>5 DEF SetSsl
<1>6. CASE Push BY <1>6 DEF Push
<1>7. CASE Grow BY <1>7 DEF Grow
<1>8. CASE Launch
  <2>1. thread' = [thread EXCEPT ![accepted].pc = "copyAddr"] /\ accepted \in Conns
        /\ loop = "launch" /\ loop' = "sleep" /\ UNCHANGED <<accepted, memberVars>>
    BY <1>8 DEF Launch, Goto
  <2>2. thread' \in [Conns -> ThreadRec] BY ONLY <1>0, <2>1 DEF ThreadRec
  <2>3. thread'[accepted].pc = "copyAddr" /\ \A k \in Conns \ {accepted} : thread'[k] = thread[k]
    BY <2>1 DEF ThreadRec
  <2> QED BY <2>1, <2>2, <2>3
<1>9. CASE Sleep
  <2>1. \A k \in Conns : ~Copying(k) BY <1>9 DEF Sleep, Slept
  <2> QED BY <1>9, <2>1 DEF Sleep
<1> QED BY <1>1, <1>2, <1>3, <1>4, <1>5, <1>6, <1>7, <1>8, <1>9 DEF AcceptLoop

(* A thread that copies copies what the loop has left for it.               *)
LEMMA CopyHandover ==
  ASSUME HandoverInv, NEW k \in Conns, CopyAddr(k) \/ CopySsl(k) \/ CopyClient(k)
  PROVE  HandoverInv'
<1>0. /\ thread \in [Conns -> ThreadRec] /\ k \in Conns
      /\ client \in 0..MaxConns /\ clientAddr \in 0..MaxConns /\ ssl \in 0..MaxConns
  BY DEF HandoverInv, Types
<1> USE DEF HandoverInv, Types, MembersInv, CopyInv, Copying, OneHandlerPerConnection, Serving,
            memberVars, listVars, At
<1>1. Copying(k) /\ loop = "sleep" /\ k = accepted
      /\ client = k /\ clientAddr = k /\ ssl = k
      /\ UNCHANGED <<loop, accepted, memberVars>>
  BY DEF CopyAddr, CopySsl, CopyClient
<1>2. CASE CopyAddr(k)
  <2>1. thread' = [thread EXCEPT ![k] = [@ EXCEPT !.pc = "copySsl", !.addr = clientAddr]]
    BY <1>2 DEF CopyAddr
  <2>2. thread' \in [Conns -> ThreadRec] BY ONLY <1>0, <2>1 DEF ThreadRec
  <2>3. thread'[k].pc = "copySsl" /\ thread'[k].addr = k
        /\ \A j \in Conns \ {k} : thread'[j] = thread[j]
    BY <1>1, <2>1 DEF ThreadRec
  <2> QED BY <1>1, <2>2, <2>3
<1>3. CASE CopySsl(k)
  <2>1. thread' = [thread EXCEPT ![k] = [@ EXCEPT !.pc = "copyClient", !.ssl = ssl]]
    BY <1>3 DEF CopySsl
  <2>2. thread' \in [Conns -> ThreadRec] BY ONLY <1>0, <2>1 DEF ThreadRec
  <2>3. thread'[k].pc = "copyClient" /\ thread'[k].ssl = k /\ thread'[k].addr = k
        /\ \A j \in Conns \ {k} : thread'[j] = thread[j]
    BY <1>1, <1>3, <2>1 DEF ThreadRec, CopySsl
  <2> QED BY <1>1, <2>2, <2>3
<1>4. CASE CopyClient(k)
  <2>1. thread' = [thread EXCEPT ![k] = [@ EXCEPT !.pc = "serve", !.client = client]]
    BY <1>4 DEF CopyClient
  <2>2. thread' \in [Conns -> ThreadRec] BY ONLY <1>0, <2>1 DEF ThreadRec
  <2>3. thread'[k].pc = "serve" /\ thread'[k].client = k /\ thread'[k].ssl = k
        /\ thread'[k].addr = k /\ \A j \in Conns \ {k} : thread'[j] = thread[j]
    BY <1>1, <1>4, <2>1 DEF ThreadRec, CopyClient
  <2> QED BY <1>1, <2>2, <2>3
<1> QED BY <1>2, <1>3, <1>4

(* The rest of handleConnection leaves the copies alone.                    *)
LEMMA ServeHandover ==
  ASSUME HandoverInv, NEW k \in Conns,
         \/ ConnectionEnds(k) \/ ConnectionThrows(k) \/ Scan(k) \/ Shrink(k) \/ CloseSocket(k)
  PROVE  HandoverInv'
<1> USE DEF At
<1>0. thread \in [Conns -> ThreadRec] /\ ssl \in 0..MaxConns /\ k \in Conns
  BY DEF HandoverInv, Types
<1>1. CASE ConnectionEnds(k)
  <2>1. thread' = [thread EXCEPT ![k] = [@ EXCEPT !.pc = "scan", !.err = ssl]]
        /\ Serving(k) /\ UNCHANGED <<loop, accepted, memberVars>>
    BY <1>1 DEF ConnectionEnds, Serving
  <2> QED BY <1>0, <2>1, KeepsCopies DEF ThreadRec
<1>2. CASE ConnectionThrows(k)
  <2>1. thread' = [thread EXCEPT ![k] = [@ EXCEPT !.pc = "scan", !.throws = TRUE]]
        /\ Serving(k) /\ UNCHANGED <<loop, accepted, memberVars>>
    BY <1>2 DEF ConnectionThrows, Serving
  <2> QED BY <1>0, <2>1, KeepsCopies DEF ThreadRec
<1>3. CASE Scan(k)
  <2>1. Serving(k) /\ UNCHANGED <<loop, accepted, memberVars>>
    BY <1>3 DEF Scan, Serving
  <2>2. CASE thread' = [thread EXCEPT ![k].pc = "close"]
    BY <1>0, <2>1, <2>2, KeepsCopies DEF ThreadRec
  <2>3. CASE thread' = [thread EXCEPT ![k].i = thread[k].i + 1]
    BY <1>0, <1>3, <2>1, <2>3, KeepsCopies DEF ThreadRec, Scan
  <2>4. CASE thread' = [thread EXCEPT ![k].pc = "shrink"]
    BY <1>0, <2>1, <2>4, KeepsCopies DEF ThreadRec
  <2>5. CASE thread' = [thread EXCEPT ![k].pc = "scan"]
    BY <1>0, <2>1, <2>5, KeepsCopies DEF ThreadRec
  <2> QED BY <1>3, <2>2, <2>3, <2>4, <2>5 DEF Scan, Goto
<1>4. CASE Shrink(k)
  <2>1. Serving(k) /\ UNCHANGED <<loop, accepted, memberVars>>
    BY <1>4 DEF Shrink, Serving
  <2>2. thread' = [thread EXCEPT ![k].pc = "scan", ![k].i = @ + 1]
    BY <1>4 DEF Shrink
  <2>3. thread' = [thread EXCEPT ![k] = [@ EXCEPT !.pc = "scan", !.i = thread[k].i + 1]]
    BY <1>0, <2>2 DEF ThreadRec
  <2>4. thread' \in [Conns -> ThreadRec]
    <3>1. thread[k] \in ThreadRec /\ thread[k].i + 1 \in Nat BY <1>0 DEF ThreadRec
    <3>2. [thread[k] EXCEPT !.pc = "scan", !.i = thread[k].i + 1] \in ThreadRec
      BY ONLY <3>1 DEF ThreadRec
    <3> QED BY ONLY <1>0, <2>3, <3>2
  <2>5. /\ \A j \in Conns \ {k} : thread'[j] = thread[j]
        /\ thread'[k].pc = "scan" /\ thread'[k].addr = thread[k].addr
        /\ thread'[k].ssl = thread[k].ssl /\ thread'[k].client = thread[k].client
    BY ONLY <1>0, <2>3 DEF ThreadRec
  <2> QED BY <2>1, <2>4, <2>5, KeepsCopies
<1>5. CASE CloseSocket(k)
  <2>1. thread' = [thread EXCEPT ![k].pc = "closed"]
        /\ Serving(k) /\ UNCHANGED <<loop, accepted, memberVars>>
    BY <1>5 DEF CloseSocket, Serving, Goto
  <2> QED BY <1>0, <2>1, KeepsCopies DEF ThreadRec
<1> QED BY <1>1, <1>2, <1>3, <1>4, <1>5

LEMMA HandoverInvariance == Timely => (Spec => []HandoverInv)
<1> SUFFICES ASSUME Timely PROVE Spec => []HandoverInv OBVIOUS
<1>1. Init => HandoverInv BY InitHandover
<1>2. HandoverInv /\ [Next]_vars => HandoverInv'
  <2> SUFFICES ASSUME HandoverInv, [Next]_vars PROVE HandoverInv' OBVIOUS
  <2>1. CASE AcceptLoop BY <2>1, LoopHandover
  <2>2. ASSUME NEW k \in Conns, HandleConnection(k) PROVE HandoverInv'
    BY <2>2, CopyHandover, ServeHandover DEF HandleConnection
  <2>3. CASE Exit
    BY <2>3 DEF Exit, HandoverInv, Types, MembersInv, CopyInv, Copying,
                OneHandlerPerConnection, Serving, memberVars
  <2>4. CASE UNCHANGED vars
    BY <2>4 DEF vars, HandoverInv, Types, MembersInv, CopyInv, Copying,
                OneHandlerPerConnection, Serving, memberVars
  <2> QED BY <2>1, <2>2, <2>3, <2>4 DEF Next
<1> QED BY <1>1, <1>2, PTL DEF Spec

(* Every connection is served by the thread launched for it, with its own   *)
(* address, SSL object and socket (clienthandler.cpp:53-59, 150-152), if    *)
(* the threads are timely.                                                 *)
THEOREM HandedOver == Timely => (Spec => []OneHandlerPerConnection)
<1> SUFFICES ASSUME Timely PROVE Spec => []OneHandlerPerConnection OBVIOUS
<1>1. HandoverInv => OneHandlerPerConnection BY DEF HandoverInv
<1> QED BY <1>1, HandoverInvariance, PTL

-----------------------------------------------------------------------------
(* The types, of which the bounds of clientlist need an argument: as long   *)
(* as the vector is whole it is not longer than the number of push_backs,   *)
(* and an erase found an element in it.                                     *)

Pushes == IF loop \in {"setAddr", "setSsl", "push", "grow"} THEN accepted - 1 ELSE accepted

SizeInv ==
  /\ TypeOK
  /\ loop \notin {"context", "socket", "accept"} => accepted > 0
  /\ size <= Pushes
  /\ \A k \in Conns : At(k, "shrink") => thread[k].i <= MaxConns
  /\ ~torn => ~ListRace /\ \A k \in Conns : At(k, "shrink") => size >= 1

TypeFacts ==
  /\ MaxConns \in Nat /\ Conns = 1..MaxConns
  /\ accepted \in 0..MaxConns /\ size \in 0..MaxConns
  /\ client \in 0..MaxConns /\ clientAddr \in 0..MaxConns /\ ssl \in 0..MaxConns
  /\ list \in [Conns -> 0..MaxConns] /\ thread \in [Conns -> Thread] /\ freed \subseteq 0..MaxConns

LEMMA SizeFacts == SizeInv => TypeFacts
BY HandlerAssumption DEF SizeInv, TypeOK, TypeFacts, Conns

LEMMA InitSize == Init => SizeInv
<1> SUFFICES ASSUME Init PROVE SizeInv OBVIOUS
<1>1. NoThread \in Thread BY HandlerAssumption DEF NoThread, Thread
<1>2. \A k \in Conns : thread[k].pc = "none" BY DEF Init, NoThread
<1>3. TypeOK
  <2>1. MaxConns \in Nat BY HandlerAssumption DEF HandlerAssumption
  <2>2. list \in [Conns -> 0..MaxConns] BY <2>1 DEF Init
  <2>3. thread \in [Conns -> Thread] BY <1>1 DEF Init
  <2>4. up \in BOOLEAN /\ torn \in BOOLEAN BY DEF Init
  <2> QED BY <2>1, <2>2, <2>3, <2>4 DEF Init, TypeOK
<1> QED BY <1>2, <1>3 DEF SizeInv, Init, Pushes, At, AtList, ListRace

(* The accept loop.                                                         *)
LEMMA LoopSize ==
  ASSUME SizeInv, AcceptLoop, torn' = (torn \/ ListRace')
  PROVE  SizeInv'
<1>0. TypeFacts /\ torn \in BOOLEAN BY SizeFacts DEF SizeInv, TypeOK
<1>1. CASE Launch
  <2>1. /\ thread' = [thread EXCEPT ![accepted].pc = "copyAddr"] /\ accepted \in Conns
        /\ loop = "launch" /\ loop' = "sleep"
        /\ UNCHANGED <<up, accepted, memberVars, listVars, freed>>
    BY <1>0, <1>1 DEF Launch, Goto, SizeInv, TypeFacts
  <2>2. /\ thread' \in [Conns -> Thread] /\ thread'[accepted].pc = "copyAddr"
        /\ \A k \in Conns \ {accepted} : thread'[k] = thread[k]
    <3>1. thread \in [Conns -> Thread] BY <1>0 DEF TypeFacts
    <3> QED BY ONLY <2>1, <3>1 DEF Thread
  <2>3. \A k \in Conns : (AtList(k)' => AtList(k)) /\ (At(k, "shrink")' => At(k, "shrink"))
    BY <2>2 DEF AtList, At
  <2>4. TypeOK' BY <1>0, <2>1, <2>2 DEF SizeInv, TypeOK, memberVars, listVars
  <2>5. ~torn' => ~ListRace' /\ \A k \in Conns : At(k, "shrink")' => size' >= 1
    BY <1>0, <2>1, <2>3 DEF SizeInv, listVars
  <2>6. \A k \in Conns : At(k, "shrink")' => thread'[k].i <= MaxConns
    BY <2>2 DEF SizeInv, At
  <2> QED BY <2>1, <2>4, <2>5, <2>6 DEF SizeInv, Pushes, listVars
<1>2. CASE ~Launch
  <2>1. UNCHANGED <<up, thread, freed>>
        /\ \/ CreateContext \/ CreateSocket \/ Accept \/ SetAddr \/ SetSsl \/ Push \/ Grow \/ Sleep
    BY <1>2 DEF AcceptLoop, CreateContext, CreateSocket, Accept, SetAddr, SetSsl, Push, Grow, Sleep
  <2>2. /\ loop' \in {"socket", "accept", "setAddr", "setSsl", "push", "grow", "launch"}
        /\ accepted' \in 0..MaxConns
        /\ client' \in 0..MaxConns /\ clientAddr' \in 0..MaxConns /\ ssl' \in 0..MaxConns
        /\ loop' \notin {"context", "socket", "accept"} => accepted' > 0
    BY <1>0, <2>1 DEF SizeInv, TypeFacts, memberVars, CreateContext, CreateSocket, Accept, SetAddr,
                      SetSsl, Push, Grow, Sleep
  <2>3. /\ list' \in [Conns -> 0..MaxConns] /\ size' \in 0..MaxConns /\ size' >= size
        /\ size' <= Pushes'
    <3>1. CASE Grow BY <1>0, <3>1 DEF Grow, SizeInv, TypeFacts, Pushes
    <3>2. CASE Push BY <1>0, <3>2 DEF Push, SizeInv, TypeFacts, Pushes, memberVars
    <3>3. CASE Accept BY <1>0, <3>3 DEF Accept, SizeInv, TypeFacts, Pushes, listVars
    <3>4. CASE CreateContext \/ CreateSocket \/ SetAddr \/ SetSsl \/ Sleep
      BY <1>0, <3>4 DEF CreateContext, CreateSocket, SetAddr, SetSsl, Sleep, SizeInv, TypeFacts,
                        Pushes, listVars
    <3> QED BY <2>1, <3>1, <3>2, <3>3, <3>4
  <2>4. TypeOK' BY <1>0, <2>1, <2>2, <2>3 DEF SizeInv, TypeOK
  <2>5. \A k \in Conns : At(k, "shrink")' <=> At(k, "shrink") BY <2>1 DEF At
  <2>6. \A k \in Conns : At(k, "shrink")' => thread'[k].i <= MaxConns
    BY <2>1, <2>5 DEF SizeInv
  <2>7. ~torn' => ~ListRace' /\ \A k \in Conns : At(k, "shrink")' => size' >= 1
    <3>1. ~torn' => ~torn /\ ~ListRace' BY <1>0
    <3>2. ~torn => \A k \in Conns : At(k, "shrink") => size >= 1 BY DEF SizeInv
    <3>3. size >= 1 => size' >= 1 BY <1>0, <2>3 DEF TypeFacts
    <3> QED BY <2>5, <3>1, <3>2, <3>3
  <2> QED BY <2>2, <2>3, <2>4, <2>6, <2>7 DEF SizeInv
<1> QED BY <1>1, <1>2

(* A thread k whose record becomes r, with size changed by an erase only.   *)
LEMMA ThreadSize ==
  ASSUME SizeInv, NEW k \in Conns, NEW r \in Thread, torn' = (torn \/ ListRace'),
         thread' = [thread EXCEPT ![k] = r],
         UNCHANGED <<up, loop, accepted, memberVars>>,
         list' \in [Conns -> 0..MaxConns], freed' \subseteq 0..MaxConns,
         \/ UNCHANGED size
         \/ size' = size - 1 /\ ~torn /\ At(k, "shrink") /\ r.pc # "shrink",
         r.pc = "shrink" => r.i <= MaxConns /\ (~torn => size >= 1)
  PROVE  SizeInv'
<1>0. TypeFacts /\ torn \in BOOLEAN BY SizeFacts DEF SizeInv, TypeOK
<1>1. /\ thread' \in [Conns -> Thread] /\ thread'[k] = r
      /\ \A j \in Conns \ {k} : thread'[j] = thread[j]
  BY <1>0 DEF TypeFacts
<1>2. size' \in 0..MaxConns /\ size' <= size
  <2>1. size' = size - 1 => size >= 1 BY DEF SizeInv
  <2> QED BY <1>0, <2>1 DEF TypeFacts
<1>3. TypeOK' BY <1>0, <1>1, <1>2 DEF SizeInv, TypeOK, memberVars
<1>4. size' <= Pushes' BY <1>0, <1>2 DEF SizeInv, TypeFacts, Pushes
<1>5. \A j \in Conns : At(j, "shrink")' => thread'[j].i <= MaxConns
  BY <1>1 DEF SizeInv, At
<1>6. ASSUME ~torn', NEW j \in Conns, At(j, "shrink")' PROVE size' >= 1
  <2>1. CASE UNCHANGED size BY <1>0, <1>1, <1>6, <2>1 DEF SizeInv, At
  <2>2. CASE size' = size - 1 /\ ~torn /\ At(k, "shrink") /\ r.pc # "shrink"
    <3>1. j # k /\ At(j, "shrink") BY <1>1, <1>6, <2>2 DEF At
    <3>2. ListRace BY <2>2, <3>1 DEF ListRace, AtList, At
    <3> QED BY <2>2, <3>2 DEF SizeInv
  <2> QED BY <2>1, <2>2
<1>7. ~torn' => ~ListRace' BY <1>0
<1> QED BY <1>3, <1>4, <1>5, <1>6, <1>7 DEF SizeInv

(* A connection's thread.                                                   *)
LEMMA HandleSize ==
  ASSUME SizeInv, NEW k \in Conns, HandleConnection(k), torn' = (torn \/ ListRace')
  PROVE  SizeInv'
<1> DEFINE t == thread[k]
<1>0. /\ TypeFacts /\ t \in Thread /\ thread \in [Conns -> Thread]
      /\ ssl \in 0..MaxConns /\ client \in 0..MaxConns /\ clientAddr \in 0..MaxConns
      /\ list \in [Conns -> 0..MaxConns] /\ freed \subseteq 0..MaxConns /\ torn \in BOOLEAN
      /\ MaxConns \in Nat
  BY SizeFacts DEF TypeFacts, SizeInv, TypeOK
<1>1. CASE CopyAddr(k)
  <2>1. thread' = [thread EXCEPT ![k] = [t EXCEPT !.pc = "copySsl", !.addr = clientAddr]]
        /\ UNCHANGED <<up, loop, accepted, memberVars, listVars, freed>>
    BY <1>1 DEF CopyAddr
  <2>2. [t EXCEPT !.pc = "copySsl", !.addr = clientAddr] \in Thread BY <1>0 DEF Thread
  <2>3. [t EXCEPT !.pc = "copySsl", !.addr = clientAddr].pc = "copySsl" BY <1>0 DEF Thread
  <2> QED BY <1>0, <2>1, <2>2, <2>3, ThreadSize DEF listVars
<1>2. CASE CopySsl(k)
  <2>1. thread' = [thread EXCEPT ![k] = [t EXCEPT !.pc = "copyClient", !.ssl = ssl]]
        /\ UNCHANGED <<up, loop, accepted, memberVars, listVars, freed>>
    BY <1>2 DEF CopySsl
  <2>2. [t EXCEPT !.pc = "copyClient", !.ssl = ssl] \in Thread BY <1>0 DEF Thread
  <2>3. [t EXCEPT !.pc = "copyClient", !.ssl = ssl].pc = "copyClient" BY <1>0 DEF Thread
  <2> QED BY <1>0, <2>1, <2>2, <2>3, ThreadSize DEF listVars
<1>3. CASE CopyClient(k)
  <2>1. thread' = [thread EXCEPT ![k] = [t EXCEPT !.pc = "serve", !.client = client]]
        /\ UNCHANGED <<up, loop, accepted, memberVars, listVars, freed>>
    BY <1>3 DEF CopyClient
  <2>2. [t EXCEPT !.pc = "serve", !.client = client] \in Thread BY <1>0 DEF Thread
  <2>3. [t EXCEPT !.pc = "serve", !.client = client].pc = "serve" BY <1>0 DEF Thread
  <2> QED BY <1>0, <2>1, <2>2, <2>3, ThreadSize DEF listVars
<1>4. CASE ConnectionEnds(k)
  <2>1. thread' = [thread EXCEPT ![k] = [t EXCEPT !.pc = "scan", !.err = ssl]]
        /\ UNCHANGED <<up, loop, accepted, memberVars, listVars, freed>>
    BY <1>4 DEF ConnectionEnds
  <2>2. [t EXCEPT !.pc = "scan", !.err = ssl] \in Thread BY <1>0 DEF Thread
  <2>3. [t EXCEPT !.pc = "scan", !.err = ssl].pc = "scan" BY <1>0 DEF Thread
  <2> QED BY <1>0, <2>1, <2>2, <2>3, ThreadSize DEF listVars
<1>5. CASE ConnectionThrows(k)
  <2>1. thread' = [thread EXCEPT ![k] = [t EXCEPT !.pc = "scan", !.throws = TRUE]]
        /\ UNCHANGED <<up, loop, accepted, memberVars, listVars, freed>>
    BY <1>5 DEF ConnectionThrows
  <2>2. [t EXCEPT !.pc = "scan", !.throws = TRUE] \in Thread BY <1>0 DEF Thread
  <2>3. [t EXCEPT !.pc = "scan", !.throws = TRUE].pc = "scan" BY <1>0 DEF Thread
  <2> QED BY <1>0, <2>1, <2>2, <2>3, ThreadSize DEF listVars
<1>6. CASE Scan(k)
  <2>0. t.i \in 1..(MaxConns + 1) /\ size \in 0..MaxConns /\ t.pc = "scan"
        /\ UNCHANGED <<up, loop, accepted, memberVars, size, freed>>
    BY <1>0, <1>6 DEF Thread, TypeFacts, Scan, At
  <2>1. ASSUME NEW pc \in {"scan", "close", "shrink"}, Goto(k, pc),
               list' \in [Conns -> 0..MaxConns],
               pc = "shrink" => t.i <= size
        PROVE  SizeInv'
    <3>1. thread' = [thread EXCEPT ![k] = [t EXCEPT !.pc = pc]] BY <2>1 DEF Goto
    <3>2. [t EXCEPT !.pc = pc] \in Thread /\ [t EXCEPT !.pc = pc].pc = pc
          /\ [t EXCEPT !.pc = pc].i = t.i
      BY <1>0 DEF Thread
    <3>3. pc = "shrink" => t.i <= MaxConns /\ size >= 1
      <4> HIDE DEF t
      <4> QED BY <1>0, <2>0, <2>1
    <3> QED BY <1>0, <2>0, <2>1, <3>1, <3>2, <3>3, ThreadSize
  <2>2. CASE t.i <= size /\ thread' = [thread EXCEPT ![k].i = t.i + 1] /\ UNCHANGED list
    <3>1. thread' = [thread EXCEPT ![k] = [t EXCEPT !.i = t.i + 1]] BY <2>2
    <3>2. t.i + 1 \in 1..(MaxConns + 1) BY <1>0, <2>0, <2>2
    <3>3. [t EXCEPT !.i = t.i + 1] \in Thread /\ [t EXCEPT !.i = t.i + 1].pc = "scan"
      BY <1>0, <2>0, <3>2 DEF Thread
    <3> QED BY <1>0, <2>0, <2>2, <3>1, <3>3, ThreadSize
  <2>3. CASE /\ t.i <= size /\ Goto(k, "shrink")
             /\ list' = [j \in Conns |-> IF j \in t.i..(size - 1) THEN list[j + 1] ELSE list[j]]
    <3>1. list' \in [Conns -> 0..MaxConns] BY <1>0, <2>0, <2>3 DEF TypeFacts
    <3> QED BY <2>1, <2>3, <3>1
  <2> QED BY <1>0, <1>6, <2>1, <2>2, <2>3 DEF Scan
<1>7. CASE Shrink(k)
  <2>1. /\ thread' = [thread EXCEPT ![k] = [t EXCEPT !.pc = "scan", !.i = t.i + 1]]
        /\ UNCHANGED <<up, loop, accepted, memberVars, list, freed>>
        /\ At(k, "shrink") /\ size' = IF torn THEN size ELSE size - 1
    BY <1>7 DEF Shrink
  <2>2. t.i + 1 \in 1..(MaxConns + 1) BY <1>0, <2>1 DEF SizeInv, Thread
  <2>3. [t EXCEPT !.pc = "scan", !.i = t.i + 1] \in Thread
        /\ [t EXCEPT !.pc = "scan", !.i = t.i + 1].pc = "scan"
    BY <1>0, <2>2 DEF Thread
  <2> QED BY <1>0, <2>1, <2>3, ThreadSize
<1>8. CASE CloseSocket(k)
  <2>1. thread' = [thread EXCEPT ![k] = [t EXCEPT !.pc = "closed"]]
        /\ UNCHANGED <<up, loop, accepted, memberVars, listVars>>
        /\ freed' \in {freed, freed \cup {t.ssl}}
    BY <1>8 DEF CloseSocket, Goto
  <2>2. /\ [t EXCEPT !.pc = "closed"] \in Thread /\ [t EXCEPT !.pc = "closed"].pc = "closed"
        /\ t.ssl \in 0..MaxConns
    BY <1>0 DEF Thread
  <2> QED BY <1>0, <2>1, <2>2, ThreadSize DEF listVars
<1> QED BY <1>1, <1>2, <1>3, <1>4, <1>5, <1>6, <1>7, <1>8 DEF HandleConnection

(* The types of the threads' copies, whatever the scheduling; and that the   *)
(* vector's size and the threads' indices into it stay within its buffer    *)
(* until a write to it meets another access (clientlist,                    *)
(* clienthandler.cpp:53, 185-189, 275-279, 305-309).  Once it is torn       *)
(* nothing is said of what it holds.                                        *)
THEOREM HandlerTypeCorrect == Spec => []TypeOK
<1>1. SizeInv /\ [Next]_vars => SizeInv'
  <2> SUFFICES ASSUME SizeInv, [Next]_vars PROVE SizeInv' OBVIOUS
  <2>1. CASE AcceptLoop /\ torn' = (torn \/ ListRace') BY <2>1, LoopSize
  <2>2. ASSUME NEW k \in Conns, HandleConnection(k), torn' = (torn \/ ListRace') PROVE SizeInv'
    BY <2>2, HandleSize
  <2>3. CASE Exit /\ torn' = (torn \/ ListRace')
    BY <2>3 DEF Exit, SizeInv, TypeOK, Pushes, At, AtList, ListRace, memberVars, listVars
  <2>4. CASE UNCHANGED vars
    BY <2>4 DEF vars, SizeInv, TypeOK, Pushes, At, AtList, ListRace, memberVars, listVars
  <2> QED BY <2>1, <2>2, <2>3, <2>4 DEF Next
<1>2. SizeInv => TypeOK BY DEF SizeInv
<1> QED BY <1>1, <1>2, InitSize, PTL DEF Spec
=============================================================================
