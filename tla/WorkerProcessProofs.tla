------------------------- MODULE WorkerProcessProofs -------------------------
(***************************************************************************)
(* Proofs about WorkerProcess for every number of requests, every script   *)
(* of what they ask for and every combination of faults: what is shut down *)
(* and what a process that ended leaves behind, that no client that waits  *)
(* is forgotten, and that a RELOAD that was acknowledged stays in effect.  *)
(***************************************************************************)
EXTENDS WorkerProcess, TLAPS

USE RequestsAssumption
-----------------------------------------------------------------------------
(* Types.                                                                  *)

LEMMA TypeInit == Init => TypeOK
<1> SUFFICES ASSUME Init PROVE TypeOK
  OBVIOUS
<1>1. << >> \in Seq({"nebula", "cancel", "close", "remove"})
  OBVIOUS
<1>2. todo \in [Requests \cup {Watchdog} -> Seq({"nebula", "cancel", "close", "remove"})]
  BY <1>1 DEF Init
<1>3. command \in [Requests -> Commands]
  BY DEF Init
<1>4. /\ settings \in 0 .. NReqs /\ overdue \in -1 .. NReqs
      /\ seen \in -1 .. NReqs /\ known \in -1 .. NReqs
  BY DEF Init
<1>5. /\ client \in [Requests -> {"idle", "waiting", "ok", "failed", "gave_up"}]
      /\ server \in [Requests -> {"none", "queued", "decode", "respond", "done"}
                                    \cup Commands]
  BY DEF Init
<1>6. got \in [Requests -> -1 .. NReqs]
  BY DEF Init
<1>7. /\ main = "nebula" /\ nebula = "off" /\ watch = "off"
      /\ file \in BOOLEAN /\ listening = FALSE /\ cancelled = FALSE
  BY DEF Init
<1> QED
  BY <1>2, <1>3, <1>4, <1>5, <1>6, <1>7 DEF TypeOK

\* The end of the process only changes what its clients see.
LEMMA EndTypes ==
    ASSUME TypeOK, NEW how \in {"exited", "failed", "killed"}, End(how),
           UNCHANGED <<nebula, file, cancelled, config, command, server, got,
                       watchdog, todo>>
    PROVE  TypeOK'
BY DEF TypeOK, End, config, watchdog

LEMMA TypeStep == ASSUME TypeOK, [Next]_vars PROVE TypeOK'
<1> USE DEF TypeOK, process, config, requests, watchdog, vars
<1>1. CASE StartNebula \/ StartSocketServer
  BY <1>1 DEF StartNebula, StartSocketServer
<1>2. CASE AcceptEnds \/ Kill
  BY <1>2, EndTypes DEF AcceptEnds, Kill
<1>3. CASE Expire
  <2>i. Issued \subseteq 0 .. NReqs
    BY DEF Issued, Requests
  <2>1. PICK n \in 0 .. NReqs : n > overdue
    BY <1>3, <2>i DEF Expire
  <2>2. overdue + 1 \in -1 .. NReqs
    BY <2>1
  <2> QED
    BY <1>3, <2>2 DEF Expire
<1>4. CASE WatchReads
  BY <1>4 DEF WatchReads, CertExpiry, Acknowledged, Requests
<1>c. ShutdownCalls \in Seq({"nebula", "cancel", "close", "remove"})
  BY DEF ShutdownCalls
<1>5. CASE WatchCompares
  BY <1>c, <1>5 DEF WatchCompares
<1>6. ASSUME NEW x \in Requests \cup {Watchdog}, Shutdown(x) PROVE TypeOK'
  BY <1>6 DEF Shutdown
<1>7. ASSUME NEW n \in Requests, Connect(n) \/ GiveUp(n) PROVE TypeOK'
  BY <1>7 DEF Connect, GiveUp, Ask
<1>8. ASSUME NEW n \in Requests, AcceptConnection(n) PROVE TypeOK'
  BY <1>8 DEF AcceptConnection, Ask, Goto
<1>9. ASSUME NEW n \in Requests, Decode(n) PROVE TypeOK'
  BY <1>9 DEF Decode, Goto
<1>10. ASSUME NEW n \in Requests, GetConfig(n) PROVE TypeOK'
  BY <1>10 DEF GetConfig, Goto
<1>11. ASSUME NEW n \in Requests, ReloadConfig(n) PROVE TypeOK'
  <2>1. n \in 0 .. NReqs
    BY DEF Requests
  <2> QED
    BY <1>11, <2>1 DEF ReloadConfig, Goto
<1>12. ASSUME NEW n \in Requests, SendResponse(n) PROVE TypeOK'
  BY <1>c, <1>12 DEF SendResponse, Ask, Goto
<1> QED
  BY <1>1, <1>2, <1>3, <1>4, <1>5, <1>6, <1>7, <1>8, <1>9, <1>10,
     <1>11, <1>12 DEF Next, Handle

\* Every variable of the process and of its clients keeps its type.
THEOREM TypeCorrect == Spec => []TypeOK
<1>1. TypeOK /\ [Next]_vars => TypeOK'
  BY TypeStep
<1> QED
  BY TypeInit, <1>1, PTL DEF Spec
-----------------------------------------------------------------------------
(* The order of the shutdown.                                              *)

\* What a shutdown that goes on has left to do, and has done.
LEMMA CallsLeft ==
    ASSUME NEW x \in Requests \cup {Watchdog}, Made(x), todo[x] # << >>
    PROVE  \/ todo[x] = <<"nebula", "cancel", "close", "remove">>
           \/ todo[x] = <<"cancel", "close", "remove">> /\ nebula = "stopped"
           \/ todo[x] = <<"close", "remove">> /\ nebula = "stopped" /\ cancelled
           \/ todo[x] = <<"remove">> /\ nebula = "stopped" /\ cancelled /\ ~listening
BY DEF Made, ShutdownCalls

\* A call of a shutdown is made when those before it have been, and nothing
\* that was done is undone.
LEMMA ShutdownCallInOrder ==
    ASSUME NEW x \in Requests \cup {Watchdog}, TypeOK, Made(x), Shutdown(x),
           cancelled => nebula = "stopped", ~listening => cancelled /\ ~file
    PROVE  /\ Made(x)'
           /\ nebula = "stopped" => nebula' = "stopped"
           /\ cancelled => cancelled'
           /\ ~listening => ~listening'
           /\ cancelled' => nebula' = "stopped"
           /\ ~listening' => cancelled' /\ ~file'
<1>0. todo'[x] = Tail(todo[x])
  BY DEF TypeOK, Shutdown
<1>1. CASE todo[x] = <<"nebula", "cancel", "close", "remove">>
  <2>1. Head(todo[x]) = "nebula" /\ todo'[x] = <<"cancel", "close", "remove">>
    BY <1>0, <1>1
  <2> QED
    BY <2>1 DEF Shutdown, Made, TypeOK
<1>2. CASE todo[x] = <<"cancel", "close", "remove">> /\ nebula = "stopped"
  <2>1. Head(todo[x]) = "cancel" /\ todo'[x] = <<"close", "remove">>
    BY <1>0, <1>2
  <2> QED
    BY <1>2, <2>1 DEF Shutdown, Made, TypeOK
<1>3. CASE todo[x] = <<"close", "remove">> /\ nebula = "stopped" /\ cancelled
  <2>1. Head(todo[x]) = "close" /\ todo'[x] = <<"remove">>
    BY <1>0, <1>3
  <2> QED
    BY <1>3, <2>1 DEF Shutdown, Made, TypeOK
<1>4. CASE todo[x] = <<"remove">> /\ nebula = "stopped" /\ cancelled /\ ~listening
  <2>1. Head(todo[x]) = "remove" /\ todo'[x] = << >>
    BY <1>0, <1>4
  <2> QED
    BY <1>4, <2>1 DEF Shutdown, Made, TypeOK
<1> QED
  BY <1>1, <1>2, <1>3, <1>4, CallsLeft DEF Shutdown

LEMMA InOrderInit == Init => InOrder
BY DEF Init, InOrder, OrderlyExit, Serving, Made

\* The steps that shut nothing down and begin at most one shutdown.
LEMMA InOrderQuiet ==
    ASSUME TypeOK, TypeOK', InOrder,
           UNCHANGED <<main, nebula, file, listening, cancelled>>,
           UNCHANGED todo \/ Serving,
           \A x \in Requests \cup {Watchdog} : todo'[x] \in {todo[x], ShutdownCalls}
    PROVE  InOrder'
BY DEF InOrder, OrderlyExit, Serving, Made

LEMMA InOrderStep ==
    ASSUME TypeOK, TypeOK', InOrder, [Next]_vars PROVE InOrder'
<1> USE DEF process, config, requests, watchdog, vars
<1>1. CASE StartNebula
  BY <1>1 DEF StartNebula, InOrder, OrderlyExit, Serving
<1>2. CASE StartSocketServer
  BY <1>2 DEF StartSocketServer, InOrder, OrderlyExit, Serving, Made
<1>3. CASE AcceptEnds \/ Kill
  BY <1>3 DEF AcceptEnds, Kill, End, InOrder, OrderlyExit, Serving, Ended
<1>4. ASSUME NEW x \in Requests \cup {Watchdog}, Shutdown(x) PROVE InOrder'
  <2>1. Serving /\ main' = main /\ \A y \in Requests \cup {Watchdog} : Made(y)
    BY <1>4 DEF Shutdown, InOrder
  <2>2. /\ nebula = "stopped" => nebula' = "stopped"
        /\ cancelled => cancelled'
        /\ ~listening => ~listening'
        /\ cancelled' => nebula' = "stopped"
        /\ ~listening' => cancelled' /\ ~file'
    BY <1>4, <2>1, ShutdownCallInOrder DEF InOrder, OrderlyExit
  <2>3. ASSUME NEW y \in Requests \cup {Watchdog} PROVE Made(y)'
    <3>1. CASE y = x
      BY <1>4, <2>1, <3>1, ShutdownCallInOrder DEF InOrder, OrderlyExit
    <3>2. CASE y # x
      <4>1. todo'[y] = todo[y]
        BY <1>4, <3>2 DEF Shutdown, TypeOK
      <4> QED
        BY <2>1, <2>2, <4>1 DEF Made
    <3> QED
      BY <3>1, <3>2
  <2> QED
    BY <2>1, <2>2, <2>3 DEF InOrder, OrderlyExit, Serving
<1>5. CASE Expire \/ WatchReads \/ UNCHANGED vars
  BY <1>5, InOrderQuiet DEF Expire, WatchReads
<1>6. CASE WatchCompares
  <2>1. \A x \in Requests \cup {Watchdog} : todo'[x] \in {todo[x], ShutdownCalls}
    BY <1>6 DEF WatchCompares, TypeOK
  <2> QED
    BY <1>6, <2>1, InOrderQuiet DEF WatchCompares
<1>7. ASSUME NEW n \in Requests, Connect(n) \/ GiveUp(n) PROVE InOrder'
  BY <1>7, InOrderQuiet DEF Connect, GiveUp
<1>8. ASSUME NEW n \in Requests, Handle(n) PROVE InOrder'
  <2>1. CASE AcceptConnection(n) \/ Decode(n) \/ GetConfig(n) \/ ReloadConfig(n)
    BY <2>1, InOrderQuiet DEF AcceptConnection, Decode, GetConfig, ReloadConfig
  <2>2. CASE SendResponse(n)
    <3>1. \A x \in Requests \cup {Watchdog} : todo'[x] \in {todo[x], ShutdownCalls}
      BY <2>2 DEF SendResponse, TypeOK
    <3> QED
      BY <2>2, <3>1, InOrderQuiet DEF SendResponse
  <2> QED
    BY <1>8, <2>1, <2>2 DEF Handle
<1> QED
  BY <1>1, <1>2, <1>3, <1>4, <1>5, <1>6, <1>7, <1>8 DEF Next

\* The shutdown follows its order, whoever runs it and however often.
LEMMA ShutdownsInOrder == Spec => []InOrder
<1>1. TypeOK /\ TypeOK' /\ InOrder /\ [Next]_vars => InOrder'
  BY InOrderStep
<1> QED
  BY TypeCorrect, InOrderInit, <1>1, PTL DEF Spec

\* A worker that ends by itself leaves neither its socket file nor a running
\* Nebula, and its accept loop never spins, for any number of shutdowns.
THEOREM EndsOrderly == Spec => []OrderlyExit
<1>1. InOrder => OrderlyExit
  BY DEF InOrder
<1> QED
  BY ShutdownsInOrder, <1>1, PTL
-----------------------------------------------------------------------------
(* The connections.                                                        *)

\* The steps that leave the clients and their connections alone.
LEMMA RequestsQuiet ==
    ASSUME [Next]_vars
    PROVE  \/ StartNebula \/ StartSocketServer \/ AcceptEnds \/ Kill
           \/ /\ UNCHANGED <<main, requests>>
              /\ \/ Expire \/ WatchReads \/ WatchCompares \/ UNCHANGED vars
                 \/ \E x \in Requests \cup {Watchdog} : Shutdown(x)
           \/ \E n \in Requests : Connect(n) \/ GiveUp(n) \/ Handle(n)
BY DEF Next, vars, process, Expire, WatchReads, WatchCompares, Shutdown

LEMMA ConnectionsInit == Init => WorkerOK /\ Connections
<1> SUFFICES ASSUME Init PROVE WorkerOK /\ Connections
  OBVIOUS
<1>1. \A n \in Requests : client[n] = "idle" /\ server[n] = "none"
  BY DEF Init
<1> QED
  BY <1>1, TypeInit DEF WorkerOK, Connections, InHands, Commands

LEMMA ConnectionsStep ==
    ASSUME TypeOK', WorkerOK, InOrder, Connections, [Next]_vars
    PROVE  WorkerOK' /\ Connections'
<1> USE DEF Connections, InHands, Serving, requests
<1>t. /\ server \in [Requests -> {"none", "queued", "decode", "respond", "done"}
                                    \cup Commands]
      /\ client \in [Requests -> {"idle", "waiting", "ok", "failed", "gave_up"}]
      /\ command \in [Requests -> Commands]
      /\ \A n \in Requests : client[n] = "waiting" => Serving /\ InHands(n)
  BY DEF WorkerOK, TypeOK
<1> DEFINE Goal == /\ \A n \in Requests :
                        client'[n] = "waiting" => Serving' /\ InHands(n)'
                   /\ Connections'
<1> SUFFICES Goal
  BY DEF WorkerOK
<1> USE <1>t
<1>1. CASE StartNebula \/ StartSocketServer
  BY <1>1 DEF StartNebula, StartSocketServer
<1>2. CASE AcceptEnds \/ Kill
  BY <1>2 DEF AcceptEnds, Kill, End, config
<1>3. CASE UNCHANGED <<main, requests>>
  BY <1>3
<1>4. ASSUME NEW n \in Requests, Connect(n) PROVE Goal
  BY <1>4 DEF Connect, Ask, InOrder, process, Commands
<1>5. ASSUME NEW n \in Requests, GiveUp(n) PROVE Goal
  BY <1>5 DEF GiveUp, Ask, process
<1>6. ASSUME NEW n \in Requests, AcceptConnection(n) PROVE Goal
  BY <1>6 DEF AcceptConnection, Ask, Goto, process, Commands
<1>7. ASSUME NEW n \in Requests, Decode(n) PROVE Goal
  BY <1>7 DEF Decode, Goto, process, Commands
<1>8. ASSUME NEW n \in Requests, GetConfig(n) \/ ReloadConfig(n)
      PROVE  Goal
  BY <1>8 DEF GetConfig, ReloadConfig, Goto, process, Commands
<1>9. ASSUME NEW n \in Requests, SendResponse(n) PROVE Goal
  BY <1>9 DEF SendResponse, Ask, Goto, process, Commands
<1> QED
  BY RequestsQuiet, <1>1, <1>2, <1>3, <1>4, <1>5, <1>6, <1>7, <1>8, <1>9 DEF Handle

LEMMA ConnectionsInvariant == Spec => [](WorkerOK /\ Connections)
<1>1. /\ TypeOK' /\ InOrder /\ WorkerOK /\ Connections /\ [Next]_vars
      => WorkerOK' /\ Connections'
  BY ConnectionsStep
<1> QED
  BY TypeCorrect, ShutdownsInOrder, ConnectionsInit, <1>1, PTL DEF Spec

\* A client that waits is not forgotten, whoever shuts the worker down.
THEOREM NobodyForgotten == Spec => []WorkerOK
BY ConnectionsInvariant, PTL

\* Who asks for what never changes, and only a client that waits is answered
\* or gives up: what it was told is final.
LEMMA RequestsStep ==
    ASSUME TypeOK, Connections, [Next]_vars
    PROVE  /\ command' = command
           /\ \A n \in Requests :
                 \/ client'[n] = client[n]
                 \/ client[n] = "waiting" /\ client'[n] # "idle"
                 \/ Connect(n)
<1> DEFINE Goal == /\ command' = command
                   /\ \A n \in Requests :
                         \/ client'[n] = client[n]
                         \/ client[n] = "waiting" /\ client'[n] # "idle"
                         \/ Connect(n)
<1>t. client \in [Requests -> {"idle", "waiting", "ok", "failed", "gave_up"}]
  BY DEF TypeOK
<1>1. ASSUME StartNebula \/ StartSocketServer \/ UNCHANGED <<main, requests>>
      PROVE  Goal
  BY <1>1 DEF StartNebula, StartSocketServer, requests
<1>2. ASSUME AcceptEnds \/ Kill PROVE Goal
  BY <1>t, <1>2 DEF AcceptEnds, Kill, End
<1>3. ASSUME NEW n \in Requests, Connect(n) PROVE Goal
  BY <1>t, <1>3 DEF Connect, Ask
<1>4. ASSUME NEW n \in Requests, GiveUp(n) \/ AcceptConnection(n) PROVE Goal
  BY <1>t, <1>4 DEF GiveUp, AcceptConnection, Ask
<1>5. ASSUME NEW n \in Requests, Decode(n) \/ GetConfig(n) \/ ReloadConfig(n)
      PROVE  Goal
  BY <1>5 DEF Decode, GetConfig, ReloadConfig
<1>6. ASSUME NEW n \in Requests, SendResponse(n) PROVE Goal
  BY <1>t, <1>6 DEF SendResponse, Ask
<1>7. ASSUME NEW n \in Requests, Handle(n) PROVE Goal
  BY <1>4, <1>5, <1>6, <1>7 DEF Handle
<1>8. ASSUME NEW n \in Requests, Connect(n) \/ GiveUp(n) \/ Handle(n) PROVE Goal
  BY <1>3, <1>4, <1>7, <1>8
<1> HIDE DEF Goal
<1>9. Goal
  BY RequestsQuiet, <1>1, <1>2, <1>8
<1> QED
  BY <1>9 DEF Goal

LEMMA OneAtATimeStep ==
    ASSUME TypeOK, Connections, OneAtATime, [Next]_vars PROVE OneAtATime'
<1> USE DEF OneAtATime, FromAgent
<1>1. ASSUME NEW n \in Requests, Connect(n) PROVE OneAtATime'
  <2>1. /\ command' = command /\ Requests \subseteq Nat
        /\ \A m \in Requests : client'[m] = IF m = n THEN "waiting" ELSE client[m]
    BY <1>1 DEF Connect, Ask, TypeOK, Requests
  <2>2. ASSUME NEW k \in FromAgent, client'[k] # "idle",
               NEW m \in FromAgent, m < k
        PROVE  client'[m] \notin {"idle", "waiting"}
    <3>1. CASE k = n
      BY <1>1, <2>1, <2>2, <3>1 DEF Connect
    <3>2. CASE k # n
      BY <1>1, <2>1, <2>2, <3>2 DEF Connect
    <3> QED
      BY <3>1, <3>2
  <2> QED
    BY <2>1, <2>2
<1>2. CASE ~ \E n \in Requests : Connect(n)
  BY <1>2, RequestsStep
<1> QED
  BY <1>1, <1>2
-----------------------------------------------------------------------------
(* What was acknowledged is kept.                                          *)

\* A configuration goes on covering what it covers: a client that gave up has
\* given up for good.
LEMMA CoversStays ==
    ASSUME TypeOK, Connections, [Next]_vars, NEW c, NEW n, Covers(c, n)
    PROVE  n <= c \/ (c \in Requests /\ client'[c] = "gave_up")
<1>1. ASSUME c \in Requests, client[c] = "gave_up" PROVE client'[c] = "gave_up"
  BY <1>1, RequestsStep DEF Connect
<1> QED
  BY <1>1 DEF Covers

\* The steps that serve nothing, answer nothing and read no configuration.
LEMMA ReloadsKeptQuiet ==
    ASSUME TypeOK, Connections, ReloadsKept, [Next]_vars,
           UNCHANGED <<settings, command, got>>,
           \A n \in Requests :
              /\ server'[n] = "respond" => server[n] = "respond"
              /\ client'[n] = "ok" => client[n] = "ok",
           watch' = "compare" => watch = "compare" /\ UNCHANGED <<seen, known>>
    PROVE  ReloadsKept'
<1>1. \A c, n : Covers(c, n) => n <= c \/ (c \in Requests /\ client'[c] = "gave_up")
  BY CoversStays
<1>2. \A n \in Requests : Served(n)' => Served(n)
  BY DEF Served
<1>3. ASSUME NEW n \in Requests, Served(n)' PROVE Covers(settings, n)'
  BY <1>1, <1>2, <1>3 DEF ReloadsKept, Covers
<1>4. ASSUME NEW n \in Requests, command'[n] = "GET_CONFIG",
             server'[n] = "respond" \/ client'[n] = "ok",
             NEW m \in Requests, Served(m)', client'[m] = "ok", m < n
      PROVE  Covers(got[n], m)'
  <2>1. Covers(got[n], m)
    BY <1>2, <1>4 DEF ReloadsKept
  <2> QED
    BY <1>1, <2>1 DEF Covers
<1>5. watch' = "compare" => Covers(seen, known)'
  BY <1>1 DEF ReloadsKept, Covers
<1> QED
  BY <1>3, <1>4, <1>5 DEF ReloadsKept

\* A RELOAD that is served after a newer one was its client's to give up.
LEMMA ReloadConfigKeeps ==
    ASSUME TypeOK, Connections, OneAtATime, ReloadsKept,
           NEW k \in Requests, ReloadConfig(k)
    PROVE  ReloadsKept'
<1> USE DEF TypeOK
<1>1. /\ Serving /\ server[k] = "RELOAD" /\ command[k] = "RELOAD"
      /\ settings' = k
      /\ server' = [server EXCEPT ![k] = "respond"]
      /\ UNCHANGED <<command, client, got, watch, seen, known>>
  BY DEF ReloadConfig, Goto, watchdog, Connections, Commands
<1>2. ASSUME NEW n \in Requests, Served(n)', n # k PROVE Covers(k, n)
  <2>1. CASE n <= k
    BY <2>1 DEF Covers
  <2>2. CASE k < n
    <3>1. n \in FromAgent /\ k \in FromAgent /\ client[n] # "idle"
      BY <1>1, <1>2 DEF Served, FromAgent, Connections
    <3>2. client[k] = "gave_up"
      BY <1>1, <2>2, <3>1 DEF OneAtATime, Connections, InHands
    <3> QED
      BY <3>2 DEF Covers
  <2> QED
    BY <2>1, <2>2 DEF Requests
<1>3. ASSUME NEW n \in Requests, Served(n)' PROVE Covers(settings, n)'
  BY <1>1, <1>2, <1>3 DEF Covers, Requests
<1>4. ASSUME NEW n \in Requests, command[n] = "GET_CONFIG",
             server'[n] = "respond" \/ client'[n] = "ok",
             NEW m \in Requests, Served(m)', client'[m] = "ok", m < n
      PROVE  Covers(got[n], m)'
  BY <1>1, <1>4 DEF ReloadsKept, Served, Covers
<1> QED
  BY <1>1, <1>3, <1>4 DEF ReloadsKept, Covers

LEMMA GetConfigKeeps ==
    ASSUME TypeOK, Connections, ReloadsKept, NEW k \in Requests, GetConfig(k)
    PROVE  ReloadsKept'
<1> USE DEF TypeOK
<1>1. /\ server[k] = "GET_CONFIG" /\ command[k] = "GET_CONFIG"
      /\ got' = [got EXCEPT ![k] = settings]
      /\ server' = [server EXCEPT ![k] = "respond"]
      /\ UNCHANGED <<settings, command, client, watch, seen, known>>
  BY DEF GetConfig, Goto, config, watchdog, Connections, Commands
<1>2. \A n \in Requests : Served(n)' => Served(n)
  BY <1>1 DEF Served
<1>3. ASSUME NEW n \in Requests, command[n] = "GET_CONFIG",
             server'[n] = "respond" \/ client'[n] = "ok",
             NEW m \in Requests, Served(m)', client'[m] = "ok", m < n
      PROVE  Covers(got'[n], m)
  BY <1>1, <1>2, <1>3 DEF ReloadsKept
<1> QED
  BY <1>1, <1>2, <1>3 DEF ReloadsKept, Covers

\* A RELOAD is answered when it has been served, and while a GET_CONFIG after
\* it is under way no client waits for it any more.
LEMMA SendResponseKeeps ==
    ASSUME TypeOK, Connections, OneAtATime, ReloadsKept,
           NEW k \in Requests, SendResponse(k)
    PROVE  ReloadsKept'
<1> USE DEF TypeOK
<1>1. /\ server[k] \in {"respond", "PING", "STOP", "INVALID"}
      /\ server' = [server EXCEPT ![k] = "done"]
      /\ \A n \in Requests \ {k} : client'[n] = client[n]
      /\ client'[k] # client[k] => client[k] = "waiting" /\ client'[k] # "gave_up"
      /\ client[k] = "gave_up" => client'[k] = "gave_up"
      /\ UNCHANGED <<settings, command, got, watch, seen, known>>
  BY DEF SendResponse, Ask, Goto, config, watchdog
<1>2. command[k] \in {"RELOAD", "GET_CONFIG"} => server[k] = "respond"
  BY <1>1 DEF Connections, Commands
<1>3. \A n \in Requests : Served(n)' => Served(n)
  BY <1>1, <1>2 DEF Served
<1>4. \A c, n : Covers(c, n) => n <= c \/ (c \in Requests /\ client'[c] = "gave_up")
  BY <1>1 DEF Covers
<1>5. ASSUME NEW n \in Requests, command[n] = "GET_CONFIG",
             server'[n] = "respond" \/ client'[n] = "ok",
             NEW m \in Requests, Served(m)', client'[m] = "ok", m < n
      PROVE  Covers(got[n], m)
  <2>1. server[n] = "respond" \/ client[n] = "ok"
    BY <1>1, <1>2, <1>5
  <2>2. /\ n \in FromAgent /\ m \in FromAgent
        /\ client[n] # "idle" /\ command[m] = "RELOAD"
    BY <1>1, <1>5, <2>1 DEF Served, FromAgent, Connections
  <2>3. client[m] # "waiting"
    BY <1>5, <2>2 DEF OneAtATime
  <2>4. client[m] = "ok"
    BY <1>1, <1>5, <2>3
  <2> QED
    BY <1>3, <1>5, <2>1, <2>4 DEF ReloadsKept
<1> QED
  BY <1>1, <1>3, <1>4, <1>5 DEF ReloadsKept, Covers

LEMMA WatchReadsKeeps ==
    ASSUME TypeOK, ReloadsKept, WatchReads
    PROVE  ReloadsKept'
<1> USE DEF TypeOK
<1>1. /\ seen' = settings /\ known' \in Acknowledged
      /\ UNCHANGED <<settings, command, client, server, got>>
  BY DEF WatchReads, CertExpiry, config, requests
<1>2. Covers(settings, known')
  BY <1>1 DEF Acknowledged, ReloadsKept, Served, Covers
<1> QED
  BY <1>1, <1>2 DEF ReloadsKept, Served, Covers

LEMMA ReloadsKeptStep ==
    ASSUME TypeOK, TypeOK', WorkerOK, Connections, OneAtATime, ReloadsKept, [Next]_vars
    PROVE  ReloadsKept'
<1> USE DEF process, config, requests, watchdog
<1>1. CASE StartNebula \/ StartSocketServer
  BY <1>1, ReloadsKeptQuiet DEF StartNebula, StartSocketServer
<1>2. CASE AcceptEnds \/ Kill
  <2>1. \A n \in Requests : client'[n] = "ok" => client[n] = "ok"
    BY <1>2 DEF AcceptEnds, Kill, End
  <2> QED
    BY <1>2, <2>1, ReloadsKeptQuiet DEF AcceptEnds, Kill
<1>3. CASE \/ Expire \/ WatchCompares \/ UNCHANGED vars
           \/ \E x \in Requests \cup {Watchdog} : Shutdown(x)
  BY <1>3, ReloadsKeptQuiet DEF Expire, WatchCompares, Shutdown, vars
<1>4. CASE WatchReads
  BY <1>4, WatchReadsKeeps
<1>5. ASSUME NEW n \in Requests, Connect(n) \/ GiveUp(n) PROVE ReloadsKept'
  BY <1>5, ReloadsKeptQuiet DEF Connect, GiveUp, Ask, TypeOK
<1>6. ASSUME NEW n \in Requests, AcceptConnection(n) \/ Decode(n) PROVE ReloadsKept'
  <2>1. CASE AcceptConnection(n)
    BY <2>1, ReloadsKeptQuiet DEF AcceptConnection, Ask, Goto, TypeOK
  <2>2. CASE Decode(n)
    <3>1. PICK l \in Commands \cup {"done"} : server' = [server EXCEPT ![n] = l]
      BY <2>2 DEF Decode, Goto, TypeOK
    <3>2. \A m \in Requests : server'[m] = "respond" => server[m] = "respond"
      BY <3>1 DEF TypeOK, Commands
    <3> QED
      BY <2>2, <3>2, ReloadsKeptQuiet DEF Decode
  <2> QED
    BY <1>6, <2>1, <2>2
<1>7. ASSUME NEW n \in Requests, GetConfig(n) \/ ReloadConfig(n) \/ SendResponse(n)
      PROVE  ReloadsKept'
  BY <1>7, GetConfigKeeps, ReloadConfigKeeps, SendResponseKeeps
<1> QED
  BY <1>1, <1>2, <1>3, <1>4, <1>5, <1>6, <1>7 DEF Next, Handle

LEMMA WorkerInvInit == Init => WorkerInv
<1> SUFFICES ASSUME Init PROVE WorkerInv
  OBVIOUS
<1>1. /\ \A n \in Requests : client[n] = "idle" /\ server[n] = "none"
      /\ watch = "off"
  BY DEF Init
<1> QED
  BY <1>1, ConnectionsInit, InOrderInit
     DEF WorkerInv, OneAtATime, FromAgent, ReloadsKept, Served

LEMMA WorkerInvStep == ASSUME WorkerInv, [Next]_vars PROVE WorkerInv'
<1>1. TypeOK /\ TypeOK'
  BY TypeStep DEF WorkerInv, WorkerOK
<1> QED
  BY <1>1, InOrderStep, ConnectionsStep, OneAtATimeStep, ReloadsKeptStep DEF WorkerInv

\* The inductive invariant of the process and its clients.
THEOREM Invariance == Spec => []WorkerInv
<1>1. WorkerInv /\ [Next]_vars => WorkerInv'
  BY WorkerInvStep
<1> QED
  BY WorkerInvInit, <1>1, PTL DEF Spec

\* A RELOAD that was answered with success is in effect until a newer one is,
\* or one its client had given up, in whatever order the goroutines run.
THEOREM AcknowledgedStaysInEffect == Spec => []AcknowledgedInEffect
<1>1. WorkerInv => AcknowledgedInEffect
  BY DEF WorkerInv, WorkerOK, TypeOK, ReloadsKept, Served, Covers, Newer,
         AcknowledgedInEffect, Requests
<1> QED
  BY Invariance, <1>1, PTL

\* The agent reads no configuration older than one it was told is in effect.
THEOREM AgentReadsItsReloads == Spec => []ReadsItsReloads
<1>1. WorkerInv => ReadsItsReloads
  BY DEF WorkerInv, WorkerOK, TypeOK, ReloadsKept, Served, Covers,
         ReadsItsReloads, Requests
<1> QED
  BY Invariance, <1>1, PTL

\* The watchdog shuts no worker down whose acknowledged certificates are good,
\* however requests are served between its look and its comparison.
THEOREM WatchdogIsRight == Spec => WatchdogSpares
<1> DEFINE Right == watch = "compare" /\ watch' = "shutdown" =>
                       \/ known <= overdue
                       \/ seen \in Requests /\ client[seen] = "gave_up"
<1>1. WorkerInv /\ [Next]_vars => [Right]_vars
  <2> SUFFICES ASSUME WorkerInv, Next, watch = "compare", watch' = "shutdown"
               PROVE  Right
    OBVIOUS
  <2>1. WatchCompares
    BY DEF Next, Handle, StartNebula, StartSocketServer, AcceptEnds, Kill, End,
       Expire, WatchReads, Shutdown, Connect, GiveUp, AcceptConnection, Decode,
       GetConfig, ReloadConfig, SendResponse, watchdog
  <2>2. seen <= overdue
    BY <2>1 DEF WatchCompares
  <2> QED
    BY <2>2 DEF WorkerInv, WorkerOK, TypeOK, ReloadsKept, Covers
<1> QED
  BY Invariance, <1>1, PTL DEF Spec, WatchdogSpares
=============================================================================
