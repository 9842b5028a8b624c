--------------------------- MODULE WorkerProcess ---------------------------
(***************************************************************************)
(* One process of the Nebula worker, pkg/worker/worker.go, and the clients *)
(* of its socket, pkg/worker/client.go: its start, the loop that accepts   *)
(* connections, a goroutine per connection, the watchdog, and the shutdown *)
(* that a STOP or the watchdog begins.                                     *)
(*                                                                         *)
(* The configuration is known by its certificate, and a certificate by the *)
(* number of the RELOAD that brings it: the agent's rotation worker sends  *)
(* one request at a time, with a newer certificate in every RELOAD.  A     *)
(* client gives up after 5 seconds, but what it has sent is still served.  *)
(* Settings is replaced by one assignment; a goroutine that reads it       *)
(* without a lock meanwhile sees the old map or the new one.               *)
(***************************************************************************)
EXTENDS Integers, Sequences

CONSTANTS
    NReqs,    \* bound: the requests that come
    Scripts,  \* bound: what those requests may ask for, one after another
    Faults    \* what may fail, a subset of FaultKinds

FaultKinds == {
    "nebula",   \* nebula.Main
    "listen",   \* the socket cannot be created
    "chmod",    \* nor its permissions set
    "timeout",  \* a client gives up
    "kill" }    \* systemd stops the unit, or the process dies

\* "INVALID" is a RELOAD without a configuration or with one that does not
\* parse, or an unknown command; "SILENT" is a client that sends nothing, and
\* "NONE" no client at all.
Commands == {"PING", "GET_CONFIG", "RELOAD", "STOP", "INVALID", "SILENT", "NONE"}

Requests == 1 .. NReqs
Watchdog == 0

ASSUME RequestsAssumption == NReqs \in Nat /\ Scripts \subseteq [Requests -> Commands]
ASSUME FaultsAssumption == Faults \subseteq FaultKinds

VARIABLES
    main,       \* where Run is, and how the process ended
    nebula,     \* the Nebula instance: "off", "on" or "stopped"
    file,       \* the socket file exists
    listening,  \* the listener is open
    cancelled,  \* ctx is done
    settings,   \* nebulaConfig.Settings
    overdue,    \* the newest certificate that has expired for 5 minutes
    command,    \* command[n]: what request n asks for
    client,     \* client[n]: how request n looks to its client
    server,     \* server[n]: where its goroutine is
    got,        \* got[n]: the configuration in the answer to a GET_CONFIG
    watch,      \* the watchdog: "off", "tick", "compare" or "shutdown"
    seen,       \* the certificate it has read
    known,      \* history: the newest one acknowledged at that time
    todo        \* todo[x]: what is left of the shutdown of request x, or of
                \*   the watchdog

process == <<main, nebula, file, listening, cancelled>>
config == <<settings, overdue>>
requests == <<command, client, server, got>>
watchdog == <<watch, seen, known>>
vars == <<process, config, requests, watchdog, todo>>

\* The configuration of the environment is 0.
Init ==
    /\ main = "nebula"
    /\ nebula = "off"
    /\ file \in BOOLEAN
    /\ listening = FALSE /\ cancelled = FALSE
    /\ settings = 0 /\ overdue = -1
    /\ command \in Scripts
    /\ client = [n \in Requests |-> "idle"]
    /\ server = [n \in Requests |-> "none"]
    /\ got = [n \in Requests |-> -1]
    /\ watch = "off" /\ seen = -1 /\ known = -1
    /\ todo = [x \in Requests \cup {Watchdog} |-> << >>]

MayFail(f) == f \in Faults
Serving == main = "serve"
Ended == main \in {"exited", "failed", "killed"}
-----------------------------------------------------------------------------
(* Run.                                                                    *)

StartNebula ==
    /\ main = "nebula"
    /\ \/ main' = "socket" /\ nebula' = "on"
       \/ MayFail("nebula") /\ main' = "failed" /\ UNCHANGED nebula
    /\ UNCHANGED <<file, listening, cancelled, config, requests, watchdog, todo>>

\* A stale socket file is removed first.  Closing a listener removes it too.
StartSocketServer ==
    /\ main = "socket"
    /\ \/ /\ main' = "serve" /\ file' = TRUE /\ listening' = TRUE
          /\ watch' = "tick"
          /\ UNCHANGED nebula
       \/ /\ MayFail("listen") \/ MayFail("chmod")
          /\ main' = "failed" /\ file' = FALSE /\ nebula' = "stopped"
          /\ UNCHANGED <<listening, watch>>
    /\ UNCHANGED <<cancelled, config, requests, seen, known, todo>>

\* The process is over, and with it its connections.
End(how) ==
    /\ main' = how
    /\ listening' = FALSE
    /\ client' = [n \in Requests |->
                    IF client[n] = "waiting" THEN "failed" ELSE client[n]]

\* Mutant of AcceptEnds: Run waits for the connections, too.
AcceptEndsLast ==
    /\ Serving /\ ~listening /\ cancelled
    /\ \A n \in Requests : server[n] \in {"none", "done"}
    /\ End("exited")
    /\ UNCHANGED <<nebula, file, cancelled, config, command, server, got, watchdog, todo>>

\* Accept fails because the listener is closed: the loop ends, and with it
\* Run.  Nobody waits for the connections.
AcceptEnds ==
    /\ Serving /\ ~listening /\ cancelled
    /\ End("exited")
    /\ UNCHANGED <<nebula, file, cancelled, config, command, server, got, watchdog, todo>>

Kill ==
    /\ MayFail("kill") /\ ~Ended
    /\ End("killed")
    /\ UNCHANGED <<nebula, file, cancelled, config, command, server, got, watchdog, todo>>
-----------------------------------------------------------------------------
(* shutdown.                                                               *)

\* Mutant of ShutdownCalls: Nebula is stopped when the socket is closed.
NebulaLast == <<"cancel", "close", "nebula", "remove">>

ShutdownCalls == <<"nebula", "cancel", "close", "remove">>

\* The next call of the shutdown of x.
Shutdown(x) ==
    /\ Serving /\ todo[x] # << >>
    /\ todo' = [todo EXCEPT ![x] = Tail(@)]
    /\ LET call == Head(todo[x]) IN
       /\ nebula' = IF call = "nebula" THEN "stopped" ELSE nebula
       /\ cancelled' = (cancelled \/ call = "cancel")
       /\ listening' = (listening /\ call # "close")
       /\ file' = (file /\ call \notin {"close", "remove"})
    /\ UNCHANGED <<main, config, requests, watchdog>>
-----------------------------------------------------------------------------
(* The clients.                                                            *)

Ask(n, c) == client' = [client EXCEPT ![n] = c]

FromAgent == {n \in Requests : command[n] \in {"GET_CONFIG", "RELOAD", "INVALID"}}

\* The agent sends one request at a time, in the order of their numbers.  (A
\* client that finds nobody listening fails, and nothing else happens.)
Connect(n) ==
    /\ listening
    /\ client[n] = "idle" /\ command[n] # "NONE"
    /\ n \in FromAgent => \A m \in FromAgent :
          /\ client[m] # "waiting"
          /\ m < n => client[m] # "idle"
    /\ Ask(n, "waiting")
    /\ server' = [server EXCEPT ![n] = "queued"]
    /\ UNCHANGED <<process, config, command, got, watchdog, todo>>

GiveUp(n) ==
    /\ MayFail("timeout")
    /\ client[n] = "waiting"
    /\ Ask(n, "gave_up")
    /\ UNCHANGED <<process, config, command, server, got, watchdog, todo>>

Issued == {0} \cup {n \in Requests : command[n] = "RELOAD" /\ client[n] # "idle"}

\* The certificates run out in the order they were issued.
Expire ==
    /\ Serving
    /\ \E n \in Issued : n > overdue
    /\ overdue' = overdue + 1
    /\ UNCHANGED <<process, settings, requests, watchdog, todo>>
-----------------------------------------------------------------------------
(* handleConnection.                                                       *)

Goto(n, l) == server' = [server EXCEPT ![n] = l]

\* A connection that was not accepted is reset when the listener closes.
AcceptConnection(n) ==
    /\ Serving /\ server[n] = "queued"
    /\ \/ listening /\ Goto(n, "decode") /\ UNCHANGED client
       \/ /\ ~listening /\ Goto(n, "done")
          /\ Ask(n, IF client[n] = "waiting" THEN "failed" ELSE client[n])
    /\ UNCHANGED <<process, config, command, got, watchdog, todo>>

\* Mutant of Decode: a request that does not parse is dropped.
DecodeDrops(n) ==
    /\ Serving /\ server[n] = "decode"
    /\ IF command[n] \in {"SILENT", "INVALID"}
       THEN (command[n] = "SILENT" => client[n] = "gave_up") /\ Goto(n, "done")
       ELSE Goto(n, command[n])
    /\ UNCHANGED <<process, config, command, client, got, watchdog, todo>>

\* Decode waits, without a deadline, for a client that sends nothing.
Decode(n) ==
    /\ Serving /\ server[n] = "decode"
    /\ IF command[n] = "SILENT"
       THEN client[n] = "gave_up" /\ Goto(n, "done")
       ELSE Goto(n, command[n])
    /\ UNCHANGED <<process, config, command, client, got, watchdog, todo>>

\* Mutant of GetConfig: the configuration the worker was started with.
GetConfigAtStart(n) ==
    /\ Serving /\ server[n] = "GET_CONFIG"
    /\ got' = [got EXCEPT ![n] = 0]
    /\ Goto(n, "respond")
    /\ UNCHANGED <<process, config, command, client, watchdog, todo>>

GetConfig(n) ==
    /\ Serving /\ server[n] = "GET_CONFIG"
    /\ got' = [got EXCEPT ![n] = settings]
    /\ Goto(n, "respond")
    /\ UNCHANGED <<process, config, command, client, watchdog, todo>>

\* Mutant of ReloadConfig: the answer is sent before the reload.
ReloadConfigLater(n) ==
    /\ Serving /\ server[n] = "RELOAD"
    /\ Goto(n, "respond")
    /\ UNCHANGED <<process, config, command, client, got, watchdog, todo>>

\* ReloadConfigString replaces the settings, and what Nebula makes of them it
\* keeps to itself.
ReloadConfig(n) ==
    /\ Serving /\ server[n] = "RELOAD"
    /\ settings' = n
    /\ Goto(n, "respond")
    /\ UNCHANGED <<process, overdue, command, client, got, watchdog, todo>>

\* sendResponse; a STOP is answered before the shutdown begins.
SendResponse(n) ==
    /\ Serving /\ server[n] \in {"respond", "PING", "STOP", "INVALID"}
    /\ LET answer == IF server[n] = "INVALID" THEN "failed" ELSE "ok" IN
       Ask(n, IF client[n] = "waiting" THEN answer ELSE client[n])
    /\ Goto(n, "done")
    /\ todo' = IF server[n] = "STOP" THEN [todo EXCEPT ![n] = ShutdownCalls] ELSE todo
    /\ UNCHANGED <<process, config, command, got, watchdog>>
-----------------------------------------------------------------------------
(* watchCertExpiry.                                                        *)

\* Mutant of CertExpiry: the configuration the worker was started with.
CertExpiryAtStart == 0

\* getCertExpiry reads the live configuration.
CertExpiry == settings

Acknowledged ==
    {0} \cup {n \in Requests : command[n] = "RELOAD" /\ client[n] = "ok"}

\* A tick may be taken though ctx is done by then.
WatchReads ==
    /\ Serving /\ watch = "tick"
    /\ watch' = "compare"
    /\ seen' = CertExpiry
    /\ known' \in {n \in Acknowledged : \A m \in Acknowledged : m <= n}
    /\ UNCHANGED <<process, config, requests, todo>>

\* A RELOAD that is served meanwhile does not stop the shutdown.
WatchCompares ==
    /\ Serving /\ watch = "compare"
    /\ IF seen <= overdue
       THEN watch' = "shutdown" /\ todo' = [todo EXCEPT ![Watchdog] = ShutdownCalls]
       ELSE watch' = "tick" /\ UNCHANGED todo
    /\ seen' = -1 /\ known' = -1
    /\ UNCHANGED <<process, config, requests>>

Handle(n) ==
    \/ AcceptConnection(n) \/ Decode(n)
    \/ GetConfig(n) \/ ReloadConfig(n) \/ SendResponse(n)

Next ==
    \/ StartNebula \/ StartSocketServer \/ AcceptEnds \/ Kill
    \/ Expire \/ WatchReads \/ WatchCompares
    \/ \E x \in Requests \cup {Watchdog} : Shutdown(x)
    \/ \E n \in Requests : Connect(n) \/ GiveUp(n) \/ Handle(n)

Spec == Init /\ [][Next]_vars

\* The goroutines of the process go on as long as it lives.
FairSpec ==
    /\ Spec
    /\ WF_vars(AcceptEnds)
    /\ \A x \in Requests \cup {Watchdog} : WF_vars(Shutdown(x))
    /\ \A n \in Requests : WF_vars(Handle(n))
-----------------------------------------------------------------------------
(* Properties.                                                             *)

\* The variables hold values of their types.
TypeOK ==
    /\ main \in {"nebula", "socket", "serve", "exited", "failed", "killed"}
    /\ nebula \in {"off", "on", "stopped"}
    /\ file \in BOOLEAN /\ listening \in BOOLEAN /\ cancelled \in BOOLEAN
    /\ settings \in 0 .. NReqs /\ overdue \in -1 .. NReqs
    /\ command \in [Requests -> Commands]
    /\ client \in [Requests -> {"idle", "waiting", "ok", "failed", "gave_up"}]
    /\ server \in [Requests -> {"none", "queued", "decode", "respond", "done"}
                                  \cup Commands]
    /\ got \in [Requests -> -1 .. NReqs]
    /\ watch \in {"off", "tick", "compare", "shutdown"}
    /\ seen \in -1 .. NReqs /\ known \in -1 .. NReqs
    /\ todo \in [Requests \cup {Watchdog} -> Seq({"nebula", "cancel", "close", "remove"})]

\* A client that waits for a worker is not forgotten: its connection is in
\* the queue or in the hands of a goroutine (worker.go:199-263).
WorkerOK ==
    /\ TypeOK
    /\ \A n \in Requests :
          client[n] = "waiting" => Serving /\ server[n] \notin {"none", "done"}

\* The configuration n is newer than the worker's, and the agent was told
\* that the worker has it.
Newer(n) == command[n] = "RELOAD" /\ client[n] = "ok" /\ n > settings

\* A RELOAD that was answered with success is in effect until a newer one is,
\* unless one whose client had given up is served late and puts its older
\* certificate back (client.go:20, worker.go:267).
AcknowledgedInEffect ==
    \A n \in Requests : Newer(n) =>
        settings \in Requests /\ client[settings] = "gave_up"

\* The agent never reads a configuration older than one it was told is in
\* effect before it asked, with the same exception.
ReadsItsReloads ==
    \A n, m \in Requests :
        /\ client[n] = "ok" /\ command[n] = "GET_CONFIG"
        /\ client[m] = "ok" /\ command[m] = "RELOAD"
        /\ got[n] < m /\ m < n
        => got[n] \in Requests /\ client[got[n]] = "gave_up"

\* "An expired cert means the agent missed several rotation windows"
\* (worker.go:115): when the watchdog begins its shutdown, every certificate
\* that the agent had been told is in effect when the watchdog looked has run
\* out, with the same exception.  One that arrives between its look and its
\* shutdown does not save the worker.
WatchdogSpares ==
    [][ watch = "compare" /\ watch' = "shutdown" =>
          \/ known <= overdue
          \/ seen \in Requests /\ client[seen] = "gave_up" ]_vars

\* A worker that ends by itself leaves neither its socket file nor a running
\* Nebula, however the shutdowns of several actors interleave with each other
\* and with the end of the process, which waits for none of them; and the
\* loop that accepts connections never spins on a closed listener
\* (worker.go:194, 280).
OrderlyExit ==
    /\ main = "exited" => ~file /\ nebula = "stopped"
    /\ main = "failed" => nebula # "on"
    /\ Serving /\ ~listening => cancelled

\* A worker that has acknowledged a STOP, and one that its watchdog shuts
\* down, ends, even if a client sits on its connection and sends nothing
\* (worker.go:221, 253).
ShutdownEnds ==
    (\/ watch = "shutdown"
     \/ \E n \in Requests : command[n] = "STOP" /\ client[n] = "ok") ~> Ended
-----------------------------------------------------------------------------
(* The inductive invariant of WorkerProcessProofs.tla.                     *)

\* The shutdown of x has made the calls that are not left to it.
Made(x) ==
    \/ todo[x] \in {<< >>, ShutdownCalls}
    \/ /\ nebula = "stopped"
       /\ \/ todo[x] = <<"cancel", "close", "remove">>
          \/ todo[x] = <<"close", "remove">> /\ cancelled
          \/ todo[x] = <<"remove">> /\ cancelled /\ ~listening

\* What is shut down, and what the process leaves behind, follows the order
\* of the calls.
InOrder ==
    /\ main = "nebula" => nebula = "off"
    /\ main \in {"nebula", "socket"} =>
          ~cancelled /\ \A x \in Requests \cup {Watchdog} : todo[x] = << >>
    /\ listening => Serving
    /\ Serving => \A x \in Requests \cup {Watchdog} : Made(x)
    /\ Serving /\ cancelled => nebula = "stopped"
    /\ Serving /\ ~listening => ~file
    /\ OrderlyExit

\* The goroutine of request n is at work.
InHands(n) == server[n] \notin {"none", "done"}

\* A connection is made for a client, to a worker that listens; it is answered
\* at its end, and it asks for what the client asked.
Connections ==
    \A n \in Requests :
        /\ main \in {"nebula", "socket"} => server[n] = "none"
        /\ server[n] = "none" <=> client[n] = "idle"
        /\ Serving /\ InHands(n) => client[n] \in {"waiting", "gave_up"}
        /\ server[n] \in Commands => server[n] = command[n]

\* The agent sends a request when it has the answers to those before, or has
\* given them up.
OneAtATime ==
    \A n \in FromAgent : client[n] # "idle" =>
        \A m \in FromAgent : m < n => client[m] \notin {"idle", "waiting"}

\* Request n is a RELOAD that has been served.
Served(n) ==
    command[n] = "RELOAD" /\ (server[n] = "respond" \/ client[n] = "ok")

\* The configuration c is not older than that of request n, or it is one that
\* its client had given up.
Covers(c, n) == n <= c \/ (c \in Requests /\ client[c] = "gave_up")

\* What the worker has, what a GET_CONFIG has read and what the watchdog looks
\* at covers every RELOAD that was served before.
ReloadsKept ==
    /\ \A n \in Requests : Served(n) => Covers(settings, n)
    /\ \A n \in Requests :
          command[n] = "GET_CONFIG" /\ (server[n] = "respond" \/ client[n] = "ok") =>
              \A m \in Requests :
                  Served(m) /\ client[m] = "ok" /\ m < n => Covers(got[n], m)
    /\ watch = "compare" => Covers(seen, known)

WorkerInv == WorkerOK /\ InOrder /\ Connections /\ OneAtATime /\ ReloadsKept
=============================================================================
