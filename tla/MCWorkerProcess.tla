-------------------------- MODULE MCWorkerProcess --------------------------
(* Small instances of WorkerProcess for TLC. *)
EXTENDS WorkerProcess

\* The agent rotates and reads the configuration; a rotation races a STOP;
\* two STOPs race each other and the watchdog while a client is silent;
\* requests fail.
SixScripts == {
    <<"RELOAD", "RELOAD", "RELOAD", "GET_CONFIG">>,
    <<"RELOAD", "GET_CONFIG", "RELOAD", "NONE">>,
    <<"RELOAD", "RELOAD", "STOP", "NONE">>,
    <<"STOP", "STOP", "SILENT", "NONE">>,
    <<"RELOAD", "STOP", "SILENT", "NONE">>,
    <<"RELOAD", "INVALID", "PING", "NONE">> }
=============================================================================
