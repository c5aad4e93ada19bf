--------------------------- MODULE SidecarLifecycle ---------------------------
(***************************************************************************)
(* Who starts and stops the inference sidecar: instances of the capture    *)
(* app, which probe the port and else spawn a start script (sidecar.rs),   *)
(* and operators who run start.sh and stop.sh themselves.  All want the    *)
(* same port, and the scripts of one kind share a PID file.                *)
(*                                                                         *)
(* Spawned by an app, the mlx script becomes the server (exec); in all     *)
(* other cases the server is a process of its own (nohup), tracked by the  *)
(* PID file, and the script waits for it to answer.                        *)
(***************************************************************************)
EXTENDS Naturals, FiniteSets

CONSTANTS
  Apps,       \* instances of the app
  Operators,  \* runs of a start script by hand
  Kind,       \* GW_SIDECAR_KIND of each of these, or the script run
  Nobody,     \* no process, or no PID file
  EmptyFile   \* a PID file that nothing is written to yet

Launchers == Apps \cup Operators
Kinds     == {"mlx", "mistralrs"}

ASSUME LaunchersAssumption ==
  /\ Nobody \notin Launchers
  /\ EmptyFile \notin Launchers \cup {Nobody}
  /\ Apps \cap Operators = {}
  /\ Kind \in [Launchers -> Kinds]

VARIABLES
  app,      \* where each instance is
  held,     \* it holds the handle of a script it spawned
  script,   \* the start script of each launcher
  server,   \* the server that script started
  port,     \* whose server has the port
  pidFile,  \* per kind, whose server the PID file names
  stopping, \* per kind, whose server a stop.sh has read in it
  \* history
  crossed   \* whose script met another one between check and write

sidecars == <<app, held, script, server, port, pidFile, stopping, crossed>>

SidecarInit ==
  /\ app = [a \in Apps |-> "off"]
  /\ held = [a \in Apps |-> FALSE]
  /\ script = [l \in Launchers |-> "none"]
  /\ server = [l \in Launchers |-> "none"]
  /\ port = Nobody
  /\ pidFile = [k \in Kinds |-> Nobody]
  /\ stopping = [k \in Kinds |-> Nobody]
  /\ crossed = {}

Alive(l) == l \in Launchers /\ server[l] \in {"starting", "listening"}

Foreground(l) == l \in Apps /\ Kind[l] = "mlx"

-----------------------------------------------------------------------------
(* The app: ensure_sidecar runs before the window is there.                *)

Probe(a) ==
  /\ app[a] = "off"
  /\ app' = [app EXCEPT ![a] = IF port # Nobody THEN "up" ELSE "probed"]
  /\ UNCHANGED <<held, script, server, port, pidFile, stopping, crossed>>

\* The app goes up without a sidecar when no script is found or spawned.
Spawn(a) ==
  /\ app[a] = "probed"
  /\ app' = [app EXCEPT ![a] = "up"]
  /\ \/ /\ held' = [held EXCEPT ![a] = TRUE]
        /\ script' = [script EXCEPT ![a] = "running"]
     \/ UNCHANGED <<held, script>>
  /\ UNCHANGED <<server, port, pidFile, stopping, crossed>>

\* Slip: the handle is dropped, which does not end the process.
HandleDropped(a) ==
  /\ app[a] = "up"
  /\ app' = [app EXCEPT ![a] = "exited"]
  /\ held' = [held EXCEPT ![a] = FALSE]
  /\ UNCHANGED <<script, server, port, pidFile, stopping, crossed>>

\* States of a script whose server runs and is in no PID file yet.
Unrecorded == {"started", "writing", "cutOff"}

\* A script that ends then is cut off.
Ended(l) == IF script[l] \in Unrecorded THEN "cutOff" ELSE "ended"

\* The processes of a set of launchers are gone.
Gone(scripts, servers) ==
  /\ script' = [l \in Launchers |->
       IF l \in scripts /\ script[l] # "none" THEN Ended(l) ELSE script[l]]
  /\ server' = [l \in Launchers |->
       IF l \in servers /\ Alive(l) THEN "dead" ELSE server[l]]
  /\ port' = IF port \in servers THEN Nobody ELSE port

\* ExitRequested: shutdown kills the child it holds and waits for it.  A
\* server that is not the child itself is not touched.
Exit(a) ==
  /\ app[a] = "up"
  /\ app' = [app EXCEPT ![a] = "exited"]
  /\ held' = [held EXCEPT ![a] = FALSE]
  /\ LET child == IF held[a] THEN {a} ELSE {}
     IN Gone(child, {l \in child : script[l] = "server"})
  /\ UNCHANGED <<pidFile, stopping, crossed>>

\* dev.mjs on SIGINT: the process group gets SIGTERM, the app is not asked.
Interrupt(a) ==
  /\ app[a] \in {"probed", "up"}
  /\ app' = [app EXCEPT ![a] = "exited"]
  /\ held' = [held EXCEPT ![a] = FALSE]
  /\ Gone({a}, {a})
  /\ UNCHANGED <<pidFile, stopping, crossed>>

\* Killed by hand or by a fault: what it started goes on without it.
CrashApp(a) ==
  /\ app[a] \in {"probed", "up"}
  /\ app' = [app EXCEPT ![a] = "crashed"]
  /\ held' = [held EXCEPT ![a] = FALSE]
  /\ UNCHANGED <<script, server, port, pidFile, stopping, crossed>>

-----------------------------------------------------------------------------
(* The scripts.                                                            *)

RunByHand(o) ==
  /\ o \in Operators
  /\ script[o] = "none"
  /\ script' = [script EXCEPT ![o] = "running"]
  /\ UNCHANGED <<app, held, server, port, pidFile, stopping, crossed>>

\* Scripts of the kind between the check of the PID file and the write.
Between(k) == {l \in Launchers : /\ Kind[l] = k /\ ~Foreground(l)
                                 /\ script[l] \in {"checked", "started", "writing"}}

\* Slip: the PID file is cleaned up without a look at the process.
NeverTracked(k) == FALSE

\* kill -0 of the tracked process.
Tracked(k) == Alive(pidFile[k])

\* mlx removes a stale file now, mistralrs overwrites it later.
CheckPidFile(l) ==
  /\ script[l] = "running"
  /\ LET k == Kind[l]
     IN /\ script' = [script EXCEPT ![l] = IF Tracked(k) THEN "ended"
                                           ELSE "checked"]
        /\ pidFile' = [pidFile EXCEPT ![k] = IF k = "mlx" /\ ~Tracked(k) THEN Nobody
                                              ELSE @]
        /\ crossed' = IF Between(k) = {} /\ stopping[k] = Nobody THEN crossed
                      ELSE crossed \cup Between(k) \cup {l}
  /\ UNCHANGED <<app, held, server, port, stopping>>

\* uv sync, the pin of the binary, a host that is not loopback; under
\* set -e also the echo into the PID file, which cannot open it or write it.
ScriptFails(l) ==
  /\ script[l] \in {"running", "checked", "started", "writing"}
  /\ script' = [script EXCEPT ![l] = Ended(l)]
  /\ UNCHANGED <<app, held, server, port, pidFile, stopping, crossed>>

StartServer(l) ==
  /\ script[l] = "checked"
  /\ server' = [server EXCEPT ![l] = "starting"]
  /\ script' = [script EXCEPT ![l] = IF Foreground(l) THEN "server"
                                     ELSE "started"]
  /\ UNCHANGED <<app, held, port, pidFile, stopping, crossed>>

\* The server runs by now, with or without the script; echo empties the
\* file before it writes.
OpenPid(l) ==
  /\ script[l] = "started"
  /\ script' = [script EXCEPT ![l] = "writing"]
  /\ pidFile' = [pidFile EXCEPT ![Kind[l]] = EmptyFile]
  /\ UNCHANGED <<app, held, server, port, stopping, crossed>>

WritePid(l) ==
  /\ script[l] = "writing"
  /\ script' = [script EXCEPT ![l] = "waiting"]
  /\ pidFile' = [pidFile EXCEPT ![Kind[l]] = l]
  /\ UNCHANGED <<app, held, server, port, stopping, crossed>>

\* It answers, it died, or 240 seconds are over.
WaitEnds(l) ==
  /\ script[l] = "waiting"
  /\ script' = [script EXCEPT ![l] = "ended"]
  /\ UNCHANGED <<app, held, server, port, pidFile, stopping, crossed>>

\* A port that is taken ends the server.
Bind(l) ==
  /\ server[l] = "starting"
  /\ IF port = Nobody
     THEN /\ server' = [server EXCEPT ![l] = "listening"]
          /\ port' = l
     ELSE /\ server' = [server EXCEPT ![l] = "dead"]
          /\ UNCHANGED port
  /\ UNCHANGED <<app, held, script, pidFile, stopping, crossed>>

ServerDies(l) ==
  /\ Alive(l)
  /\ Gone({m \in {l} : script[m] = "server"}, {l})
  /\ UNCHANGED <<app, held, pidFile, stopping, crossed>>

\* stop.sh reads the file and kills, then waits for the process and removes
\* the file, whatever it says by then.
StopKills(k) ==
  /\ stopping[k] = Nobody
  /\ pidFile[k] # Nobody
  /\ Gone({}, {pidFile[k]})
  /\ stopping' = [stopping EXCEPT ![k] = pidFile[k]]
  /\ crossed' = crossed \cup Between(k)
  /\ UNCHANGED <<app, held, pidFile>>

StopRemoves(k) ==
  /\ stopping[k] # Nobody
  /\ stopping' = [stopping EXCEPT ![k] = Nobody]
  /\ pidFile' = [pidFile EXCEPT ![k] = Nobody]
  /\ UNCHANGED <<app, held, script, server, port, crossed>>

ScriptStep(l) ==
  \/ CheckPidFile(l) \/ StartServer(l) \/ OpenPid(l) \/ WritePid(l)
  \/ WaitEnds(l) \/ Bind(l)

SidecarStep ==
  \/ \E a \in Apps : Probe(a) \/ Spawn(a) \/ Exit(a)
  \/ \E l \in Launchers : RunByHand(l) \/ ScriptStep(l)
  \/ \E k \in Kinds : StopKills(k) \/ StopRemoves(k)

SidecarFault ==
  \/ \E a \in Apps : Interrupt(a) \/ CrashApp(a)
  \/ \E l \in Launchers : ScriptFails(l) \/ ServerDies(l)

-----------------------------------------------------------------------------
SidecarTypeOK ==
  /\ app \in [Apps -> {"off", "probed", "up", "exited", "crashed"}]
  /\ held \in [Apps -> BOOLEAN]
  /\ script \in [Launchers -> {"none", "running", "checked", "started",
                               "writing", "waiting", "server", "cutOff",
                               "ended"}]
  /\ server \in [Launchers -> {"none", "starting", "listening", "dead"}]
  /\ port \in Launchers \cup {Nobody}
  /\ pidFile \in [Kinds -> Launchers \cup {Nobody, EmptyFile}]
  /\ stopping \in [Kinds -> Launchers \cup {Nobody, EmptyFile}]
  /\ crossed \subseteq Launchers

\* An app that was closed leaves no mlx script or server of its own, at
\* whatever point of its start the sidecar was (sidecar.rs, shutdown).
NothingLeftRunning ==
  \A a \in Apps :
    app[a] = "exited" /\ Kind[a] = "mlx" =>
      script[a] \in {"none", "ended"} /\ ~Alive(a)

\* A server in the background that is alive is the one its PID file names,
\* so that stop.sh finds it and no second one is started next to it.  Only
\* two things come between: its script met another script or a stop of its
\* kind between check and write, or ended after it had started the server
\* and before it had written its process id (start.sh, stop.sh of both
\* kinds; sidecar.rs, shutdown).
BackgroundIsTracked ==
  \A l \in Launchers : Alive(l) /\ ~Foreground(l) =>
    \/ pidFile[Kind[l]] = l
    \/ l \in crossed
    \/ script[l] \in Unrecorded
=============================================================================
