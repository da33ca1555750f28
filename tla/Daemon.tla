------------------------------- MODULE Daemon -------------------------------
(***************************************************************************)
(* The life of the chowdyd process: main.cpp, the accept loops of          *)
(* server.cpp and the two sleeping threads, from the installation of the   *)
(* signal handlers to the end of the process.                              *)
(*                                                                         *)
(* The threads: main; one accept loop per listening socket; "ping", which  *)
(* feeds the systemd watchdog; "idle", the camera watchdog of Pipeline;    *)
(* and one detached thread per accepted connection, which main never joins *)
(* and which uses the objects on main's stack.  A signal handler runs on   *)
(* top of one of them, which stands still meanwhile: the kernel takes the  *)
(* main thread, unless it is in the handler of the same signal already.    *)
(***************************************************************************)
EXTENDS Integers, FiniteSets

CONSTANTS
    Conns,      \* the connections clients make
    Signals,    \* the SIGINTs and SIGTERMs the process receives
    Faults      \* what may fail: a subset of AllFaults

AllFaults == {"poll", "accept", "thread"}

Loops == {"auth", "mgmt"}

\* "ping" runs when systemd has set WATCHDOG_USEC, "idle" when the camera policy
\* has a watchdog window.
Sleepers == {"ping", "idle"}

ASSUME DaemonAssumption ==
    /\ IsFiniteSet(Signals)
    /\ Faults \subseteq AllFaults
    /\ Conns \cap ({"main"} \cup Loops \cup Sleepers) = {}

VARIABLES
    main,       \* where main() is
    objects,    \* the objects on its stack that are alive
    g_server,   \* "set" when the signal handler can find the server
    stopping,   \* stopping_
    wake,       \* bytes in the self-pipe, which nobody reads
    loop,       \* where each accept loop is
    sleeper,    \* where each sleeper is
    told,       \* the sleepers whose stop flag is set: wd_stop, idle_stop_
    conn,       \* each connection and its thread
    sock,       \* the socket it was made on
    sig,        \* the handler of each signal
    host        \* the thread it runs on

vars == <<main, objects, g_server, stopping, wake, loop, sleeper, told, conn, sock, sig, host>>

handlers == <<sig, host>>

Objects == {"pipeline", "store", "server"}

MainPCs == {"init", "ready", "published", "armed", "joining", "joined", "join_ping",
            "close_server", "close_pipeline", "join_idle", "returning", "exited"}

ConnStates == {"away", "queued", "serving", "capturing", "wedged", "done"}

TypeOK ==
    /\ main \in MainPCs
    /\ objects \subseteq Objects
    /\ g_server \in {"null", "set"}
    /\ stopping \in BOOLEAN
    /\ wake \in 0 .. Cardinality(Signals) + 1
    /\ loop \in [Loops -> {"off", "top", "poll", "accept", "done"}]
    /\ sleeper \in [Sleepers -> {"off", "top", "checked", "asleep", "acting", "done"}]
    /\ told \subseteq Sleepers
    /\ conn \in [Conns -> ConnStates]
    /\ sock \in [Conns -> Loops]
    /\ sig \in [Signals -> {"unsent", "loaded", "flagged", "stopped", "ignored"}]
    /\ host \in [Signals -> {"main"} \cup Loops \cup Sleepers \cup Conns]

-----------------------------------------------------------------------------
Live == main # "exited"

\* The handler of s is at work.
Handling(s) == sig[s] \in {"loaded", "flagged"}

\* Thread x is not interrupted by a signal handler.
Runs(x) == \A s \in Signals : ~(Handling(s) /\ host[s] = x)

At(here) == main = here /\ Runs("main")

\* Somebody holds Pipeline::mu_.
Captured == \E c \in Conns : conn[c] \in {"capturing", "wedged"}

Init ==
    /\ main = "init" /\ objects = {}
    /\ g_server = "null" /\ stopping = FALSE /\ wake = 0
    /\ loop = [k \in Loops |-> "off"]
    /\ sleeper = [x \in Sleepers |-> "off"] /\ told = {}
    /\ conn = [c \in Conns |-> "away"] /\ sock = [c \in Conns |-> "auth"]
    /\ sig = [s \in Signals |-> "unsent"] /\ host = [s \in Signals |-> "main"]

(* main, in program order.  The constructors; Pipeline's starts the camera watchdog
   if the policy has one. *)
Construct ==
    /\ At("init")
    /\ objects' = Objects
    /\ sleeper' \in {sleeper, [sleeper EXCEPT !["idle"] = "top"]}
    /\ main' = "ready"
    /\ UNCHANGED <<g_server, stopping, wake, loop, told, conn, sock, handlers>>

\* A constructor throws (a missing model, a socket that cannot be bound).
ConstructThrows ==
    /\ At("init")
    /\ main' = "exited"
    /\ UNCHANGED <<objects, g_server, stopping, wake, loop, sleeper, told, conn, sock, handlers>>

Publish ==
    /\ At("ready")
    /\ g_server' = "set"
    /\ main' = "published"
    /\ UNCHANGED <<objects, stopping, wake, loop, sleeper, told, conn, sock, handlers>>

\* READY=1, and the ping thread when systemd wants pings.
Arm ==
    /\ At("published")
    /\ sleeper' \in {sleeper, [sleeper EXCEPT !["ping"] = "top"]}
    /\ main' = "armed"
    /\ UNCHANGED <<objects, g_server, stopping, wake, loop, told, conn, sock, handlers>>

\* Server::run, up to its join.
Run ==
    /\ At("armed")
    /\ loop' = [k \in Loops |-> "top"]
    /\ main' = "joining"
    /\ UNCHANGED <<objects, g_server, stopping, wake, sleeper, told, conn, sock, handlers>>

\* std::thread throws in main.  While another std::thread is still joinable the
\* unwinding ends in std::terminate; otherwise the catch clause is reached, by way
\* of the destructors and not of g_server.store(nullptr).
SpawnThrows ==
    /\ "thread" \in Faults
    /\ \/ At("published") /\ main' = "close_server"
       \/ At("armed") /\ sleeper["ping"] = "off" /\ main' = "close_server"
       \/ At("armed") /\ main' = "exited"
    /\ UNCHANGED <<objects, g_server, stopping, wake, loop, sleeper, told, conn, sock, handlers>>

\* Mutant of JoinLoops: run() waits for the auth loop only.
JoinLoops_First ==
    /\ At("joining") /\ loop["auth"] = "done"
    /\ main' = "joined"
    /\ UNCHANGED <<objects, g_server, stopping, wake, loop, sleeper, told, conn, sock, handlers>>

JoinLoops ==
    /\ At("joining") /\ \A k \in Loops : loop[k] = "done"
    /\ main' = "joined"
    /\ UNCHANGED <<objects, g_server, stopping, wake, loop, sleeper, told, conn, sock, handlers>>

\* Set the stop flag, then notify_all, both without the sleeper's mutex: only a
\* sleeper that is already asleep hears it.
Notify(x) ==
    /\ told' = told \cup {x}
    /\ sleeper' = IF sleeper[x] = "asleep" THEN [sleeper EXCEPT ![x] = "top"] ELSE sleeper

StopPing ==
    /\ At("joined")
    /\ Notify("ping")
    /\ main' = "join_ping"
    /\ UNCHANGED <<objects, g_server, stopping, wake, loop, conn, sock, handlers>>

\* Mutant of Unpublish: g_server still points at the server when it is destroyed.
Unpublish_Forgotten ==
    /\ At("join_ping") /\ sleeper["ping"] \in {"off", "done"}
    /\ main' = "close_server"
    /\ UNCHANGED <<objects, g_server, stopping, wake, loop, sleeper, told, conn, sock, handlers>>

Unpublish ==
    /\ At("join_ping") /\ sleeper["ping"] \in {"off", "done"}
    /\ g_server' = "null"
    /\ main' = "close_server"
    /\ UNCHANGED <<objects, stopping, wake, loop, sleeper, told, conn, sock, handlers>>

\* ~Server (which calls stop() once more), then ~EnrollSessionManager and ~EnrollmentStore.
CloseServer ==
    /\ At("close_server")
    /\ objects' = {"pipeline"}
    /\ stopping' = TRUE /\ wake' = wake + 1
    /\ main' = "close_pipeline"
    /\ UNCHANGED <<g_server, loop, sleeper, told, conn, sock, handlers>>

\* ~Pipeline: stop the camera watchdog, ...
StopIdle ==
    /\ At("close_pipeline")
    /\ Notify("idle")
    /\ main' = "join_idle"
    /\ UNCHANGED <<objects, g_server, stopping, wake, loop, conn, sock, handlers>>

\* ... join it, stop the stream (without mu_), and the object is gone.
ClosePipeline ==
    /\ At("join_idle") /\ sleeper["idle"] \in {"off", "done"}
    /\ objects' = {}
    /\ main' = "returning"
    /\ UNCHANGED <<g_server, stopping, wake, loop, sleeper, told, conn, sock, handlers>>

\* The process ends, whatever its detached threads are doing.
Return ==
    /\ At("returning")
    /\ main' = "exited"
    /\ UNCHANGED <<objects, g_server, stopping, wake, loop, sleeper, told, conn, sock, handlers>>

Main ==
    \/ Construct \/ ConstructThrows \/ Publish \/ Arm \/ Run \/ SpawnThrows \/ JoinLoops
    \/ StopPing \/ Unpublish \/ CloseServer \/ StopIdle \/ ClosePipeline \/ Return

-----------------------------------------------------------------------------
\* The threads that a signal may interrupt while main is in a handler.
Others ==
    { k \in Loops : loop[k] \notin {"off", "done"} }
    \cup { x \in Sleepers : sleeper[x] \notin {"off", "done"} }
    \cup { c \in Conns : conn[c] \in {"serving", "capturing", "wedged"} }

(* on_signal: load g_server, ... *)
OnSignal(s) ==
    /\ Live /\ sig[s] = "unsent"
    /\ \/ /\ g_server = "set"
          /\ sig' = [sig EXCEPT ![s] = "loaded"]
          /\ \E h \in {"main"} \cup (IF Runs("main") THEN {} ELSE Others) :
                host' = [host EXCEPT ![s] = h]
       \/ /\ g_server = "null"
          /\ sig' = [sig EXCEPT ![s] = "ignored"] /\ UNCHANGED host
    /\ UNCHANGED <<main, objects, g_server, stopping, wake, loop, sleeper, told, conn, sock>>

(* ... and Server::stop: first the flag, ... *)
StopFlag(s) ==
    /\ Live /\ sig[s] = "loaded"
    /\ stopping' = TRUE
    /\ sig' = [sig EXCEPT ![s] = "flagged"]
    /\ UNCHANGED <<main, objects, g_server, wake, loop, sleeper, told, conn, sock, host>>

\* Mutant of StopWake: the write is repeated.
StopWake_Twice(s) ==
    /\ Live /\ sig[s] = "flagged"
    /\ wake' = wake + 2
    /\ sig' = [sig EXCEPT ![s] = "stopped"]
    /\ UNCHANGED <<main, objects, g_server, stopping, loop, sleeper, told, conn, sock, host>>

(* ... then the byte. *)
StopWake(s) ==
    /\ Live /\ sig[s] = "flagged"
    /\ wake' = wake + 1
    /\ sig' = [sig EXCEPT ![s] = "stopped"]
    /\ UNCHANGED <<main, objects, g_server, stopping, loop, sleeper, told, conn, sock, host>>

-----------------------------------------------------------------------------
(* accept_loop. *)

Queue(k) == { c \in Conns : conn[c] = "queued" /\ sock[c] = k }

LoopGoto(k, where) == loop' = [loop EXCEPT ![k] = where]

\* while (!stopping_.load())
LoopTop(k) ==
    /\ Live /\ loop[k] = "top" /\ Runs(k)
    /\ LoopGoto(k, IF stopping THEN "done" ELSE "poll")
    /\ UNCHANGED <<main, objects, g_server, stopping, wake, sleeper, told, conn, sock, handlers>>

\* Mutant of PollReturns: the loop that is woken up reads the byte.
PollReturns_Drains(k) ==
    /\ Live /\ loop[k] = "poll" /\ Runs(k) /\ (wake > 0 \/ Queue(k) # {})
    /\ LoopGoto(k, IF stopping THEN "done" ELSE IF Queue(k) # {} THEN "accept" ELSE "top")
    /\ wake' = IF wake > 0 THEN wake - 1 ELSE 0
    /\ UNCHANGED <<main, objects, g_server, stopping, sleeper, told, conn, sock, handlers>>

\* poll returns for a connection or for the byte, which stays in the pipe; the flag
\* is looked at again before the connection is.
PollReturns(k) ==
    /\ Live /\ loop[k] = "poll" /\ Runs(k) /\ (wake > 0 \/ Queue(k) # {})
    /\ LoopGoto(k, IF stopping THEN "done" ELSE IF Queue(k) # {} THEN "accept" ELSE "top")
    /\ UNCHANGED <<main, objects, g_server, stopping, wake, sleeper, told, conn, sock, handlers>>

\* poll fails: EINTR goes round, anything else ends this loop and only this one.
PollFails(k) ==
    /\ Live /\ loop[k] = "poll" /\ Runs(k)
    /\ \/ LoopGoto(k, "top")
       \/ "poll" \in Faults /\ LoopGoto(k, "done")
    /\ UNCHANGED <<main, objects, g_server, stopping, wake, sleeper, told, conn, sock, handlers>>

\* accept4, then a detached thread for the connection.
Accept(k) ==
    /\ Live /\ loop[k] = "accept" /\ Runs(k)
    /\ \E c \in Queue(k) : conn' = [conn EXCEPT ![c] = "serving"]
    /\ LoopGoto(k, "top")
    /\ UNCHANGED <<main, objects, g_server, stopping, wake, sleeper, told, sock, handlers>>

\* accept4 fails and the connection stays where it is.
AcceptFails(k) ==
    /\ Live /\ loop[k] = "accept" /\ Runs(k) /\ "accept" \in Faults
    /\ LoopGoto(k, "top")
    /\ UNCHANGED <<main, objects, g_server, stopping, wake, sleeper, told, conn, sock, handlers>>

\* std::thread throws where nobody catches it: std::terminate.
AcceptThrows(k) ==
    /\ Live /\ loop[k] = "accept" /\ Runs(k) /\ "thread" \in Faults
    /\ main' = "exited"
    /\ UNCHANGED <<objects, g_server, stopping, wake, loop, sleeper, told, conn, sock, handlers>>

AcceptLoop(k) ==
    LoopTop(k) \/ PollReturns(k) \/ PollFails(k) \/ Accept(k) \/ AcceptFails(k) \/ AcceptThrows(k)

-----------------------------------------------------------------------------
(* The sleepers: the ping thread of main and Pipeline::idle_keeper_loop are the same
   loop: look at the stop flag, and wait_for half a period with the flag as predicate.
   Between the last look at the flag and falling asleep a notification is lost. *)

SleeperGoto(x, where) == sleeper' = [sleeper EXCEPT ![x] = where]

SleeperOnly == UNCHANGED <<main, objects, g_server, stopping, wake, loop, told, conn, sock, handlers>>

\* The flag is not set: ping sends WATCHDOG=1 and the predicate is evaluated.
Check(x) ==
    /\ Live /\ sleeper[x] = "top" /\ Runs(x)
    /\ SleeperGoto(x, IF x \in told THEN "done" ELSE "checked")
    /\ SleeperOnly

Sleep(x) ==
    /\ Live /\ sleeper[x] = "checked" /\ Runs(x)
    /\ SleeperGoto(x, "asleep")
    /\ SleeperOnly

\* Mutant of Timeout: wait() instead of wait_for().
Timeout_Never(x) == FALSE /\ UNCHANGED vars

\* Half a period is over.  The camera watchdog may find the camera idle and then
\* wants mu_.
Timeout(x) ==
    /\ Live /\ sleeper[x] = "asleep" /\ Runs(x)
    /\ \/ SleeperGoto(x, "top")
       \/ x = "idle" /\ x \notin told /\ SleeperGoto(x, "acting")
    /\ SleeperOnly

\* The critical section of the camera watchdog.
Act ==
    /\ Live /\ sleeper["idle"] = "acting" /\ Runs("idle") /\ ~Captured
    /\ SleeperGoto("idle", "top")
    /\ SleeperOnly

Sleeper(x) == Check(x) \/ Sleep(x) \/ Timeout(x) \/ (x = "idle" /\ Act)

-----------------------------------------------------------------------------
(* Connections and their threads. *)

ConnGoto(c, where) == conn' = [conn EXCEPT ![c] = where]

ConnOnly == UNCHANGED <<main, objects, g_server, stopping, wake, loop, sleeper, told, handlers>>

(* External: a client connects; systemd's sockets listen before the daemon does. *)
Connect(c, k) ==
    /\ Live /\ conn[c] = "away"
    /\ ConnGoto(c, "queued")
    /\ sock' = [sock EXCEPT ![c] = k]
    /\ ConnOnly

\* The handler takes mu_ for its capture loop.
Capture(c) ==
    /\ Live /\ conn[c] = "serving" /\ Runs(c) /\ ~Captured
    /\ ConnGoto(c, "capturing")
    /\ ConnOnly /\ UNCHANGED sock

\* It answers and ends; reads, writes and capture loops are all bounded in time.
Finish(c) ==
    /\ Live /\ conn[c] \in {"serving", "capturing"} /\ Runs(c)
    /\ ConnGoto(c, "done")
    /\ ConnOnly /\ UNCHANGED sock

(* External: an ioctl of the camera driver never returns. *)
Wedge(c) ==
    /\ Live /\ conn[c] = "capturing" /\ Runs(c)
    /\ ConnGoto(c, "wedged")
    /\ ConnOnly /\ UNCHANGED sock

Next ==
    \/ Main
    \/ \E s \in Signals : OnSignal(s) \/ StopFlag(s) \/ StopWake(s)
    \/ \E k \in Loops : AcceptLoop(k)
    \/ \E x \in Sleepers : Sleeper(x)
    \/ \E c \in Conns :
          \/ \E k \in Loops : Connect(c, k)
          \/ Capture(c) \/ Finish(c) \/ Wedge(c)

Spec == Init /\ [][Next]_vars

(* Fairness: every thread is scheduled, a started signal handler finishes, a sleep
   ends when its time is over, and a handler that is not wedged ends. *)
Fairness ==
    /\ WF_vars(Main)
    /\ \A s \in Signals : WF_vars(StopFlag(s)) /\ WF_vars(StopWake(s))
    /\ \A k \in Loops : WF_vars(LoopTop(k)) /\ WF_vars(PollReturns(k))
                        /\ WF_vars(Accept(k) \/ AcceptFails(k) \/ AcceptThrows(k))
    /\ \A x \in Sleepers : WF_vars(Sleeper(x))
    /\ \A c \in Conns : WF_vars(Finish(c))

FairSpec == Spec /\ Fairness

-----------------------------------------------------------------------------
(* Safety. *)

\* main is on its way out because of an exception: wd_stop was never set.
Unwinding ==
    /\ main \in {"close_server", "close_pipeline", "join_idle", "returning"}
    /\ "ping" \notin told

\* A signal handler that has found the server in g_server, at whatever point of the
\* shutdown it interrupts main, an accept loop or the ping thread, calls stop() on a living
\* object.  The unwinding of an exception destroys the server without clearing g_server
\* first.  A handler on any other thread is not safe, although server.hpp:41 says that stop()
\* "can be called from a signal handler thread": while main is in the handler of one SIGTERM
\* the next one interrupts the camera watchdog or a connection thread, and main goes on and
\* destroys the server before that handler has called stop().
StopFindsServer ==
    \A s \in Signals : Live /\ Handling(s) /\ host[s] \in {"main", "ping"} \cup Loops
                       => "server" \in objects \/ Unwinding

\* No joined thread outlives what it uses: the accept loops use the server, the camera
\* watchdog the pipeline, the ping thread main's local variables.
JoinedBeforeDestroyed ==
    Live => /\ (\E k \in Loops : loop[k] \notin {"off", "done"}) => "server" \in objects
            /\ sleeper["idle"] \notin {"off", "done"} => "pipeline" \in objects
            /\ sleeper["ping"] \notin {"off", "done"} => main # "close_server" /\ "server" \in objects

-----------------------------------------------------------------------------
(* Liveness, under Fairness. *)

\* stop() reaches both accept loops with one byte in one pipe, wherever they are.
StopEndsLoops ==
    \A k \in Loops : (stopping /\ main = "joining") ~> (loop[k] = "done" \/ ~Live)

\* Once stop() is called the process ends, although the condition variables are
\* notified without their mutex and the notification may be lost; the one exception is
\* a camera watchdog that waits for a mutex whose holder is wedged in the driver.
StopEndsProcess ==
    stopping ~> (~Live \/ (sleeper["idle"] = "acting" /\ \E c \in Conns : conn[c] = "wedged"))
=============================================================================
