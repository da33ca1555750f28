---------------------------- MODULE DaemonProofs ----------------------------
(***************************************************************************)
(* Proofs about Daemon: whatever fails and whenever signals arrive, no     *)
(* joined thread touches a destroyed object, and no signal handler on main *)
(* or on a thread that is joined before the server is destroyed.  The      *)
(* inductive invariant says, for each point of main, which objects exist,  *)
(* whether the server is published and which threads may be running.       *)
(***************************************************************************)
EXTENDS Daemon, FiniteSetTheorems, TLAPS

\* The types the argument needs.
Typed ==
    /\ main \in MainPCs
    /\ loop \in [Loops -> {"off", "top", "poll", "accept", "done"}]
    /\ sleeper \in [Sleepers -> {"off", "top", "checked", "asleep", "acting", "done"}]
    /\ sig \in [Signals -> {"unsent", "loaded", "flagged", "stopped", "ignored"}]
    /\ host \in [Signals -> {"main"} \cup Loops \cup Sleepers \cup Conns]

Serving == {"ready", "published", "armed", "joining", "joined", "join_ping"}

Closing == {"close_server", "close_pipeline", "join_idle", "returning"}

\* What is alive: everything from the constructors to ~Server, the pipeline longer.
Alive ==
    /\ main \in Serving \cup {"close_server"} => objects = Objects
    /\ main \in {"close_pipeline", "join_idle"} => "pipeline" \in objects

\* What is published: nothing before the constructors have run, and after the last
\* destructors only if an exception cut the shutdown short.
Published ==
    /\ main = "init" => g_server = "null"
    /\ main \in Closing /\ g_server = "set" => "ping" \notin told
    /\ main \in {"init"} \cup (Serving \ {"join_ping"}) => "ping" \notin told

\* The threads whose handlers main waits for before it destroys the server.
Waited == {"main", "ping"} \cup Loops

\* Their handlers have found the server, and they stand where they were interrupted.
Hosted ==
    Live => \A s \in Signals : Handling(s) /\ host[s] \in Waited =>
        /\ g_server = "set"
        /\ host[s] \in Loops => loop[host[s]] \notin {"off", "done"}
        /\ host[s] = "ping" => sleeper["ping"] \notin {"off", "done"}

\* Who runs: each thread only between its start and its join.
Joined ==
    Live => /\ \A k \in Loops : loop[k] \notin {"off", "done"} => main = "joining"
            /\ sleeper["ping"] \notin {"off", "done"}
               => main \in {"armed", "joining", "joined", "join_ping"}
            /\ sleeper["idle"] \notin {"off", "done"}
               => main \in Serving \cup {"close_server", "close_pipeline", "join_idle"}

Phases == Typed /\ Alive /\ Published /\ Joined /\ Hosted

-----------------------------------------------------------------------------
\* Steps of the other threads: main stays where it is, and nobody starts a thread that
\* main has not started.
Aside ==
    /\ UNCHANGED <<main, objects, g_server, told>>
    /\ \A k \in Loops : loop[k] \in {"off", "done"} => loop'[k] = loop[k]
    /\ \A x \in Sleepers : sleeper[x] \in {"off", "done"} => sleeper'[x] = sleeper[x]
    /\ \A k \in Loops : loop'[k] \in {"off", "done"} => loop'[k] = loop[k] \/ Runs(k)
    /\ sleeper'["ping"] \in {"off", "done"} => sleeper'["ping"] = sleeper["ping"] \/ Runs("ping")
    /\ \/ UNCHANGED handlers
       \/ /\ UNCHANGED <<loop, sleeper>>
          /\ \A s \in Signals :
                Handling(s)' => \/ Handling(s) /\ host'[s] = host[s]
                                \/ g_server = "set" /\ (host'[s] = "main" \/ host'[s] \in Others)

LEMMA ConnsAreThreads == \A c \in Conns : c \notin Loops \cup Sleepers \cup {"main"}
BY DaemonAssumption DEF DaemonAssumption

LEMMA AsideStep ==
    ASSUME Phases, Typed', Aside
    PROVE  Phases'
<1>1. Alive'
  BY DEF Aside, Phases, Alive
<1>2. Published'
  BY DEF Aside, Phases, Published
<1>3. Joined'
  BY DEF Aside, Phases, Joined, Live, Sleepers
<1>4. Hosted'
  <2> SUFFICES ASSUME Live', NEW s \in Signals, Handling(s)', host'[s] \in Waited
               PROVE  /\ g_server' = "set"
                      /\ host'[s] \in Loops => loop'[host'[s]] \notin {"off", "done"}
                      /\ host'[s] = "ping" => sleeper'["ping"] \notin {"off", "done"}
    BY DEF Hosted, Waited
  <2>1. Live /\ g_server' = g_server
    BY DEF Aside, Live
  <2>2. CASE UNCHANGED handlers
    <3>1. Handling(s) /\ host[s] = host'[s]
      BY <2>2 DEF Handling, handlers
    <3>2. /\ g_server = "set"
          /\ host[s] \in Loops => loop[host[s]] \notin {"off", "done"}
          /\ host[s] = "ping" => sleeper["ping"] \notin {"off", "done"}
      BY <2>1, <3>1 DEF Phases, Hosted
    <3>3. ~Runs(host[s])
      BY <3>1 DEF Runs
    <3>4. host[s] \in Loops => loop'[host[s]] \notin {"off", "done"}
      BY <3>2, <3>3 DEF Aside
    <3>5. host[s] = "ping" => sleeper'["ping"] \notin {"off", "done"}
      BY <3>2, <3>3 DEF Aside
    <3> QED BY <2>1, <3>1, <3>2, <3>4, <3>5
  <2>3. CASE UNCHANGED <<loop, sleeper>> /\ Handling(s) /\ host'[s] = host[s]
    BY <2>1, <2>3 DEF Phases, Hosted
  <2>4. CASE /\ UNCHANGED <<loop, sleeper>> /\ g_server = "set"
             /\ host'[s] = "main" \/ host'[s] \in Others
    <3>1. CASE host'[s] = "main"
      BY <2>1, <2>4, <3>1 DEF Loops
    <3>2. CASE host'[s] \in Others
      BY <2>1, <2>4, <3>2, ConnsAreThreads DEF Others, Waited, Loops, Sleepers
    <3> QED BY <2>4, <3>1, <3>2
  <2> QED BY <2>2, <2>3, <2>4 DEF Aside
<1> QED BY <1>1, <1>2, <1>3, <1>4 DEF Phases

LEMMA OthersStep ==
    ASSUME Phases, [Next]_vars
    PROVE  \/ Main
           \/ \E k \in Loops : AcceptThrows(k)
           \/ Typed' /\ Aside
<1> USE DEF Phases, Typed, Aside
<1>1. ASSUME NEW s \in Signals, OnSignal(s) \/ StopFlag(s) \/ StopWake(s)
      PROVE  Typed' /\ Aside
  <2>1. UNCHANGED <<main, objects, g_server, told, loop, sleeper>>
    BY <1>1 DEF OnSignal, StopFlag, StopWake
  <2>2. CASE StopFlag(s) \/ StopWake(s)
    BY <2>1, <2>2 DEF StopFlag, StopWake, Handling
  <2>3. ASSUME NEW h \in {"main"} \cup Others, sig' = [sig EXCEPT ![s] = "loaded"],
               host' = [host EXCEPT ![s] = h], g_server = "set"
        PROVE  Typed' /\ Aside
    <3>1. Typed'
      BY <2>1, <2>3 DEF Others
    <3>2. \A u \in Signals : u # s => sig'[u] = sig[u] /\ host'[u] = host[u]
      BY <2>3
    <3>3. host'[s] = h
      BY <2>3
    <3> QED BY <2>1, <2>3, <3>1, <3>2, <3>3 DEF Handling
  <2>4. ASSUME sig' = [sig EXCEPT ![s] = "ignored"], UNCHANGED host PROVE Typed' /\ Aside
    BY <2>1, <2>4 DEF Handling
  <2> QED BY <1>1, <2>2, <2>3, <2>4 DEF OnSignal
<1>2. ASSUME NEW k \in Loops,
             LoopTop(k) \/ PollReturns(k) \/ PollFails(k) \/ Accept(k) \/ AcceptFails(k)
      PROVE  Typed' /\ Aside
  BY <1>2 DEF LoopTop, PollReturns, PollFails, Accept, AcceptFails, LoopGoto, handlers
<1>3. ASSUME NEW x \in Sleepers, Sleeper(x) PROVE Typed' /\ Aside
  BY <1>3 DEF Sleeper, Check, Sleep, Timeout, Act, SleeperGoto, SleeperOnly, Sleepers, handlers
<1>4. ASSUME NEW c \in Conns, Capture(c) \/ Finish(c) \/ Wedge(c) PROVE Typed' /\ Aside
  BY <1>4 DEF Capture, Finish, Wedge, ConnOnly, handlers
<1>5. ASSUME NEW c \in Conns, NEW k \in Loops, Connect(c, k) PROVE Typed' /\ Aside
  BY <1>5 DEF Connect, ConnOnly, handlers
<1>6. ASSUME UNCHANGED vars PROVE Typed' /\ Aside
  BY <1>6 DEF vars, handlers
<1> QED BY <1>1, <1>2, <1>3, <1>4, <1>5, <1>6 DEF Next, AcceptLoop

\* main takes the server out of g_server when no handler that it waits for has it: none on
\* main itself, and the accept loops and the ping thread are joined.
LEMMA MainHosted ==
    ASSUME Phases, Main
    PROVE  Hosted'
<1>1. UNCHANGED handlers
  BY DEF Main, Construct, ConstructThrows, Publish, Arm, Run, SpawnThrows, JoinLoops, StopPing,
         Unpublish, CloseServer, StopIdle, ClosePipeline, Return
<1>2. Live /\ Runs("main")
  BY DEF Main, Construct, ConstructThrows, Publish, Arm, Run, SpawnThrows, JoinLoops, StopPing,
         Unpublish, CloseServer, StopIdle, ClosePipeline, Return, At, Live
<1>3. \A k \in Loops : loop'[k] \in {"off", "done"} => loop[k] \in {"off", "done"}
  BY DEF Main, Construct, ConstructThrows, Publish, Arm, Run, SpawnThrows, JoinLoops, StopPing,
         Unpublish, CloseServer, StopIdle, ClosePipeline, Return
<1>4. sleeper'["ping"] \in {"off", "done"} => sleeper["ping"] \in {"off", "done"}
  <2>1. CASE Construct \/ Arm
    BY <2>1 DEF Construct, Arm, Phases, Typed, Sleepers
  <2>2. CASE StopPing \/ StopIdle
    BY <2>2 DEF StopPing, StopIdle, Notify, Phases, Typed, Sleepers
  <2>3. CASE sleeper' = sleeper
    BY <2>3
  <2> QED BY <2>1, <2>2, <2>3 DEF Main, ConstructThrows, Publish, Run, SpawnThrows, JoinLoops,
             Unpublish, CloseServer, ClosePipeline, Return
<1>5. CASE ~Unpublish
  <2>1. g_server' = g_server \/ g_server' = "set"
    BY <1>5 DEF Main, Construct, ConstructThrows, Publish, Arm, Run, SpawnThrows, JoinLoops,
                StopPing, CloseServer, StopIdle, ClosePipeline, Return
  <2> QED BY <1>1, <1>2, <1>3, <1>4, <2>1 DEF Phases, Hosted, Handling, handlers
<1>6. CASE Unpublish
  <2>1. /\ \A k \in Loops : loop[k] \in {"off", "done"}
        /\ sleeper["ping"] \in {"off", "done"}
    BY <1>2, <1>6 DEF Unpublish, At, Phases, Joined
  <2>2. ASSUME NEW s \in Signals, Handling(s), host[s] \in Waited PROVE FALSE
    <3>1. host[s] # "main"
      BY <1>2, <2>2 DEF Runs
    <3>2. host[s] \in Loops \/ host[s] = "ping"
      BY <2>2, <3>1 DEF Waited
    <3> QED BY <1>2, <2>1, <2>2, <3>2 DEF Phases, Hosted
  <2> QED BY <1>1, <2>2 DEF Hosted, Handling, handlers
<1> QED BY <1>5, <1>6

\* main, step by step.
LEMMA MainStep ==
    ASSUME Phases, Main
    PROVE  Phases'
<1>0. Hosted' /\ host' = host
  BY MainHosted DEF Main, Construct, ConstructThrows, Publish, Arm, Run, SpawnThrows, JoinLoops,
         StopPing, Unpublish, CloseServer, StopIdle, ClosePipeline, Return, handlers
<1> USE <1>0 DEF Phases, Typed, Alive, Published, Joined, Live, At, MainPCs, Serving,
            Closing, Sleepers, handlers
<1>1. CASE Construct
  BY <1>1 DEF Construct
<1>2. CASE ConstructThrows
  BY <1>2 DEF ConstructThrows
<1>3. CASE Publish
  BY <1>3 DEF Publish
<1>4. CASE Arm
  BY <1>4 DEF Arm
<1>5. CASE Run
  BY <1>5 DEF Run
<1>6. CASE SpawnThrows
  BY <1>6 DEF SpawnThrows
<1>7. CASE JoinLoops
  BY <1>7 DEF JoinLoops
<1>8. CASE StopPing
  BY <1>8 DEF StopPing, Notify
<1>9. CASE Unpublish
  BY <1>9 DEF Unpublish
<1>10. CASE CloseServer
  BY <1>10 DEF CloseServer
<1>11. CASE StopIdle
  BY <1>11 DEF StopIdle, Notify
<1>12. CASE ClosePipeline
  BY <1>12 DEF ClosePipeline
<1>13. CASE Return
  BY <1>13 DEF Return
<1> QED BY <1>1, <1>2, <1>3, <1>4, <1>5, <1>6, <1>7, <1>8, <1>9, <1>10, <1>11, <1>12, <1>13 DEF Main

LEMMA PhasesAlways == Spec => []Phases
<1>1. Init => Phases
  BY DEF Init, Phases, Typed, Alive, Published, Joined, Hosted, Handling, MainPCs, Serving, Closing,
         Sleepers
<1>2. Phases /\ [Next]_vars => Phases'
  <2> SUFFICES ASSUME Phases, [Next]_vars PROVE Phases'
    OBVIOUS
  <2>1. ASSUME NEW k \in Loops, AcceptThrows(k) PROVE Phases'
    BY <2>1 DEF AcceptThrows, Phases, Typed, Alive, Published, Joined, Hosted, Live, MainPCs, Serving,
                Closing, handlers
  <2> QED BY <2>1, MainStep, AsideStep, OthersStep
<1> QED BY <1>1, <1>2, PTL DEF Spec

-----------------------------------------------------------------------------
\* A signal handler on main, on an accept loop or on the ping thread calls stop() on a living
\* server, at whatever point of main the signal arrives, unless an exception is being
\* unwound.  (One on the camera watchdog or on a connection thread need not.)
THEOREM SignalSafe == Spec => []StopFindsServer
<1>1. Phases => StopFindsServer
  BY DEF Phases, Typed, Alive, Published, Hosted, Waited, StopFindsServer, Unwinding, Live,
         MainPCs, Serving, Closing, Objects
<1> QED BY <1>1, PhasesAlways, PTL

\* Every thread that main joins is joined before what it uses is destroyed, on the
\* normal path and when an exception is unwound.
THEOREM ShutdownOrder == Spec => []JoinedBeforeDestroyed
<1>1. Phases => JoinedBeforeDestroyed
  BY DEF Phases, Typed, Alive, Joined, JoinedBeforeDestroyed, Live, MainPCs, Serving, Objects
<1> QED BY <1>1, PhasesAlways, PTL

-----------------------------------------------------------------------------
(* The self-pipe.  Every signal handler that has returned from stop() has written one
   byte and ~Server one more. *)

Stopped == { s \in Signals : sig[s] = "stopped" }

\* ~Server has run, or the process is over.
Closed == main \in {"close_pipeline", "join_idle", "returning", "exited"}

PipeInv ==
    /\ wake \in Nat
    /\ wake <= Cardinality(Stopped) + IF Closed THEN 1 ELSE 0

LEMMA StoppedFinite ==
    /\ IsFiniteSet(Stopped) /\ Cardinality(Stopped) \in Nat /\ Cardinality(Signals) \in Nat
    /\ Cardinality(Stopped) <= Cardinality(Signals)
<1>1. IsFiniteSet(Signals) /\ Stopped \subseteq Signals
  BY DaemonAssumption DEF DaemonAssumption, Stopped
<1> QED BY <1>1, FS_Subset, FS_CardinalityType

\* Nobody but StopWake and CloseServer writes, and only those two move what counts.
LEMMA PipeStep ==
    ASSUME Typed, PipeInv, [Next]_vars
    PROVE  PipeInv'
<1>1. CASE CloseServer
  <2>1. wake' = wake + 1 /\ Stopped' = Stopped /\ ~Closed /\ Closed'
    BY <1>1 DEF CloseServer, At, Stopped, Closed, handlers
  <2> QED BY <2>1, StoppedFinite DEF PipeInv
<1>2. ASSUME NEW s \in Signals, StopWake(s) PROVE PipeInv'
  <2>1. wake' = wake + 1 /\ Closed' = Closed /\ s \notin Stopped /\ Stopped' = Stopped \cup {s}
    BY <1>2 DEF StopWake, Typed, Stopped, Closed
  <2>2. Cardinality(Stopped \cup {s}) = Cardinality(Stopped) + 1
    BY <2>1, StoppedFinite, FS_AddElement
  <2> QED BY <2>1, <2>2, StoppedFinite DEF PipeInv
<1>3. ASSUME wake' = wake, sig' = sig, Closed => Closed' PROVE PipeInv'
  <2>1. Stopped' = Stopped
    BY <1>3 DEF Stopped
  <2> QED BY <1>3, <2>1, StoppedFinite DEF PipeInv
<1>4. ASSUME NEW s \in Signals, OnSignal(s) \/ StopFlag(s) PROVE PipeInv'
  <2>1. wake' = wake /\ Closed' = Closed /\ Stopped' = Stopped
    BY <1>4 DEF OnSignal, StopFlag, Typed, Stopped, Closed
  <2> QED BY <2>1, StoppedFinite DEF PipeInv
<1>5. ASSUME Main, ~CloseServer PROVE wake' = wake /\ sig' = sig /\ (Closed => Closed')
  BY <1>5 DEF Main, Construct, ConstructThrows, Publish, Arm, Run, SpawnThrows, JoinLoops, StopPing,
              Unpublish, StopIdle, ClosePipeline, Return, At, Closed, handlers
<1>6. ASSUME NEW k \in Loops, AcceptLoop(k) PROVE wake' = wake /\ sig' = sig /\ (Closed => Closed')
  BY <1>6 DEF AcceptLoop, LoopTop, PollReturns, PollFails, Accept, AcceptFails, AcceptThrows, Closed, handlers
<1>7. ASSUME NEW x \in Sleepers, Sleeper(x) PROVE wake' = wake /\ sig' = sig /\ (Closed => Closed')
  BY <1>7 DEF Sleeper, Check, Sleep, Timeout, Act, SleeperOnly, Closed, handlers
<1>8. ASSUME NEW c \in Conns, (\E k \in Loops : Connect(c, k)) \/ Capture(c) \/ Finish(c) \/ Wedge(c)
      PROVE  wake' = wake /\ sig' = sig /\ (Closed => Closed')
  BY <1>8 DEF Connect, Capture, Finish, Wedge, ConnOnly, Closed, handlers
<1>9. CASE UNCHANGED vars
  BY <1>3, <1>9 DEF vars, Closed
<1> QED BY <1>1, <1>2, <1>3, <1>4, <1>5, <1>6, <1>7, <1>8, <1>9 DEF Next

\* The types that Typed leaves out, the pipe's aside.
RestTyped ==
    /\ objects \subseteq Objects /\ g_server \in {"null", "set"} /\ stopping \in BOOLEAN
    /\ told \subseteq Sleepers
    /\ conn \in [Conns -> ConnStates] /\ sock \in [Conns -> Loops]

LEMMA RestStep ==
    ASSUME RestTyped, [Next]_vars
    PROVE  RestTyped'
<1> USE DEF RestTyped
<1>1. ASSUME Main PROVE RestTyped'
  BY <1>1 DEF Main, Construct, ConstructThrows, Publish, Arm, Run, SpawnThrows, JoinLoops, StopPing,
              Unpublish, CloseServer, StopIdle, ClosePipeline, Return, Notify, Objects, Sleepers
<1>2. ASSUME NEW s \in Signals, OnSignal(s) \/ StopFlag(s) \/ StopWake(s) PROVE RestTyped'
  BY <1>2 DEF OnSignal, StopFlag, StopWake
<1>3. ASSUME NEW k \in Loops, AcceptLoop(k) PROVE RestTyped'
  BY <1>3 DEF AcceptLoop, LoopTop, PollReturns, PollFails, Accept, AcceptFails, AcceptThrows,
              Queue, ConnStates
<1>4. ASSUME NEW x \in Sleepers, Sleeper(x) PROVE RestTyped'
  BY <1>4 DEF Sleeper, Check, Sleep, Timeout, Act, SleeperOnly
<1>5. ASSUME NEW c \in Conns, (\E k \in Loops : Connect(c, k)) \/ Capture(c) \/ Finish(c) \/ Wedge(c)
      PROVE  RestTyped'
  BY <1>5 DEF Connect, Capture, Finish, Wedge, ConnOnly, ConnGoto, ConnStates
<1>6. CASE UNCHANGED vars
  BY <1>6 DEF vars
<1> QED BY <1>1, <1>2, <1>3, <1>4, <1>5, <1>6 DEF Next

\* Every variable keeps its type, and the self-pipe, which nobody empties, holds at most
\* one byte for each signal and one for ~Server: stop() never meets a full pipe.
THEOREM DaemonTypeCorrect == Spec => []TypeOK
<1>1. Init => PipeInv /\ RestTyped
  <2> SUFFICES ASSUME Init PROVE PipeInv /\ RestTyped
    OBVIOUS
  <2>1. RestTyped
    BY DEF Init, RestTyped, ConnStates, Loops
  <2>2. wake = 0 /\ ~Closed
    BY DEF Init, Closed
  <2> QED BY <2>1, <2>2, StoppedFinite DEF PipeInv
<1>2. Phases /\ PipeInv /\ RestTyped /\ [Next]_vars => (PipeInv /\ RestTyped)'
  BY PipeStep, RestStep DEF Phases
<1>3. Phases /\ PipeInv /\ RestTyped => TypeOK
  <2> SUFFICES ASSUME Phases, PipeInv, RestTyped PROVE TypeOK
    OBVIOUS
  <2>1. wake \in 0 .. Cardinality(Signals) + 1
    BY StoppedFinite DEF PipeInv
  <2> QED BY <2>1 DEF Phases, Typed, RestTyped, TypeOK
<1> QED BY <1>1, <1>2, <1>3, PhasesAlways, PTL DEF Spec
=============================================================================
