--------------------------- MODULE PipelineProofs ---------------------------
(***************************************************************************)
(* The safety properties of Pipeline, for every set of connections, every  *)
(* set of policies and every watchdog window.                              *)
(***************************************************************************)
EXTENDS Pipeline, TLAPS

\* What bringing the stream up does to the camera, whichever way it ends.
LEMMA EnsureLemma ==
    ASSUME TypeOK, NEW o \in EnsureOutcomes
    PROVE  /\ o.cam \in CameraState
           /\ o.res \in {"ok", "threw"}
           /\ is_streaming(o.cam) /\ ~is_streaming(camera) => o.res = "ok"
           /\ is_streaming(camera) /\ is_open(camera) => o.cam = camera
           /\ is_streaming(o.cam) /\ ~is_streaming(camera) => is_open(o.cam)
<1> USE DEF TypeOK, CameraState, DeviceState, is_open, is_streaming, Returned, Threw
<1>1. CASE is_open(camera)
  BY <1>1 DEF EnsureOutcomes, start_stream
<1>2. CASE ~is_open(camera) /\ dev = "ready"
  <2> DEFINE x == [camera EXCEPT !.fd = "open", !.buffers = "all"]
  <2>1. /\ x \in CameraState /\ x.fd = "open" /\ x.buffers = "all"
        /\ x.stream = camera.stream
    OBVIOUS
  <2>2. o \in start_stream(x, dev)
    BY <1>2 DEF EnsureOutcomes, open
  <2> HIDE DEF x
  <2> QED BY <1>2, <2>1, <2>2 DEF start_stream
<1>3. CASE ~is_open(camera) /\ dev # "ready"
  BY <1>3 DEF EnsureOutcomes, open, FailedOpen, Unopened
<1> QED BY <1>1, <1>2, <1>3

\* The camera and age the daemon starts with, at boot or after a crash.
LEMMA BootLemma ==
    ASSUME dev \in DeviceState, NEW pol, NEW cam0, NEW age0, Booted(pol, cam0, age0)
    PROVE  /\ cam0 \in CameraState
           /\ age0 \in {-1, 0}
           /\ is_streaming(cam0) => is_open(cam0) /\ age0 = 0
           /\ pol # "warm" => cam0 = Unopened
<1> USE DEF CameraState, DeviceState, Booted, is_open, is_streaming, Returned, Threw
<1>1. CASE pol # "warm"
  BY <1>1 DEF Unopened
<1>2. CASE pol = "warm" /\ dev = "ready"
  <2> DEFINE x == [Unopened EXCEPT !.fd = "open", !.buffers = "all"]
  <2>1. x \in CameraState /\ x.fd = "open" /\ x.buffers = "all" /\ x.stream = "off"
    BY DEF Unopened
  <2>2. \E o \in start_stream(x, dev) :
           cam0 = o.cam /\ age0 = (IF o.res = "ok" THEN 0 ELSE -1)
    BY <1>2 DEF open, Unopened
  <2> HIDE DEF x
  <2> QED BY <1>2, <2>1, <2>2 DEF start_stream
<1>3. CASE pol = "warm" /\ dev # "ready"
  BY <1>3 DEF open, FailedOpen, Unopened
<1> QED BY <1>1, <1>2, <1>3

-----------------------------------------------------------------------------
LEMMA TypeStep ==
    ASSUME TypeOK, [Next]_vars
    PROVE  TypeOK'
<1> USE PipelineAssumption DEF TypeOK, PCs, ThreadState, AllRequests
<1>1. ASSUME NEW c \in Conns, NEW sock \in {"auth", "mgmt"}, Accept(c, sock)
      PROVE  TypeOK'
  BY <1>1 DEF Accept
<1>2. ASSUME NEW c \in Conns, Prewarm(c) PROVE TypeOK'
  <2>1. CASE use_gen # gen0[c]
    BY <1>2, <2>1 DEF Prewarm
  <2>2. CASE use_gen = gen0[c]
    <3>1. PICK o \in EnsureOutcomes : camera' = o.cam /\ age' = AgeAfter(o)
                                      /\ NoteOpener(c, o, release[c] = "done")
      BY <1>2, <2>2 DEF Prewarm
    <3>2. camera' \in CameraState /\ age' \in -1 .. Window
      BY <3>1, EnsureLemma DEF AgeAfter
    <3>3. opener' \in Conns \cup {NoOne} /\ late' \in BOOLEAN
      BY <3>1 DEF NoteOpener
    <3> QED BY <1>2, <3>2, <3>3 DEF Prewarm
  <2> QED BY <2>1, <2>2
<1>3. ASSUME NEW c \in Conns, NEW r \in AllRequests,
             BeginCapture(c, r) \/ ReturnScoped(c, r) \/ ReturnPlain(c, r)
      PROVE  TypeOK'
  BY <1>3 DEF BeginCapture, ReturnScoped, ReturnPlain, Goto, HandlerOnly
<1>4. ASSUME NEW c \in Conns, Lock(c) \/ Unlock(c) \/ ScopeExit(c) \/ Deadline(c)
      PROVE  TypeOK'
  BY <1>4 DEF Lock, Unlock, ScopeExit, Deadline, Leave, Goto, HandlerOnly
<1>5. ASSUME NEW c \in Conns, Frame(c) PROVE TypeOK'
  <2>1. PICK o \in EnsureOutcomes : camera' = o.cam /\ age' = AgeAfter(o)
                                    /\ NoteOpener(c, o, FALSE)
    BY <1>5 DEF Frame
  <2>2. camera' \in CameraState /\ age' \in -1 .. Window
    BY <2>1, EnsureLemma DEF AgeAfter
  <2>3. opener' \in Conns \cup {NoOne} /\ late' \in BOOLEAN
    BY <2>1 DEF NoteOpener
  <2>4. UNCHANGED <<pc, release>> \/ Leave(c)
    BY <1>5 DEF Frame
  <2>5. pc' \in [Conns -> PCs] /\ release' \in [Conns -> ThreadState]
    BY <2>4 DEF Leave, Goto
  <2> QED BY <1>5, <2>2, <2>3, <2>5 DEF Frame
<1>6. ASSUME NEW c \in Conns, Release(c) PROVE TypeOK'
  BY <1>6 DEF Release, release_camera, stop_stream, CameraState, is_open, is_streaming
<1>7. ASSUME WatchdogCheck \/ Tick \/ DeviceChange PROVE TypeOK'
  BY <1>7 DEF WatchdogCheck, Tick, DeviceChange, watchdog_window
<1>8. ASSUME WatchdogClose PROVE TypeOK'
  BY <1>8 DEF WatchdogClose, stop_stream, CameraState, is_open, is_streaming
<1>9. ASSUME NEW c \in Conns, Segfault(c) PROVE TypeOK'
  BY <1>9 DEF Segfault, Unopened, CameraState
<1>10. ASSUME Restart PROVE TypeOK'
  <2>1. camera' \in CameraState /\ age' \in -1 .. Window
    BY <1>10, BootLemma DEF Restart
  <2> QED BY <1>10, <2>1 DEF Restart
<1>11. CASE UNCHANGED vars
  BY <1>11 DEF vars
<1> QED
  BY <1>1, <1>2, <1>3, <1>4, <1>5, <1>6, <1>7, <1>8, <1>9, <1>10, <1>11 DEF Next, Handler

LEMMA TypeInit == Init => TypeOK
<1> SUFFICES ASSUME Init PROVE TypeOK
  OBVIOUS
<1>1. camera \in CameraState /\ age \in -1 .. Window
  BY PipelineAssumption, BootLemma DEF Init
<1> QED BY PipelineAssumption, <1>1 DEF Init, TypeOK, PCs, ThreadState, AllRequests

\* Every state of every behaviour is well typed; in particular the stream is never on
\* without an open device and its buffers, and the age of the
\* stream stays within the watchdog window.
THEOREM TypeCorrect == Spec => []TypeOK
<1>1. TypeOK /\ [Next]_vars => TypeOK'
  BY TypeStep
<1> QED BY <1>1, TypeInit, PTL DEF Spec

-----------------------------------------------------------------------------
(* The camera: a lit stream belongs to an open device and has a time of last
   use, and a dead process lights nothing. *)
CameraSane ==
    /\ is_streaming(camera) => is_open(camera) /\ age # -1
    /\ ~alive => camera = Unopened

LEMMA CameraSaneStep ==
    ASSUME TypeOK, CameraSane, [Next]_vars
    PROVE  CameraSane'
<1> USE DEF CameraSane, is_streaming, is_open
<1>1. ASSUME NEW c \in Conns, Prewarm(c) \/ Frame(c) PROVE CameraSane'
  <2>1. alive /\ alive'
    <3>1. CASE Prewarm(c)
      BY <3>1, Zenon DEF Prewarm
    <3>2. CASE Frame(c)
      BY <3>2, Zenon DEF Frame
    <3> QED BY <1>1, <3>1, <3>2
  <2>2. \/ UNCHANGED <<camera, age>>
        \/ \E o \in EnsureOutcomes : camera' = o.cam /\ age' = AgeAfter(o)
    <3>1. CASE Prewarm(c)
      BY <3>1 DEF Prewarm
    <3>2. CASE Frame(c)
      BY <3>2 DEF Frame
    <3> QED BY <1>1, <3>1, <3>2
  <2>3. CASE UNCHANGED <<camera, age>>
    BY <2>1, <2>3
  <2>4. ASSUME NEW o \in EnsureOutcomes, camera' = o.cam, age' = AgeAfter(o)
        PROVE  CameraSane'
    BY <2>1, <2>4, EnsureLemma DEF AgeAfter
  <2> QED BY <2>2, <2>3, <2>4
<1>2. ASSUME NEW c \in Conns, Release(c) PROVE CameraSane'
  BY <1>2 DEF Release, release_camera, stop_stream, TypeOK, CameraState
<1>3. ASSUME WatchdogClose PROVE CameraSane'
  BY <1>3 DEF WatchdogClose, stop_stream, TypeOK, CameraState
<1>4. ASSUME Tick PROVE CameraSane'
  BY <1>4 DEF Tick
<1>5. ASSUME NEW c \in Conns, Segfault(c) PROVE CameraSane'
  BY <1>5 DEF Segfault, Unopened
<1>6. ASSUME Restart PROVE CameraSane'
  BY <1>6, BootLemma DEF Restart, TypeOK
<1>7. ASSUME UNCHANGED <<camera, age, alive>> PROVE CameraSane'
  BY <1>7
<1>8. ASSUME NEW c \in Conns,
             \/ \E sock \in {"auth", "mgmt"} : Accept(c, sock)
             \/ \E r \in AllRequests : BeginCapture(c, r) \/ ReturnScoped(c, r) \/ ReturnPlain(c, r)
             \/ Lock(c) \/ Unlock(c) \/ ScopeExit(c) \/ Deadline(c)
      PROVE  CameraSane'
  BY <1>7, <1>8 DEF Accept, BeginCapture, ReturnScoped, ReturnPlain, Lock, Unlock, ScopeExit,
                    Deadline, HandlerOnly
<1>9. ASSUME WatchdogCheck \/ DeviceChange \/ UNCHANGED vars PROVE CameraSane'
  BY <1>7, <1>9 DEF WatchdogCheck, DeviceChange, vars
<1> QED
  BY <1>1, <1>2, <1>3, <1>4, <1>5, <1>6, <1>8, <1>9 DEF Next, Handler

LEMMA CameraSaneInit == Init => CameraSane
<1> SUFFICES ASSUME Init PROVE CameraSane
  OBVIOUS
<1>1. is_streaming(camera) => is_open(camera) /\ age = 0
  BY BootLemma DEF Init
<1> QED BY <1>1 DEF Init, CameraSane

\* A lit LED always has a time of last use, so the watchdog can reclaim the stream
\* whether a request or a speculative prewarm turned it on.
THEOREM StreamAlwaysTimed == Spec => []StreamTimed
<1>1. TypeOK /\ CameraSane /\ [Next]_vars => CameraSane'
  BY CameraSaneStep
<1>2. CameraSane => StreamTimed
  BY DEF CameraSane, StreamTimed
<1> QED BY <1>1, <1>2, CameraSaneInit, TypeCorrect, PTL DEF Spec

-----------------------------------------------------------------------------
(* Mutual exclusion. *)
LEMMA MutexStep ==
    ASSUME TypeOK, MutexHeld, [Next]_vars
    PROVE  MutexHeld'
<1> USE PipelineAssumption DEF MutexHeld, TypeOK
<1>1. ASSUME UNCHANGED <<mu, pc, alive>> PROVE MutexHeld'
  BY <1>1
<1>2. ASSUME NEW c \in Conns, NEW sock \in {"auth", "mgmt"}, Accept(c, sock)
      PROVE  MutexHeld'
  BY <1>2 DEF Accept
<1>3. ASSUME NEW c \in Conns, NEW r \in AllRequests,
             BeginCapture(c, r) \/ ReturnScoped(c, r) \/ ReturnPlain(c, r)
      PROVE  MutexHeld'
  BY <1>3 DEF BeginCapture, ReturnScoped, ReturnPlain, Goto, HandlerOnly
<1>4. ASSUME NEW c \in Conns, Lock(c) PROVE MutexHeld'
  BY <1>4 DEF Lock, Goto, HandlerOnly
<1>5. ASSUME NEW c \in Conns, Frame(c) \/ Deadline(c) PROVE MutexHeld'
  <2>1. /\ pc[c] = "locked" /\ mu' = mu /\ alive' = alive
        /\ UNCHANGED pc \/ pc' = [pc EXCEPT ![c] = "unlock"]
    BY <1>5 DEF Frame, Deadline, Leave, Goto, HandlerOnly
  <2> QED BY <2>1
<1>6. ASSUME NEW c \in Conns, Unlock(c) PROVE MutexHeld'
  BY <1>6 DEF Unlock, Goto, HandlerOnly
<1>7. ASSUME NEW c \in Conns, ScopeExit(c) PROVE MutexHeld'
  BY <1>7 DEF ScopeExit, Goto, HandlerOnly
<1>8. ASSUME NEW c \in Conns, Prewarm(c) \/ Release(c) PROVE MutexHeld'
  BY <1>1, <1>8 DEF Prewarm, Release
<1>9. ASSUME WatchdogCheck \/ WatchdogClose \/ Tick \/ DeviceChange \/ UNCHANGED vars
      PROVE  MutexHeld'
  BY <1>1, <1>9 DEF WatchdogCheck, WatchdogClose, Tick, DeviceChange, vars
<1>10. ASSUME NEW c \in Conns, Segfault(c) PROVE MutexHeld'
  BY <1>10 DEF Segfault
<1>11. ASSUME Restart PROVE MutexHeld'
  BY <1>11 DEF Restart
<1> QED
  BY <1>2, <1>3, <1>4, <1>5, <1>6, <1>7, <1>8, <1>9, <1>10, <1>11 DEF Next, Handler

\* Exactly the holder of mu_ is inside its capture loop, whatever the handlers, the
\* prewarm and release threads, the watchdog and crashes do.
THEOREM MutualExclusion == Spec => []MutexHeld
<1>1. Init => MutexHeld
  BY PipelineAssumption DEF Init, MutexHeld
<1>2. TypeOK /\ MutexHeld /\ [Next]_vars => MutexHeld'
  BY MutexStep
<1> QED BY <1>1, <1>2, TypeCorrect, PTL DEF Spec

-----------------------------------------------------------------------------
(* The generation guard: the generation a waiting prewarm captured is not ahead
   of the current one, and is strictly behind it once the stream was stopped. *)
GenGuard ==
    \A c \in Conns :
       /\ c \in shut => pc[c] # "idle"
       /\ prewarm[c] = "spawned" => /\ gen0[c] <= use_gen
                                    /\ c \in shut => gen0[c] < use_gen

LEMMA GenGuardStep ==
    ASSUME TypeOK, GenGuard, [Next]_vars
    PROVE  GenGuard'
<1> USE DEF GenGuard, TypeOK
<1>1. ASSUME NEW c \in Conns, NEW sock \in {"auth", "mgmt"}, Accept(c, sock)
      PROVE  GenGuard'
  BY <1>1 DEF Accept
<1>2. ASSUME NEW c \in Conns, Prewarm(c) PROVE GenGuard'
  <2>1. /\ UNCHANGED <<shut, pc, use_gen>>
        /\ prewarm' = [prewarm EXCEPT ![c] = "done"]
        /\ gen0' = [gen0 EXCEPT ![c] = 0]
    BY <1>2 DEF Prewarm
  <2> QED BY <2>1
<1>3. ASSUME UNCHANGED <<shut, use_gen, prewarm, gen0>>,
             \A c \in Conns : pc[c] # "idle" => pc'[c] # "idle"
      PROVE  GenGuard'
  BY <1>3
<1>4. ASSUME NEW c \in Conns, NEW r \in AllRequests,
             BeginCapture(c, r) \/ ReturnScoped(c, r) \/ ReturnPlain(c, r)
      PROVE  GenGuard'
  BY <1>3, <1>4 DEF BeginCapture, ReturnScoped, ReturnPlain, Goto, HandlerOnly
<1>5. ASSUME NEW c \in Conns, Lock(c) \/ Unlock(c) \/ ScopeExit(c) \/ Deadline(c)
      PROVE  GenGuard'
  BY <1>3, <1>5 DEF Lock, Unlock, ScopeExit, Deadline, Leave, Goto, HandlerOnly
<1>6. ASSUME NEW c \in Conns, Frame(c) PROVE GenGuard'
  <2>1. UNCHANGED pc \/ pc' = [pc EXCEPT ![c] = "unlock"]
    BY <1>6 DEF Frame, Leave, Goto
  <2> QED BY <1>3, <1>6, <2>1 DEF Frame
<1>7. ASSUME \/ UNCHANGED <<use_gen, shut>>
             \/ use_gen' = use_gen + 1 /\ shut' = {d \in Conns : pc[d] # "idle"},
             UNCHANGED <<pc, prewarm, gen0>>
      PROVE  GenGuard'
  BY <1>7
<1>8. ASSUME NEW c \in Conns, Release(c) PROVE GenGuard'
  BY <1>7, <1>8 DEF Release, release_camera
<1>9. ASSUME WatchdogClose PROVE GenGuard'
  BY <1>7, <1>9 DEF WatchdogClose
<1>10. ASSUME WatchdogCheck \/ Tick \/ DeviceChange \/ UNCHANGED vars PROVE GenGuard'
  BY <1>7, <1>10 DEF WatchdogCheck, Tick, DeviceChange, vars
<1>11. ASSUME NEW c \in Conns, Segfault(c) PROVE GenGuard'
  BY <1>7, <1>11 DEF Segfault
<1>12. ASSUME Restart PROVE GenGuard'
  BY <1>12 DEF Restart
<1> QED
  BY <1>1, <1>2, <1>4, <1>5, <1>6, <1>8, <1>9, <1>10, <1>11, <1>12 DEF Next, Handler

\* A thread body that ends with the stream newly on found its generation current,
\* so nobody has stopped the stream since its connection was accepted.
LEMMA PrewarmStep ==
    ASSUME TypeOK, GenGuard, [Next]_vars,
           NEW c \in Conns, prewarm[c] = "spawned", prewarm'[c] = "done",
           ~is_streaming(camera), is_streaming(camera')
    PROVE  c \notin shut
<1>1. PICK d \in Conns : Prewarm(d) /\ prewarm' = [prewarm EXCEPT ![d] = "done"]
  <2> USE DEF TypeOK
  <2>1. ASSUME UNCHANGED prewarm PROVE FALSE
    BY <2>1
  <2>2. ASSUME NEW d \in Conns, NEW sock \in {"auth", "mgmt"}, Accept(d, sock) PROVE FALSE
    BY <2>2 DEF Accept
  <2>3. ASSUME NEW d \in Conns, NEW r \in AllRequests,
               BeginCapture(d, r) \/ ReturnScoped(d, r) \/ ReturnPlain(d, r)
        PROVE  FALSE
    BY <2>1, <2>3 DEF BeginCapture, ReturnScoped, ReturnPlain, HandlerOnly
  <2>4. ASSUME NEW d \in Conns, Lock(d) \/ Unlock(d) \/ ScopeExit(d) \/ Deadline(d)
        PROVE  FALSE
    BY <2>1, <2>4 DEF Lock, Unlock, ScopeExit, Deadline, HandlerOnly
  <2>5. ASSUME NEW d \in Conns, Frame(d) \/ Release(d) \/ Segfault(d) PROVE FALSE
    BY <2>1, <2>5 DEF Frame, Release, Segfault
  <2>6. ASSUME \/ WatchdogCheck \/ WatchdogClose \/ Tick \/ DeviceChange \/ UNCHANGED vars
        PROVE  FALSE
    BY <2>1, <2>6 DEF WatchdogCheck, WatchdogClose, Tick, DeviceChange, vars
  <2>7. ASSUME Restart PROVE FALSE
    BY <2>7 DEF Restart
  <2>8. \E d \in Conns : Prewarm(d)
    BY <2>2, <2>3, <2>4, <2>5, <2>6, <2>7 DEF Next, Handler
  <2> QED BY <2>8 DEF Prewarm
<1>2. d = c
  BY <1>1 DEF TypeOK
<1>3. use_gen = gen0[c]
  BY <1>1, <1>2 DEF Prewarm
<1> QED BY <1>3 DEF GenGuard, TypeOK

\* prewarm_async never turns on a stream that anyone, the request's own release
\* thread, another request's or the watchdog, has stopped since the connection was
\* accepted, however late the thread runs.
THEOREM PrewarmSafe == Spec => PrewarmNeverReopens
<1>1. Init => GenGuard
  BY DEF Init, GenGuard
<1>2. TypeOK /\ GenGuard /\ [Next]_vars => GenGuard'
  BY GenGuardStep
<1>3. TypeOK /\ GenGuard /\ [Next]_vars =>
        [\A c \in Conns :
          /\ prewarm[c] = "spawned" /\ prewarm'[c] = "done" /\ alive'
          /\ ~is_streaming(camera) /\ is_streaming(camera')
          => c \notin shut]_vars
  BY PrewarmStep
<1> QED BY <1>1, <1>2, <1>3, TypeCorrect, PTL DEF Spec, PrewarmNeverReopens

-----------------------------------------------------------------------------
(* Release threads: only the lazy policy has any; a test request that is about to
   unlock has spawned its own; and an auth or test request that is over has spawned
   its own while its prewarm is still waiting for the mutex. *)
ReleaseInv ==
    \A c \in Conns :
       /\ policy # "lazy" => release[c] = "none"
       /\ policy = "lazy" /\ alive /\ pc[c] = "unlock" /\ rq[c] = "test"
          => release[c] = "spawned"
       /\ policy = "lazy" /\ pc[c] = "done" /\ rq[c] \in {"auth", "test"}
             /\ prewarm[c] = "spawned"
          => release[c] # "none"

LEMMA ReleaseInvStep ==
    ASSUME TypeOK, MutexHeld, ReleaseInv, [Next]_vars
    PROVE  ReleaseInv'
<1> USE DEF ReleaseInv, TypeOK
<1>1. ASSUME UNCHANGED <<policy, release, pc, rq, prewarm, alive>> PROVE ReleaseInv'
  BY <1>1
<1>2. ASSUME NEW c \in Conns, NEW sock \in {"auth", "mgmt"}, Accept(c, sock)
      PROVE  ReleaseInv'
  BY <1>2 DEF Accept
<1>3. ASSUME NEW c \in Conns, NEW r \in AllRequests,
             BeginCapture(c, r) \/ ReturnScoped(c, r) \/ ReturnPlain(c, r)
      PROVE  ReleaseInv'
  <2>1. /\ UNCHANGED <<policy, release, prewarm, alive>>
        /\ rq' = [rq EXCEPT ![c] = r]
        /\ \/ pc' = [pc EXCEPT ![c] = "wait_mu"]
           \/ pc' = [pc EXCEPT ![c] = "scope"]
           \/ pc' = [pc EXCEPT ![c] = "done"] /\ r \notin {"auth", "test"}
    BY <1>3 DEF BeginCapture, ReturnScoped, ReturnPlain, Goto, HandlerOnly
  <2> QED BY <2>1
<1>4. ASSUME NEW c \in Conns, Lock(c) PROVE ReleaseInv'
  BY <1>4 DEF Lock, Goto, HandlerOnly
<1>5. ASSUME NEW c \in Conns, Frame(c) \/ Deadline(c) PROVE ReleaseInv'
  <2>1. /\ pc[c] = "locked" /\ UNCHANGED <<policy, rq, prewarm, alive>>
        /\ UNCHANGED <<pc, release>> \/ Leave(c)
    BY <1>5 DEF Frame, Deadline, HandlerOnly
  <2>2. CASE UNCHANGED <<pc, release>>
    BY <1>1, <2>1, <2>2
  <2>3. CASE Leave(c)
    BY <2>1, <2>3, PipelineAssumption DEF Leave, Goto
  <2> QED BY <2>1, <2>2, <2>3
<1>6. ASSUME NEW c \in Conns, Unlock(c) PROVE ReleaseInv'
  <2>1. /\ alive /\ pc[c] = "unlock" /\ UNCHANGED <<policy, rq, release, prewarm, alive>>
        /\ pc' = [pc EXCEPT ![c] = IF rq[c] = "auth" THEN "scope" ELSE "done"]
    BY <1>6 DEF Unlock, Goto, HandlerOnly
  <2> QED BY <2>1
<1>7. ASSUME NEW c \in Conns, ScopeExit(c) PROVE ReleaseInv'
  BY <1>7 DEF ScopeExit, Goto, HandlerOnly
<1>8. ASSUME NEW c \in Conns, Prewarm(c) PROVE ReleaseInv'
  <2>1. UNCHANGED <<policy, release, pc, rq, alive>> /\ prewarm' = [prewarm EXCEPT ![c] = "done"]
    BY <1>8 DEF Prewarm
  <2> QED BY <2>1
<1>9. ASSUME NEW c \in Conns, Release(c) PROVE ReleaseInv'
  <2>1. /\ alive /\ mu = NoOne /\ release[c] = "spawned" /\ UNCHANGED <<policy, pc, rq, prewarm, alive>>
        /\ release' = [release EXCEPT ![c] = "done"]
    BY <1>9 DEF Release
  <2>2. pc[c] # "unlock"
    BY <2>1, PipelineAssumption DEF MutexHeld
  <2> QED BY <2>1, <2>2
<1>10. ASSUME WatchdogCheck \/ WatchdogClose \/ Tick \/ DeviceChange \/ UNCHANGED vars
       PROVE  ReleaseInv'
  BY <1>1, <1>10 DEF WatchdogCheck, WatchdogClose, Tick, DeviceChange, vars
<1>11. ASSUME NEW c \in Conns, Segfault(c) PROVE ReleaseInv'
  BY <1>11 DEF Segfault
<1>12. ASSUME Restart PROVE ReleaseInv'
  BY <1>12 DEF Restart
<1> QED
  BY <1>2, <1>3, <1>4, <1>5, <1>6, <1>7, <1>8, <1>9, <1>10, <1>11, <1>12 DEF Next, Handler

LEMMA ReleaseAlways == Spec => [](TypeOK /\ MutexHeld /\ CameraSane /\ ReleaseInv)
<1>1. Init => ReleaseInv
  BY DEF Init, ReleaseInv
<1>2. TypeOK /\ MutexHeld /\ ReleaseInv /\ [Next]_vars => ReleaseInv'
  BY ReleaseInvStep
<1>3. TypeOK /\ CameraSane /\ [Next]_vars => CameraSane'
  BY CameraSaneStep
<1> QED BY <1>1, <1>2, <1>3, CameraSaneInit, TypeCorrect, MutualExclusion, PTL DEF Spec

-----------------------------------------------------------------------------
LEMMA LitStep ==
    ASSUME TypeOK, MutexHeld, CameraSane, ReleaseInv, LitIsAttended, [Next]_vars
    PROVE  LitIsAttended'
<1> USE PipelineAssumption DEF LitIsAttended, TypeOK
<1>1. ASSUME UNCHANGED <<policy, camera, opener, late, rq>>,
             \A d \in Conns : pc'[d] = pc[d] \/ pc'[d] # "done" \/ pc[d] = "idle"
                              \/ rq[d] \notin {"auth", "test"} \/ release'[d] = "spawned",
             \A d \in Conns : release'[d] = release[d] \/ release'[d] = "spawned",
             \A d \in Conns : pc[d] = "idle" => pc'[d] # "done"
      PROVE  LitIsAttended'
  BY <1>1 DEF is_streaming
<1>2. ASSUME NEW c \in Conns, NEW sock \in {"auth", "mgmt"}, Accept(c, sock)
      PROVE  LitIsAttended'
  BY <1>1, <1>2 DEF Accept
<1>3. ASSUME NEW c \in Conns, NEW r \in AllRequests,
             BeginCapture(c, r) \/ ReturnScoped(c, r) \/ ReturnPlain(c, r)
      PROVE  LitIsAttended'
  <2>1. /\ UNCHANGED <<policy, release, camera, opener, late>>
        /\ rq' = [rq EXCEPT ![c] = r]
        /\ \/ pc' = [pc EXCEPT ![c] = "wait_mu"]
           \/ pc' = [pc EXCEPT ![c] = "scope"]
           \/ pc' = [pc EXCEPT ![c] = "done"] /\ r \notin {"auth", "test"}
    BY <1>3 DEF BeginCapture, ReturnScoped, ReturnPlain, Goto, HandlerOnly
  <2> QED BY <2>1 DEF is_streaming
<1>4. ASSUME NEW c \in Conns, Lock(c) PROVE LitIsAttended'
  BY <1>1, <1>4 DEF Lock, Goto, HandlerOnly
<1>5. ASSUME NEW c \in Conns, Deadline(c) PROVE LitIsAttended'
  BY <1>1, <1>5 DEF Deadline, Leave, Goto, HandlerOnly
<1>6. ASSUME NEW c \in Conns, Frame(c) PROVE LitIsAttended'
  <2>1. PICK o \in EnsureOutcomes : camera' = o.cam /\ NoteOpener(c, o, FALSE)
    BY <1>6 DEF Frame
  <2>2. /\ pc[c] = "locked" /\ UNCHANGED <<policy, rq>>
        /\ UNCHANGED <<pc, release>> \/ Leave(c)
    BY <1>6 DEF Frame
  <2>3. /\ \A d \in Conns : pc'[d] = pc[d] \/ pc'[d] = "unlock"
        /\ \A d \in Conns : release'[d] = release[d] \/ release'[d] = "spawned"
        /\ pc'[c] # "done"
    BY <2>2 DEF Leave, Goto
  <2>4. CASE is_streaming(camera)
    <3>1. camera' = camera /\ opener' = opener /\ late' = late
      BY <2>1, <2>4, EnsureLemma DEF CameraSane, NoteOpener
    <3> QED BY <2>2, <2>3, <3>1 DEF is_streaming
  <2>5. CASE ~is_streaming(camera) /\ is_streaming(o.cam)
    BY <2>1, <2>2, <2>3, <2>5 DEF NoteOpener
  <2>6. CASE ~is_streaming(o.cam)
    BY <2>1, <2>6 DEF is_streaming
  <2> QED BY <2>4, <2>5, <2>6
<1>7. ASSUME NEW c \in Conns, Unlock(c) PROVE LitIsAttended'
  <2>1. /\ alive /\ pc[c] = "unlock" /\ UNCHANGED <<policy, rq, release, camera, opener, late>>
        /\ pc' = [pc EXCEPT ![c] = IF rq[c] = "auth" THEN "scope" ELSE "done"]
    BY <1>7 DEF Unlock, Goto, HandlerOnly
  <2> QED BY <2>1 DEF ReleaseInv, is_streaming
<1>8. ASSUME NEW c \in Conns, ScopeExit(c) PROVE LitIsAttended'
  BY <1>8 DEF ScopeExit, Goto, HandlerOnly, is_streaming
<1>9. ASSUME NEW c \in Conns, Prewarm(c) PROVE LitIsAttended'
  <2>1. /\ prewarm[c] = "spawned" /\ UNCHANGED <<policy, pc, rq, release>>
        /\ \/ UNCHANGED <<camera, opener, late>>
           \/ \E o \in EnsureOutcomes :
                 camera' = o.cam /\ NoteOpener(c, o, release[c] = "done")
    BY <1>9 DEF Prewarm
  <2>2. CASE UNCHANGED <<camera, opener, late>>
    BY <2>1, <2>2 DEF is_streaming
  <2>3. ASSUME NEW o \in EnsureOutcomes, camera' = o.cam, NoteOpener(c, o, release[c] = "done")
        PROVE  LitIsAttended'
    <3>1. CASE is_streaming(camera)
      <4>1. camera' = camera /\ opener' = opener /\ late' = late
        BY <2>3, <3>1, EnsureLemma DEF CameraSane, NoteOpener
      <4> QED BY <2>1, <4>1 DEF is_streaming
    <3>2. CASE ~is_streaming(camera) /\ is_streaming(o.cam)
      <4>1. opener' = c /\ (late' <=> release[c] = "done")
        BY <2>3, <3>2 DEF NoteOpener
      <4>2. release[c] \in {"none", "spawned", "done"}
        BY DEF ThreadState
      <4>3. SUFFICES ASSUME policy = "lazy", release[c] = "none", pc[c] = "done",
                            rq[c] \in {"auth", "test"}
                     PROVE  FALSE
        BY <2>1, <4>1, <4>2
      <4> QED BY <2>1, <4>3 DEF ReleaseInv
    <3>3. CASE ~is_streaming(o.cam)
      BY <2>3, <3>3 DEF is_streaming
    <3> QED BY <3>1, <3>2, <3>3
  <2> QED BY <2>1, <2>2, <2>3
<1>10. ASSUME release_camera \/ WatchdogClose, UNCHANGED <<policy, pc, rq, opener, late>>,
              \/ UNCHANGED release
              \/ \E c \in Conns : release' = [release EXCEPT ![c] = "done"] /\ release_camera
       PROVE  LitIsAttended'
  <2>1. ~is_streaming(camera')
    BY <1>10 DEF release_camera, WatchdogClose, stop_stream, CameraSane, is_streaming, is_open,
                 CameraState
  <2> QED BY <2>1 DEF is_streaming
<1>11. ASSUME NEW c \in Conns, Release(c) PROVE LitIsAttended'
  BY <1>10, <1>11 DEF Release
<1>12. ASSUME WatchdogClose PROVE LitIsAttended'
  BY <1>10, <1>12 DEF WatchdogClose
<1>13. ASSUME WatchdogCheck \/ Tick \/ DeviceChange \/ UNCHANGED vars PROVE LitIsAttended'
  BY <1>1, <1>13 DEF WatchdogCheck, Tick, DeviceChange, vars
<1>14. ASSUME NEW c \in Conns, Segfault(c) PROVE LitIsAttended'
  BY <1>14 DEF Segfault, Unopened, is_streaming
<1>15. ASSUME Restart PROVE LitIsAttended'
  BY <1>15 DEF Restart
<1> QED
  BY <1>2, <1>3, <1>4, <1>5, <1>6, <1>7, <1>8, <1>9, <1>11, <1>12, <1>13, <1>14, <1>15
     DEF Next, Handler

\* Under the lazy policy a stream turned on for an auth or test request is attended
\* by that request or its release thread; the late prewarm is the only way out.
THEOREM NeverOrphaned == Spec => []LitIsAttended
<1>1. Init => LitIsAttended
  BY DEF Init, LitIsAttended
<1>2. TypeOK /\ MutexHeld /\ CameraSane /\ ReleaseInv /\ LitIsAttended /\ [Next]_vars
      => LitIsAttended'
  BY LitStep
<1> QED BY <1>1, <1>2, ReleaseAlways, PTL DEF Spec

-----------------------------------------------------------------------------
LEMMA CloseStep ==
    ASSUME TypeOK, CameraSane, ReleaseInv, [Next]_vars,
           policy # "lazy", is_streaming(camera), ~is_streaming(camera'), alive'
    PROVE  wd = "closing" /\ wd' = "waiting"
<1>1. ASSUME UNCHANGED camera PROVE FALSE
  BY <1>1 DEF is_streaming
<1>2. ASSUME NEW c \in Conns, Prewarm(c) \/ Frame(c) PROVE FALSE
  <2>1. UNCHANGED camera \/ \E o \in EnsureOutcomes : camera' = o.cam
    <3>1. CASE Prewarm(c)
      BY <3>1 DEF Prewarm
    <3>2. CASE Frame(c)
      BY <3>2 DEF Frame
    <3> QED BY <1>2, <3>1, <3>2
  <2> QED BY <1>1, <2>1, EnsureLemma DEF CameraSane
<1>3. ASSUME NEW c \in Conns,
             \/ \E sock \in {"auth", "mgmt"} : Accept(c, sock)
             \/ \E r \in AllRequests : BeginCapture(c, r) \/ ReturnScoped(c, r) \/ ReturnPlain(c, r)
             \/ Lock(c) \/ Unlock(c) \/ ScopeExit(c) \/ Deadline(c)
      PROVE  FALSE
  BY <1>1, <1>3 DEF Accept, BeginCapture, ReturnScoped, ReturnPlain, Lock, Unlock, ScopeExit,
                    Deadline, HandlerOnly
<1>4. ASSUME NEW c \in Conns, Release(c) PROVE FALSE
  BY <1>4 DEF Release, ReleaseInv
<1>5. ASSUME WatchdogCheck \/ Tick \/ DeviceChange \/ UNCHANGED vars PROVE FALSE
  BY <1>1, <1>5 DEF WatchdogCheck, Tick, DeviceChange, vars
<1>6. ASSUME NEW c \in Conns, Segfault(c) PROVE FALSE
  BY <1>6, Zenon DEF Segfault
<1>7. ASSUME Restart PROVE FALSE
  BY <1>7 DEF Restart, CameraSane, Unopened, is_streaming
<1>8. WatchdogClose
  BY <1>2, <1>3, <1>4, <1>5, <1>6, <1>7 DEF Next, Handler
<1> QED BY <1>8 DEF WatchdogClose

\* Under idle_keep and warm, no interleaving of requests turns the stream off: only
\* the watchdog does, or the death of the process.
THEOREM RequestsNeverClose == Spec => OnlyWatchdogCloses
<1>1. TypeOK /\ CameraSane /\ ReleaseInv /\ [Next]_vars =>
        [policy # "lazy" /\ is_streaming(camera) /\ ~is_streaming(camera')
         => ~alive' \/ (wd = "closing" /\ wd' = "waiting")]_vars
  BY CloseStep
<1> QED BY <1>1, ReleaseAlways, PTL DEF Spec, OnlyWatchdogCloses
=============================================================================
