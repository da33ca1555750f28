------------------------------ MODULE Pipeline ------------------------------
(***************************************************************************)
(* The capture pipeline of chowdyd: who turns the infrared camera (and its *)
(* LED) on and off, and in which order.                                    *)
(*                                                                         *)
(* The threads, all of one process:                                        *)
(*   - one detached handler thread per accepted connection                 *)
(*     (Server::handle_connection and the request handlers);               *)
(*   - one detached prewarm thread per connection accepted on the auth     *)
(*     socket, under the "lazy" policy (Pipeline::prewarm_async);          *)
(*   - one detached release thread per RequestScope destroyed, under the   *)
(*     "lazy" policy (Pipeline::release_camera_async);                     *)
(*   - the watchdog (Pipeline::idle_keeper_loop).                          *)
(* They meet at the mutex mu_, at the camera it protects, and at the two   *)
(* atomics use_gen_ and last_use_ns_ that are read without it.             *)
(*                                                                         *)
(* Time is relative: age is the time since last_use_ns_, in units of which *)
(* Window make the watchdog window, saturating there; -1 is the zero       *)
(* initial value, "never used".  The configuration is read once per life   *)
(* of the process, so a restart may come back with another policy.         *)
(***************************************************************************)
EXTENDS Integers, Camera

CONSTANTS
    Conns,      \* the connections clients make, each accepted once
    Policies,   \* the values of camera_policy the configuration may have
    Window,     \* idle_keep_ms or lazy_safety_close_ms in ticks; 0 = no watchdog
    Requests,   \* what clients send, a subset of AllRequests
    NoOne       \* not a connection: nobody holds mu_

\* The requests that matter to the camera.  "plain" stands for enroll_start,
\* list and remove, "broken" for a connection that never yields a request.
AllRequests == {"auth", "test", "enroll_frame", "enroll_finish", "plain", "broken"}

ASSUME PipelineAssumption ==
    /\ NoOne \notin Conns
    /\ Policies \subseteq {"lazy", "idle_keep", "warm"}
    /\ Window \in Nat
    /\ Requests \subseteq AllRequests

VARIABLES
    policy,     \* cfg_.camera_policy
    camera,     \* camera_
    dev,        \* the driver (external)
    mu,         \* mu_: the connection whose handler holds it, or NoOne
    use_gen,    \* use_gen_
    age,        \* now - last_use_ns_
    wd,         \* the watchdog: "waiting" in wait_for, or past the idle check: "closing"
    alive,      \* FALSE between a crash of the process and its restart
    pc,         \* where each handler thread is
    rq,         \* the request it is serving
    prewarm,    \* the prewarm thread of each connection
    gen0,       \* the generation that thread captured
    release,    \* the release thread of each connection
    \* History, read by no action:
    shut,       \* connections that have seen a STREAMOFF since they were accepted
    opener,     \* the connection that last turned the stream on
    late        \* it did so from a prewarm that ran after its own release

vars == <<policy, camera, dev, mu, use_gen, age, wd, alive, pc, rq, prewarm, gen0, release,
          shut, opener, late>>

\* "scope" is a handler about to destroy its RequestScope without holding mu_,
\* "unlock" one about to release mu_.
PCs == {"idle", "reading", "wait_mu", "locked", "scope", "unlock", "done"}

ThreadState == {"none", "spawned", "done"}

TypeOK ==
    /\ policy \in Policies
    /\ camera \in CameraState
    /\ dev \in DeviceState
    /\ mu \in Conns \cup {NoOne}
    /\ use_gen \in Nat
    /\ age \in -1 .. Window
    /\ wd \in {"waiting", "closing"}
    /\ alive \in BOOLEAN
    /\ pc \in [Conns -> PCs]
    /\ rq \in [Conns -> AllRequests]
    /\ prewarm \in [Conns -> ThreadState]
    /\ gen0 \in [Conns -> Nat]
    /\ release \in [Conns -> ThreadState]
    /\ shut \subseteq Conns
    /\ opener \in Conns \cup {NoOne}
    /\ late \in BOOLEAN

-----------------------------------------------------------------------------
\* The window the constructor picks; warm has no watchdog thread.
watchdog_window == IF policy = "warm" THEN 0 ELSE Window

(* ensure_camera_open: a full open() of a camera that is not open, otherwise a
   restart of the stream; then last_use_ns_ is stored.  An exception skips the
   store. *)
EnsureOutcomes == IF ~is_open(camera) THEN open(camera, dev) ELSE start_stream(camera, dev)

\* Mutant of AgeAfter: opening the stream does not count as a use.
AgeAfter_NotStored(o) == age

AgeAfter(o) == IF o.res = "ok" THEN 0 ELSE age

\* Who turned the stream on, if this step did.
NoteOpener(c, o, isLate) ==
    IF is_streaming(o.cam) /\ ~is_streaming(camera)
    THEN opener' = c /\ late' = isLate
    ELSE UNCHANGED <<opener, late>>

(* release_camera: nothing unless the stream is on; a generation is counted
   only on an actual STREAMOFF.  Called with mu_ held by the release thread. *)
release_camera ==
    IF is_streaming(camera)
    THEN /\ camera' = stop_stream(camera)
         /\ use_gen' = use_gen + 1
         /\ shut' = { d \in Conns : pc[d] # "idle" }
    ELSE UNCHANGED <<camera, use_gen, shut>>

-----------------------------------------------------------------------------
(* Pipeline::Pipeline and the daemon before its first connection.  Under "warm"
   the constructor opens the camera and swallows a failure. *)
Booted(pol, cam0, age0) ==
    IF pol = "warm"
    THEN \E o \in open(Unopened, dev) : cam0 = o.cam /\ age0 = (IF o.res = "ok" THEN 0 ELSE -1)
    ELSE cam0 = Unopened /\ age0 = -1

Init ==
    /\ policy \in Policies /\ dev \in DeviceState
    /\ Booted(policy, camera, age)
    /\ mu = NoOne /\ use_gen = 0 /\ wd = "waiting" /\ alive = TRUE
    /\ pc = [c \in Conns |-> "idle"]
    /\ rq = [c \in Conns |-> "plain"]
    /\ prewarm = [c \in Conns |-> "none"]
    /\ gen0 = [c \in Conns |-> 0]
    /\ release = [c \in Conns |-> "none"]
    /\ shut = {} /\ opener = NoOne /\ late = FALSE

(* Server::accept_loop: on the auth socket the prewarm thread is spawned, with
   the generation captured on the accept thread and without mu_, before the
   handler thread is. *)
Accept(c, sock) ==
    /\ alive /\ pc[c] = "idle"
    /\ pc' = [pc EXCEPT ![c] = "reading"]
    /\ IF sock = "auth" /\ policy = "lazy"
       THEN /\ prewarm' = [prewarm EXCEPT ![c] = "spawned"]
            /\ gen0' = [gen0 EXCEPT ![c] = use_gen]
       ELSE UNCHANGED <<prewarm, gen0>>
    /\ UNCHANGED <<camera, dev, policy, mu, use_gen, age, wd, alive, rq, release, shut,
                   opener, late>>

\* Mutant of Prewarm: the stale-generation check is missing.
Prewarm_NoGenCheck(c) ==
    /\ alive /\ prewarm[c] = "spawned" /\ mu = NoOne
    /\ prewarm' = [prewarm EXCEPT ![c] = "done"]
    /\ gen0' = [gen0 EXCEPT ![c] = 0]
    /\ \E o \in EnsureOutcomes :
          /\ camera' = o.cam
          /\ age' = AgeAfter(o)
          /\ NoteOpener(c, o, release[c] = "done")
    /\ UNCHANGED <<dev, policy, mu, use_gen, wd, alive, pc, rq, release, shut>>

(* The detached body of prewarm_async, a critical section of mu_. *)
Prewarm(c) ==
    /\ alive /\ prewarm[c] = "spawned" /\ mu = NoOne
    /\ prewarm' = [prewarm EXCEPT ![c] = "done"]
    /\ gen0' = [gen0 EXCEPT ![c] = 0]                             \* the thread is gone
    /\ IF use_gen # gen0[c]
       THEN UNCHANGED <<camera, age, opener, late>>
       ELSE \E o \in EnsureOutcomes :
               /\ camera' = o.cam
               /\ age' = AgeAfter(o)
               /\ NoteOpener(c, o, release[c] = "done")
    /\ UNCHANGED <<dev, policy, mu, use_gen, wd, alive, pc, rq, release, shut>>

-----------------------------------------------------------------------------
(* The handler thread.  handle_connection reads and parses one request. *)

Goto(c, where) == pc' = [pc EXCEPT ![c] = where]

HandlerOnly ==
    UNCHANGED <<camera, dev, policy, use_gen, age, wd, alive, prewarm, gen0, shut, opener, late>>

\* auth past its three early returns, test, and an accepted enroll_frame go on to
\* lock mu_.
BeginCapture(c, r) ==
    /\ alive /\ pc[c] = "reading" /\ r \in Requests \cap {"auth", "test", "enroll_frame"}
    /\ rq' = [rq EXCEPT ![c] = r]
    /\ Goto(c, "wait_mu")
    /\ UNCHANGED <<mu, release>> /\ HandlerOnly

\* Mutant of ReturnScoped: the scope is created after the early returns.
ReturnScoped_NoScope(c, r) ==
    /\ alive /\ pc[c] = "reading" /\ r \in Requests \cap {"auth", "enroll_finish"}
    /\ rq' = [rq EXCEPT ![c] = r]
    /\ Goto(c, "done")
    /\ UNCHANGED <<mu, release>> /\ HandlerOnly

\* auth that returns early (peer_denied, not_enrolled, embedder_mismatch) and an
\* enroll_finish from root: the scope exists, the camera was not touched.
ReturnScoped(c, r) ==
    /\ alive /\ pc[c] = "reading" /\ r \in Requests \cap {"auth", "enroll_finish"}
    /\ rq' = [rq EXCEPT ![c] = r]
    /\ Goto(c, "scope")
    /\ UNCHANGED <<mu, release>> /\ HandlerOnly

\* Everything that ends without a scope: no peer credentials, a read error or
\* timeout, a parse error, a refused or already complete enroll_frame, a refused
\* enroll_finish, and the requests that never touch the camera.
ReturnPlain(c, r) ==
    /\ alive /\ pc[c] = "reading"
    /\ r \in Requests \cap {"enroll_frame", "enroll_finish", "plain", "broken"}
    /\ rq' = [rq EXCEPT ![c] = r]
    /\ Goto(c, "done")
    /\ UNCHANGED <<mu, release>> /\ HandlerOnly

\* Mutant of Lock: the handler captures without taking turns.
Lock_Ignored(c) ==
    /\ alive /\ pc[c] = "wait_mu"
    /\ mu' = c
    /\ Goto(c, "locked")
    /\ UNCHANGED <<rq, release>> /\ HandlerOnly

Lock(c) ==
    /\ alive /\ pc[c] = "wait_mu" /\ mu = NoOne
    /\ mu' = c
    /\ Goto(c, "locked")
    /\ UNCHANGED <<rq, release>> /\ HandlerOnly

\* Where a handler goes when its capture loop is over.  auth declares its scope
\* before the lock_guard, so it unlocks first; test declares it after, so the
\* scope is destroyed while mu_ is still held; enroll_frame has none.
Leave(c) ==
    IF rq[c] = "test" /\ policy = "lazy"
    THEN /\ release' = [release EXCEPT ![c] = "spawned"] /\ Goto(c, "unlock")
    ELSE /\ Goto(c, "unlock") /\ UNCHANGED release

(* One process_one_frame of the capture loop: bring the stream up, store
   last_use_ns_, capture, run the models.  An exception (camera or models) ends
   the request; so does the frame the handler was looking for; enroll_frame
   takes exactly one. *)
Frame(c) ==
    /\ alive /\ pc[c] = "locked"
    /\ \E o \in EnsureOutcomes :
          /\ camera' = o.cam
          /\ age' = AgeAfter(o)
          /\ NoteOpener(c, o, FALSE)
          /\ \E f \in (IF o.res = "ok" THEN capture(o.cam, dev) \ {"segv"} ELSE {"threw"}) :
                \/ /\ f # "threw" /\ rq[c] # "enroll_frame"       \* continue
                   /\ UNCHANGED <<pc, release>>
                \/ /\ f # "empty" \/ rq[c] = "enroll_frame"       \* return
                   /\ Leave(c)
    /\ UNCHANGED <<dev, policy, mu, use_gen, wd, alive, rq, prewarm, gen0, shut>>

\* Mutant of Deadline: only test looks at the clock.
Deadline_TestOnly(c) ==
    /\ alive /\ pc[c] = "locked" /\ rq[c] = "test"
    /\ Leave(c)
    /\ UNCHANGED <<mu, rq>> /\ HandlerOnly

\* The loop condition fails: the budget, which started before the lock was taken,
\* is used up.  enroll_frame has no loop.
Deadline(c) ==
    /\ alive /\ pc[c] = "locked" /\ rq[c] \in {"auth", "test"}
    /\ Leave(c)
    /\ UNCHANGED <<mu, rq>> /\ HandlerOnly

\* ~lock_guard.  An auth handler still has its scope to destroy.
Unlock(c) ==
    /\ alive /\ pc[c] = "unlock"
    /\ mu' = NoOne
    /\ Goto(c, IF rq[c] = "auth" THEN "scope" ELSE "done")
    /\ UNCHANGED <<rq, release>> /\ HandlerOnly

\* Mutant of ScopeExit: the policy is not looked at.
ScopeExit_AnyPolicy(c) ==
    /\ alive /\ pc[c] = "scope"
    /\ release' = [release EXCEPT ![c] = "spawned"]
    /\ Goto(c, "done")
    /\ UNCHANGED <<mu, rq>> /\ HandlerOnly

\* ~RequestScope: under "lazy", release_camera_async.
ScopeExit(c) ==
    /\ alive /\ pc[c] = "scope"
    /\ release' = IF policy = "lazy" THEN [release EXCEPT ![c] = "spawned"] ELSE release
    /\ Goto(c, "done")
    /\ UNCHANGED <<mu, rq>> /\ HandlerOnly

(* The detached body of release_camera_async, a critical section of mu_. *)
Release(c) ==
    /\ alive /\ release[c] = "spawned" /\ mu = NoOne
    /\ release_camera
    /\ release' = [release EXCEPT ![c] = "done"]
    /\ UNCHANGED <<dev, policy, mu, age, wd, alive, pc, rq, prewarm, gen0, opener, late>>

-----------------------------------------------------------------------------
(* The watchdog compares last_use_ns_ with the clock without mu_, ... *)
WatchdogCheck ==
    /\ alive /\ watchdog_window > 0 /\ wd = "waiting"
    /\ age # -1 /\ age >= watchdog_window
    /\ wd' = "closing"
    /\ UNCHANGED <<camera, dev, policy, mu, use_gen, age, alive, pc, rq, prewarm, gen0, release,
                   shut, opener, late>>

\* Mutant of WatchdogClose: the lazy safety net is missing.
WatchdogClose_IdleKeepOnly ==
    /\ alive /\ wd = "closing" /\ mu = NoOne
    /\ wd' = "waiting"
    /\ IF is_streaming(camera) /\ policy = "idle_keep"
       THEN /\ camera' = stop_stream(camera)
            /\ use_gen' = use_gen + 1
            /\ shut' = { d \in Conns : pc[d] # "idle" }
       ELSE UNCHANGED <<camera, use_gen, shut>>
    /\ UNCHANGED <<dev, policy, mu, age, alive, pc, rq, prewarm, gen0, release, opener, late>>

(* ... and acts on the answer once it has mu_. *)
WatchdogClose ==
    /\ alive /\ wd = "closing" /\ mu = NoOne
    /\ wd' = "waiting"
    /\ IF is_streaming(camera)
       THEN /\ camera' = stop_stream(camera)
            /\ use_gen' = use_gen + 1
            /\ shut' = { d \in Conns : pc[d] # "idle" }
       ELSE UNCHANGED <<camera, use_gen, shut>>
    /\ UNCHANGED <<dev, policy, mu, age, alive, pc, rq, prewarm, gen0, release, opener, late>>

Tick ==
    /\ alive /\ age \in 0 .. watchdog_window - 1
    /\ age' = age + 1
    /\ UNCHANGED <<camera, dev, policy, mu, use_gen, wd, alive, pc, rq, prewarm, gen0, release,
                   shut, opener, late>>

(* External: another process takes or gives back the device. *)
DeviceChange ==
    /\ alive /\ dev' \in DeviceState \ {dev}
    /\ UNCHANGED <<policy, camera, mu, use_gen, age, wd, alive, pc, rq, prewarm, gen0, release,
                   shut, opener, late>>

(* A capture from a buffer that was never mapped kills the process; the kernel
   closes the device. *)
Segfault(c) ==
    /\ alive /\ pc[c] = "locked"
    /\ \E o \in EnsureOutcomes : o.res = "ok" /\ "segv" \in capture(o.cam, dev)
    /\ alive' = FALSE
    /\ camera' = Unopened
    /\ UNCHANGED <<dev, policy, mu, use_gen, age, wd, pc, rq, prewarm, gen0, release,
                   shut, opener, late>>

(* systemd starts the daemon again (Restart=on-failure), which reads its
   configuration again.  Connections it had accepted are gone, those still in the
   listen queue are not. *)
Restart ==
    /\ ~alive
    /\ alive' = TRUE
    /\ policy' \in Policies
    /\ Booted(policy', camera', age')
    /\ mu' = NoOne /\ use_gen' = 0 /\ wd' = "waiting"
    /\ pc' = [c \in Conns |-> IF pc[c] = "idle" THEN "idle" ELSE "done"]
    /\ prewarm' = [c \in Conns |-> "none"]
    /\ gen0' = [c \in Conns |-> 0]
    /\ release' = [c \in Conns |-> "none"]
    /\ shut' = {} /\ opener' = NoOne /\ late' = FALSE
    /\ UNCHANGED <<dev, rq>>

Handler(c) ==
    \/ \E r \in AllRequests : BeginCapture(c, r) \/ ReturnScoped(c, r) \/ ReturnPlain(c, r)
    \/ Lock(c) \/ Frame(c) \/ Deadline(c) \/ Unlock(c) \/ ScopeExit(c)
    \/ Segfault(c)

Next ==
    \/ \E c \in Conns :
          \/ \E sock \in {"auth", "mgmt"} : Accept(c, sock)
          \/ Handler(c)
          \/ Prewarm(c)
          \/ Release(c)
    \/ WatchdogCheck
    \/ WatchdogClose
    \/ Tick
    \/ DeviceChange
    \/ Restart

Spec == Init /\ [][Next]_vars

(* Fairness.  A handler thread is scheduled, its reads and writes time out, and
   its capture loop has a deadline; detached threads and the watchdog are
   scheduled; time passes; systemd restarts what crashed.  The mutex is not fair:
   weak fairness of Lock is enough because the connections are finitely many.
   Nothing obliges a client to connect or the device to recover. *)
Fairness ==
    /\ \A c \in Conns : /\ WF_vars(Handler(c))
                        /\ WF_vars(Deadline(c))
                        /\ WF_vars(Prewarm(c))
                        /\ WF_vars(Release(c))
    /\ WF_vars(WatchdogCheck)
    /\ WF_vars(WatchdogClose)
    /\ WF_vars(Tick)
    /\ WF_vars(Restart)

FairSpec == Spec /\ Fairness

-----------------------------------------------------------------------------
(* Safety. *)

\* mu_ protects the capture loop: exactly the holder of mu_ is between its Lock
\* and its Unlock (pipeline.hpp: "Serialises capture-side work").
MutexHeld ==
    alive => \A c \in Conns : mu = c <=> pc[c] \in {"locked", "unlock"}

\* Every lit LED has a time of last use, so the watchdog can reclaim it however
\* it came to be lit (pipeline.cpp, end of ensure_camera_open).
StreamTimed == is_streaming(camera) => age # -1

\* The promise of prewarm_async: a prewarm that turns the stream on does so only
\* if nobody has stopped the stream since its connection was accepted.
PrewarmNeverReopens ==
    [][\A c \in Conns :
          /\ prewarm[c] = "spawned" /\ prewarm'[c] = "done" /\ alive'
          /\ ~is_streaming(camera) /\ is_streaming(camera')
          => c \notin shut]_vars

\* Under "lazy", a stream turned on for an auth or a test request is never
\* orphaned: that request is still running, or its release thread is.  The one
\* way out is a prewarm that ran after its own request's release (late).
LitIsAttended ==
    policy = "lazy" /\ is_streaming(camera) /\ ~late /\ opener # NoOne
       /\ rq[opener] \in {"auth", "test"}
    => pc[opener] # "done" \/ release[opener] = "spawned"

\* Under "idle_keep" and "warm" no request ever turns the stream off: only the
\* watchdog does, or the death of the process.
OnlyWatchdogCloses ==
    [][policy # "lazy" /\ is_streaming(camera) /\ ~is_streaming(camera')
       => ~alive' \/ (wd = "closing" /\ wd' = "waiting")]_vars

-----------------------------------------------------------------------------
(* Liveness, under Fairness. *)

\* The LED never stays lit: under lazy and idle_keep, every lit stream is
\* eventually stopped, whichever request or prewarm left it on.
LedGoesDark == policy # "warm" /\ is_streaming(camera) ~> ~is_streaming(camera)

\* Every accepted connection is eventually finished with, whatever the device
\* does and however the mutex is contended.
EveryConnectionEnds == \A c \in Conns : pc[c] = "reading" ~> pc[c] = "done"

-----------------------------------------------------------------------------
(* What comments in the code say, and the code does not do. *)

Quiet ==
    \A c \in Conns : /\ pc[c] \in {"idle", "done"}
                     /\ prewarm[c] # "spawned" /\ release[c] # "spawned"

\* handlers/auth.cpp:54-59 and pipeline.hpp:98-101: once the threads of every auth
\* request have run, nothing is left to keep the LED lit.
QuietIsDark == policy = "lazy" /\ Quiet => ~is_streaming(camera)
=============================================================================
