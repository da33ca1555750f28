------------------------------- MODULE Enroll -------------------------------
(***************************************************************************)
(* Interactive enrollment: cmd_enroll of the CLI, the three enroll         *)
(* handlers of the daemon and the sessions between them.                   *)
(*                                                                         *)
(* A client is one run of `chowdy-cli enroll`, for one label of one target *)
(* user.  It has at most one request under way, served by a handler thread *)
(* that also lives on when the client has given up.  A handler keeps the   *)
(* raw pointer that get() returned while it waits for the pipeline's mutex *)
(* and while it captures; the sessions' own mutex it holds only inside     *)
(* create, get and drop.                                                   *)
(***************************************************************************)
EXTENDS Integers, Sequences, FiniteSets

CONSTANTS
    Clients,        \* the runs of chowdy-cli enroll
    Sizes,          \* the values of -n; the CLI raises it to at least 3
    Ttl,            \* kSessionTtl, in ticks of the clock
    MaxRestarts,    \* how often the daemon may restart
    NoOne, NoSession, NoFile,
    Torn            \* a file whose last bytes were lost: load_enrollment refuses it

Ids == 1 .. Cardinality(Clients)

\* Embeddings, each by the client whose request captured it.
Frames == Seq(Clients)

\* The files an enrollment may leave: the CLI asks for no fewer than 3 embeddings.
Files == { f \in Frames : Len(f) >= 3 }

Session == [owner : Clients, frames : Frames, age : 0 .. Ttl + 1]

ASSUME EnrollAssumption ==
    /\ IsFiniteSet(Clients)
    /\ \A n \in Sizes : n \in Nat /\ n >= 3
    /\ Ttl \in Nat \ {0} /\ MaxRestarts \in Nat
    /\ NoOne \notin Clients \cup {"other"} /\ "other" \notin Clients
    /\ NoSession \notin Session
    /\ {NoFile, Torn} \cap Frames = {} /\ NoFile # Torn

VARIABLES
    cli,        \* where each client is
    size,       \* its -n
    sid,        \* the session id it was given, 0 before
    done,       \* progress.done of the last answer
    h,          \* where the handler of its request is
    held,       \* ticks since that handler called get()
    sessions,   \* sessions_, by id
    counter,    \* counter_
    mu,         \* holder of Pipeline::mu_: a client's handler or another request
    saved,      \* the enrollment file of each client's label
    epoch,      \* restarts of the daemon so far
    born        \* the epoch in which a client was given its id

vars == <<cli, size, sid, done, h, held, sessions, counter, mu, saved, epoch, born>>

TypeOK ==
    /\ cli \in [Clients -> {"idle", "start", "prompt", "loop", "frame", "finish", "ok", "failed"}]
    /\ size \in [Clients -> Sizes]
    /\ sid \in [Clients -> Ids \cup {0}]
    /\ done \in [Clients -> BOOLEAN]
    /\ h \in [Clients -> {"none", "start", "frame", "wait_mu", "capture", "finish", "save", "drop"}]
    /\ held \in [Clients -> 0 .. Ttl + 1]
    /\ sessions \in [Ids -> Session \cup {NoSession}]
    /\ counter \in 0 .. Cardinality(Clients)
    /\ mu \in Clients \cup {"other", NoOne}
    /\ saved \in [Clients -> Files \cup {NoFile, Torn}]
    /\ epoch \in 0 .. MaxRestarts
    /\ born \in [Clients -> 0 .. MaxRestarts]

-----------------------------------------------------------------------------
\* What the CLI asks for, and what handle_start makes of it.
AskedMin(n) == IF n \div 2 > 3 THEN n \div 2 ELSE 3

MinFrames(n) == IF AskedMin(n) > 0 THEN AskedMin(n) ELSE 5

MaxFrames(n) == IF n > MinFrames(n) THEN n ELSE MinFrames(n) + 7

\* Mutant of Full: the buffer may take one frame more.
Full_OffByOne(s) == Len(s.frames) > MaxFrames(size[s.owner])

Full(s) == Len(s.frames) >= MaxFrames(size[s.owner])

\* reap_expired_locked.
Reaped == [i \in Ids |-> IF sessions[i] # NoSession /\ sessions[i].age > Ttl
                         THEN NoSession ELSE sessions[i]]

\* Mutant of Touched: get() does not update last_touch.
Touched_Not(i) == Reaped

\* get(): reap, find, touch.
Touched(i) == IF Reaped[i] = NoSession THEN Reaped
              ELSE [Reaped EXCEPT ![i] = [@ EXCEPT !.age = 0]]

Awaits(c) == cli[c] \in {"start", "frame", "finish"}

\* The handler ends.  Its answer takes the client to `next`, or is lost when the client
\* no longer waits for it.
Answer(c, next, finished) ==
    /\ h' = [h EXCEPT ![c] = "none"]
    /\ cli' = [cli EXCEPT ![c] = IF Awaits(c) THEN next ELSE @]
    /\ done' = [done EXCEPT ![c] = IF Awaits(c) THEN finished ELSE @]

HandlerGoto(c, where) == h' = [h EXCEPT ![c] = where] /\ UNCHANGED <<cli, done>>

Init ==
    /\ cli = [c \in Clients |-> "idle"]
    /\ size \in [Clients -> Sizes]
    /\ sid = [c \in Clients |-> 0] /\ done = [c \in Clients |-> FALSE]
    /\ h = [c \in Clients |-> "none"] /\ held = [c \in Clients |-> 0]
    /\ sessions = [i \in Ids |-> NoSession] /\ counter = 0
    /\ mu = NoOne
    /\ saved = [c \in Clients |-> NoFile]
    /\ epoch = 0 /\ born = [c \in Clients |-> 0]

-----------------------------------------------------------------------------
(* The client. *)

\* round_trip: connect, write the request; the daemon starts a handler.
Request(c, kind) ==
    /\ cli' = [cli EXCEPT ![c] = kind]
    /\ h' = [h EXCEPT ![c] = kind]
    /\ UNCHANGED <<size, sid, done, held, sessions, counter, mu, saved, epoch, born>>

Begin(c) == cli[c] = "idle" /\ Request(c, "start")

\* std::cin.get(), which waits as long as the user likes.
PressEnter(c) ==
    /\ cli[c] = "prompt"
    /\ cli' = [cli EXCEPT ![c] = "loop"]
    /\ UNCHANGED <<size, sid, done, h, held, sessions, counter, mu, saved, epoch, born>>

\* while (!progress.done)
Loop(c) == cli[c] = "loop" /\ Request(c, IF done[c] THEN "finish" ELSE "frame")

\* SO_RCVTIMEO passes or the connection fails: round_trip throws and the CLI returns 1.
\* The handler does not notice.
GiveUp(c) ==
    /\ Awaits(c)
    /\ cli' = [cli EXCEPT ![c] = "failed"]
    /\ UNCHANGED <<size, sid, done, h, held, sessions, counter, mu, saved, epoch, born>>

-----------------------------------------------------------------------------
\* Mutant of Start: the counter is not incremented.
Start_NoCount(c) ==
    /\ h[c] = "start"
    /\ counter' = 1
    /\ sessions' = [Reaped EXCEPT ![counter'] =
                       [owner |-> c, frames |-> <<>>, age |-> 0]]
    /\ sid' = [sid EXCEPT ![c] = IF Awaits(c) THEN counter' ELSE @]
    /\ born' = [born EXCEPT ![c] = epoch]
    /\ Answer(c, "prompt", FALSE)
    /\ UNCHANGED <<size, held, mu, saved, epoch>>

(* handle_start.  Between create and the get that follows it the new session is
   younger than the time to live and nobody else knows its id: one step. *)
Start(c) ==
    /\ h[c] = "start"
    /\ counter' = counter + 1
    /\ sessions' = [Reaped EXCEPT ![counter'] =
                       [owner |-> c, frames |-> <<>>, age |-> 0]]
    /\ sid' = [sid EXCEPT ![c] = IF Awaits(c) THEN counter' ELSE @]
    /\ born' = [born EXCEPT ![c] = epoch]
    /\ Answer(c, "prompt", FALSE)
    /\ UNCHANGED <<size, held, mu, saved, epoch>>

\* The peer is not root, or the label is not a file name.
StartDenied(c) ==
    /\ h[c] = "start"
    /\ Answer(c, "failed", FALSE)
    /\ UNCHANGED <<size, sid, held, sessions, counter, mu, saved, epoch, born>>

\* get() for a frame or a finish request; `there` says what happens with a session.
Lookup(c, there) ==
    /\ sessions' = Touched(sid[c])
    /\ held' = [held EXCEPT ![c] = 0]
    /\ IF sessions'[sid[c]] = NoSession THEN Answer(c, "failed", FALSE) ELSE there
    /\ UNCHANGED <<size, sid, counter, mu, saved, epoch, born>>

\* handle_frame, up to the pipeline's mutex.
Frame(c) ==
    /\ h[c] = "frame"
    /\ Lookup(c, IF Full(sessions'[sid[c]]) THEN Answer(c, "loop", TRUE)
                                            ELSE HandlerGoto(c, "wait_mu"))

Lock(c) ==
    /\ h[c] = "wait_mu" /\ mu = NoOne
    /\ mu' = c
    /\ HandlerGoto(c, "capture")
    /\ UNCHANGED <<size, sid, held, sessions, counter, saved, epoch, born>>

\* Mutant of Capture: done is computed as if every frame had been good.
Capture_CountsAll(c) ==
    /\ h[c] = "capture" /\ sessions[sid[c]] # NoSession
    /\ mu' = NoOne
    /\ \E good \in BOOLEAN :
          LET s == [sessions[sid[c]] EXCEPT !.frames = Append(@, c)]
          IN /\ sessions' = [sessions EXCEPT ![sid[c]] = IF good THEN s ELSE @]
             /\ Answer(c, "loop", Full(s))
    /\ UNCHANGED <<size, sid, held, counter, saved, epoch, born>>

\* process_one_frame and what follows it: the embedding is kept, or the frame is
\* refused (no frame, too dark, no face, too far, too close, blurry, an exception).
Capture(c) ==
    /\ h[c] = "capture" /\ sessions[sid[c]] # NoSession
    /\ mu' = NoOne
    /\ \/ /\ sessions' = [sessions EXCEPT ![sid[c]].frames = Append(@, c)]
          /\ Answer(c, "loop", Full(sessions'[sid[c]]))
       \/ /\ Answer(c, "loop", FALSE)
          /\ UNCHANGED sessions
    /\ UNCHANGED <<size, sid, held, counter, saved, epoch, born>>

\* Mutant of Finish: min_frames is not checked.
Finish_NoMinimum(c) == h[c] = "finish" /\ Lookup(c, HandlerGoto(c, "save"))

\* handle_finish, up to the save.
Finish(c) ==
    /\ h[c] = "finish"
    /\ Lookup(c, LET s == sessions'[sid[c]]
                 IN IF Len(s.frames) < MinFrames(size[s.owner])
                    THEN Answer(c, "failed", FALSE)
                    ELSE HandlerGoto(c, "save"))

(* The embeddings are copied and saved under the label of the session.  save_enrollment
   checks its writes but not the flush in the stream's destructor, so the file it renames
   into place may have lost its end, and nobody is told. *)
Save(c) ==
    /\ h[c] = "save" /\ sessions[sid[c]] # NoSession
    /\ \E file \in {sessions[sid[c]].frames, Torn} :
          saved' = [saved EXCEPT ![sessions[sid[c]].owner] = file]
    /\ HandlerGoto(c, "drop")
    /\ UNCHANGED <<size, sid, held, sessions, counter, mu, epoch, born>>

\* The save throws before it touches the file of the label; the session stays.
SaveThrows(c) ==
    /\ h[c] = "save" /\ sessions[sid[c]] # NoSession
    /\ Answer(c, "failed", FALSE)
    /\ UNCHANGED <<size, sid, held, sessions, counter, mu, saved, epoch, born>>

Drop(c) ==
    /\ h[c] = "drop" /\ sessions[sid[c]] # NoSession
    /\ sessions' = [sessions EXCEPT ![sid[c]] = NoSession]
    /\ Answer(c, "ok", FALSE)
    /\ UNCHANGED <<size, sid, held, counter, mu, saved, epoch, born>>

\* The pointer is used after the session is gone: undefined.  The handler answers
\* something and lets the mutex go; or the process dies, which is Restart.
Dangling(c) ==
    /\ h[c] \in {"capture", "save", "drop"} /\ sessions[sid[c]] = NoSession
    /\ mu' = IF mu = c THEN NoOne ELSE mu
    /\ \E next \in {"loop", "failed"} : Answer(c, next, FALSE)
    /\ UNCHANGED <<size, sid, held, sessions, counter, saved, epoch, born>>

-----------------------------------------------------------------------------
(* External: another request takes the pipeline's mutex, for as long as it likes. *)
OtherRequest ==
    /\ mu \in {NoOne, "other"}
    /\ mu' = IF mu = NoOne THEN "other" ELSE NoOne
    /\ UNCHANGED <<cli, size, sid, done, h, held, sessions, counter, saved, epoch, born>>

Older(age) == IF age > Ttl THEN age ELSE age + 1

(* External: the clock.  A tick is minutes: a client that waits for an answer has given
   up before. *)
Tick ==
    /\ \A c \in Clients : ~Awaits(c)
    /\ held' = [c \in Clients |-> IF h[c] = "none" THEN held[c] ELSE Older(held[c])]
    /\ sessions' = [i \in Ids |-> IF sessions[i] = NoSession THEN NoSession
                                  ELSE [sessions[i] EXCEPT !.age = Older(@)]]
    /\ UNCHANGED <<cli, size, sid, done, h, counter, mu, saved, epoch, born>>

\* The daemon dies and systemd starts it again: no sessions, no handlers, a new
\* counter.  A client that waited for an answer reads the end of the connection.
Restart ==
    /\ epoch < MaxRestarts
    /\ epoch' = epoch + 1
    /\ sessions' = [i \in Ids |-> NoSession] /\ counter' = 0
    /\ h' = [c \in Clients |-> "none"] /\ mu' = NoOne
    /\ cli' = [c \in Clients |-> IF Awaits(c) THEN "failed" ELSE cli[c]]
    /\ UNCHANGED <<size, sid, done, held, saved, born>>

Client(c) == Begin(c) \/ PressEnter(c) \/ Loop(c) \/ GiveUp(c)

Handler(c) ==
    \/ Start(c) \/ StartDenied(c)
    \/ Frame(c) \/ Lock(c) \/ Capture(c)
    \/ Finish(c) \/ Save(c) \/ SaveThrows(c) \/ Drop(c)
    \/ Dangling(c)

Next == (\E c \in Clients : Client(c) \/ Handler(c)) \/ OtherRequest \/ Tick \/ Restart

Spec == Init /\ [][Next]_vars

-----------------------------------------------------------------------------
\* Two clients were given the id i, by different lives of the daemon.
Collides(i) == \E c, d \in Clients : sid[c] = i /\ sid[d] = i /\ born[c] # born[d]

\* The pointer a handler keeps across the wait for the pipeline's mutex, the capture and
\* the save points to a session, as long as it is kept for no longer than a session
\* lives: neither the end of another enrollment nor the expiry of other sessions, nor a
\* client that gave up and was run again, takes it away.
PointerValid ==
    \A c \in Clients :
        h[c] \in {"wait_mu", "capture", "save", "drop"} /\ held[c] <= Ttl /\ ~Collides(sid[c])
        => sessions[sid[c]] # NoSession

\* A session holds no more embeddings than were asked for, although the bound is checked
\* before the wait for the mutex and the embedding is added after it.  Only clients that
\* were given its id by different lives of the daemon can exceed it together.
FrameBound ==
    \A i \in Ids : sessions[i] # NoSession /\ ~Collides(i)
                   => Len(sessions[i].frames) <= MaxFrames(size[sessions[i].owner])

\* The file of a label holds at least n embeddings, unless its end was lost in the flush.
Holds(c, n) == saved[c] = Torn \/ (saved[c] # NoFile /\ Len(saved[c]) >= n)

\* When the CLI reports an enrollment as done, a file with at least min_frames embeddings
\* was put under the label it reports, and nobody took it away.  When the session was
\* opened in this life of the daemon by the client itself, that label is the client's own
\* and the file has at least the -n embeddings asked for; a client that goes on with an
\* id from before a restart may instead finish the session of another.  That the file can
\* be loaded is not promised (Torn), although encoding.hpp:60 has save_enrollment throw "on
\* I/O failure": the destructor of the stream, which writes the last bytes, reports none.
OkMeansSaved ==
    [][\A c \in Clients : cli'[c] = "ok" /\ cli[c] # "ok" =>
          LET label == sessions[sid[c]].owner
          IN /\ Holds(label, MinFrames(size[label]))
             /\ born[c] = epoch => label = c /\ Holds(c, size[c])]_vars

\* An embedding in a session was captured for the client that opened it, or for one
\* that goes on with an id it was given before a restart.
FramesBelong ==
    \A i \in Ids : sessions[i] # NoSession =>
        \A k \in 1 .. Len(sessions[i].frames) :
            LET d == sessions[i].frames[k] IN d # sessions[i].owner => born[d] < epoch
=============================================================================
