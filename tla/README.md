# chowdy: a TLA+ verification project

chowdy logs a Linux user in by face. This directory models the threads of the daemon
`chowdyd` that share one infrared camera, the enrollment files that hold the credentials and
the cache in front of them, the life of the process from its first signal handler to its
last destructor, the enrollment dialogue with the command line client, a login from the PAM
module to the daemon and back, what the daemon makes of the faces in a frame, and a request
of any kind from the bytes a client writes to the answer it believes.

## The system

| Component | State it keeps | Operations | Meets |
|---|---|---|---|
| camera device (`daemon/camera.*`) | fd, mapped buffers, streaming flag | open, start_stream, stop_stream, capture, close | the V4L2 driver |
| capture pipeline (`daemon/pipeline.*`) | the camera, `mu_`, `use_gen_`, `last_use_ns_`, watchdog thread | ensure_camera_open, release_camera, prewarm_async, release_camera_async, process_one_frame, idle_keeper_loop | every handler thread, the server |
| server (`daemon/server.*`) | two listening sockets, `stopping_`, a self-pipe, two accept threads | run, stop, accept_loop, handle_connection | clients, pipeline, main |
| daemon process (`daemon/main.cpp`) | `g_server`, the ping thread, the objects on its stack | main, on_signal | systemd, the server |
| request handlers (`daemon/handlers/*`) | none of their own | auth, test, enroll_start/frame/finish, list, remove | pipeline, store, sessions |
| enrollment sessions (`daemon/enroll_session.*`) | open sessions with their embeddings | create, get, drop, reap | enroll handlers |
| enrollment store (`daemon/enrollment_store.*`) | per-uid cache, `mu_` | for_uid, save, remove, remove_all | the file system |
| enrollment files (`common/encoding.*`) | `.enc` and `.enc.tmp` files | save_enrollment, load_enrollment, pick_threshold | the store |
| models (`daemon/models.*`) | the loaded networks | detect (decode, nms), embed_aligned | pipeline |
| IPC (`common/ipc.*`, `common/peer_cred.*`) | none | length and payload over AF_UNIX, with socket timeouts; the peer's uid | PAM, CLI, server |
| wire messages (`proto/messages.hpp`) | none | to_json, from_json, parse_request | PAM, CLI, server |
| PAM module (`pam/pam_chowdy.c`) | one connection | one auth request, then fall back to the password | the auth socket |
| CLI (`cli/main.cpp`) | none | enroll, list, remove, test, auth-test | the mgmt and the auth socket |
| configuration (`common/config.*`) | none | load | main |
| logging, tools | - | output, experiments | - |

What is hard in this code:

* **Detached threads.** Each connection has a thread nobody joins; each auth connection
  has a prewarm thread, each request a release thread. They meet at `mu_` in any order.
* **Values read without the lock and used under it**: `use_gen_` at the accept, the time
  of last use in the watchdog, the mtime of a directory that others are changing.
* **Half-done bring-up**: any of a dozen ioctls of the camera can fail.
* **Files**: a save is several system calls; any can fail, and the process can die
  between two of them.
* **Shutdown**: a signal can come at any point of the life of the process; sleepers are
  notified without their mutex; main destroys objects that detached threads use.
* **Credentials outlive what made them**: models, settings and thresholds change between
  the enrollment of a face and its comparison.
* **Peers**: a client may stop at any byte, send anything, name any account, and be gone
  when the answer comes.

What makes each part correct: the LED is lit only for somebody and always goes dark; one
handler at a time uses the camera; every request ends; an enrollment file is always one
complete save; no removed credential is accepted and no saved one is missed; a signal
ends the process and touches only living objects; who is let in looks like the owner of the
credential, and whoever enrolled is recognised; credentials change only at the word of root,
for the account that was meant; and what a client is told is true.

## Modules

| Module | What it is |
|---|---|
| `Camera` | the camera as operators: what each operation leaves behind, error exits included |
| `Pipeline` | the threads around the camera; uses `Camera` |
| `EnrollmentStore` | the files of one user and the cache over them |
| `CredentialStore` | what the store promises, without files, cache, time stamps and lock; `EnrollmentStore` implements it |
| `Daemon` | main, signals, accept loops, sleepers, shutdown |
| `Enroll` | the enroll loop of the CLI, the enroll handlers, the sessions |
| `Auth` | a login: PAM module, answer on the socket, `handle_auth` |
| `Nms` | from the outputs of the detector to the faces of a frame |
| `Recognition` | enrollment, auth and test on what the camera shows, thresholds, settings, restarts; extends `Nms` |
| `Messages` | the wire messages and their conversions |
| `Requests` | clients, framing, parsing, permission checks, handlers, answers; extends `Messages` |
| `MCPipeline`, `MCEnrollmentStore`, `MCDaemon`, `MCEnroll`, `MCAuth`, `MCRecognition`, `MCRequests` | the instances for TLC: symmetry sets, scenes, frames and jobs; constants are in the `.cfg` files |
| `PipelineProofs`, `EnrollmentStoreProofs`, `StoreRefinementProofs`, `DaemonProofs`, `EnrollProofs`, `AuthProofs`, `RecognitionProofs`, `RequestsProofs` | theorems and their proofs |

Definitions whose name has a suffix after an underscore and the comment "Mutant of ..."
are wrong versions of the definition they precede. They are in no specification; each
shows that some property notices that mistake.

### Camera and Pipeline

The camera record keeps what later calls depend on: whether the fd is open, whether
none, some or all buffers are mapped, and whether the stream (and on UVC the LED) is on.
Operations that can throw return the set of their outcomes. The driver is external: for
the duration of a call it is ready or failing.

The policy is a variable that only a restart changes, when the daemon reads its
configuration again. In `Pipeline` a connection `c` stands for its three possible threads: the handler
(`pc[c]`), the prewarm (`prewarm[c]`, with the generation it captured in `gen0[c]`) and
the release (`release[c]`). The critical sections of prewarm, release and watchdog are
one step each, since they hold `mu_` throughout. The handler's is not: it takes one step
per frame, so that the clock, the device, the accept thread and the watchdog's unlocked
check can move in between. `Accept` reads `use_gen_` without the lock, as the accept
thread does. `auth` unlocks before it destroys its scope, `test` destroys its scope
first, `enroll_frame` has none; `Leave`, `Unlock` and `ScopeExit` keep these orders.

A capture from a buffer that was never mapped is a crash (`Segfault`); `Restart` is
systemd's `Restart=on-failure`, which forgets the accepted connections.

Time is the age of `last_use_ns_`, saturating at the watchdog window; the deadline of a request may
fire at any frame. What the detector and the embedder find in a frame is a free choice
between going on and returning, so everything shown holds whatever they find.

### EnrollmentStore

One uid is enough: the cache entry is per uid, and other uids enter in two ways. They share
`mu_`; and since `remove` does not look for a slash in its label, one for another uid can
unlink a file of this one, and then erases the other uid's cache entry (`RemoveAcross`,
`EraseOther`). Each system call is a step. A file is a header and a body, each tagged by its writer, so that a
fragment and a mixture of two saves can be told from a complete one. A saver holds an
open file, not a name: after a rename by another thread its writes go to the file under
the new name, after an unlink to a file without a name. A directory iteration meets
every entry that was there when it began and may or may not meet later ones. An entry
that is gone or cannot be statted sets the error code that ends the loop of `latest_mtime`.
for_uid takes a directory it cannot open for an empty one and a file it cannot open or read
for an unreadable one, and caches what is left (`Load`, `FillEmpty`). A remove_all without a
directory returns at once.

`Faults` and `SharedLabel` say which failures happen and whether two saves of one label
may overlap. A flush may be lost without anybody noticing, and the increment of a directory
iterator may throw (remove_all then leaves without dropping the cache). Nothing calls fsync:
`platter` holds the versions of a file that a power failure may bring back, which are all
since the last write-back of the kernel (`Writeback`), among them an empty file under the
name of a saved one and a file that was removed. `touched`, `stale`, `may`, `blind` and
`missing` are history variables for the properties.

### CredentialStore

The abstract store has a credential per label that changes in one step, and lookups that
take time. A lookup answers, for every label, with a content the label had while it ran, or
with one that a change replaced whose call had not returned when the lookup began: the file
system and the cache are not one atomic object, and this says by how much they are not.
Changes of a call that failed stay open until some later call drops the cache. Where reads
fail a lookup may overlook a credential (`Overlooks`), and it never finds one that is not
there. The end of the process alone changes no credential; a power failure brings every label
back with a content it has had since it was last persisted, or with none: changes may be
undone, and no credential is altered. The refinement mapping takes the loadable files to
`cred`, what the platter may hold to `durable`, the program counters to phases, what for_uid
returned to `answer`, and the history variables to `open`, `stale` and `may`.

### Daemon

`main` is a program counter over main(); `objects` are the objects alive on its stack. A
signal handler runs on top of one thread (`host`), which stands still while the handler is
between its load of `g_server` and the end of `stop()`; all other threads go on. The kernel
prefers the main thread for a process-directed signal. While main is in a handler, which
blocks the same signal there, the next one may come to any other thread (`Others`), or to
main when it is the other of the two signals. Threads of the inference library, which main
does not wait for either, are not in the model: what a handler on one of them could do, one
on a connection thread does. `stop()` is two steps, the
flag and the byte. The two sleeping threads (the systemd ping and the camera watchdog) are
the same loop and one set of actions. The flag and its notification are one step: a
sleeper that falls asleep between the two hears the notification, as one that was asleep
before does. The camera protocol of a connection is reduced to holding `mu_` or not; the
detail is in `Pipeline`.

### Enroll

A client is one run of `chowdy-cli enroll`: start, the prompt, one frame request after the
other until `done`, finish. It has at most one request under way, but gives up on it after
its receive timeout, and the handler goes on without it. The handler keeps the pointer of
`get()` (here the id) while it waits for the pipeline's mutex, captures or saves; `held`
counts how long. The embeddings of a session are a sequence of the clients they were captured for.
Expiry is in ticks of minutes, so a client that waits for an answer never sees one. A
restart empties the sessions and starts the counter again; `epoch` and `born` remember
which life of the daemon an id is from. What the properties exempt is an id that two clients
hold from different lives (`Collides`): each of them may be right about the limit and the
time to live of its own session, and together they exceed them. Whether a frame is good is a free choice, and so is whether a
save keeps its last bytes: the destructor of the stream writes them and reports nothing
(`Torn`). `-n 3` becomes ten frames, because handle_start replaces a maximum that does not
exceed the minimum. All clients enroll for one target user, since ids of different users
differ.

### Auth

A PAM call connects, writes, receives the length and then the payload, each with the whole
receive timeout and again after a signal, and turns the answer into a return code; the
prompt follows a match. The daemon reads the enrollments, waits for the mutex, captures
until its budget, which begins with the handler, is used up, and writes the answer in two
writes, also to a client that is gone. `valid` is the history of what could have matched
since the call began. The store is atomic here, a frame may match any enrollment that was
read, and the daemon may stop at any step or die.

### Nms and Recognition

A candidate of the detector is a score and a box; `Decoded` is every vector that decode and
the unstable sort can make of a frame, and `NmsStep` one turn of the outer loop. In
`Recognition` a candidate also has the face it shows and its sharpness, an embedding is a
face and the model that embedded it, and `Sim` is the table of similarities: symmetric, 100
on the diagonal, 0 for a face that embeds as the zero vector (`Blank`), otherwise arbitrary.
Everything is in whole per cent and pixels, so floating-point rounding is not modelled.
`load` and `Settings` turn a file with missing or mistyped keys and the options of main into
the settings; `Stop` and `Start` restart the daemon with other settings at any step.
`Begin`, `LitFrame`, `Suppressing`, `JudgeAuth`, `JudgeTest`, `JudgeEnroll` and `Deadline`
follow process_one_frame and the handlers from the first test to the answer; an exception
can come out of any frame. Requests come one at a time, as `mu_` makes them do for whatever
captures, and auth and test, which look at no session, do not come in the middle of an
enrollment (a bound). Distinct models are assumed to have distinct ids: `simple_model_id` is
a checksum of the size and the first 16 bytes, and two models that share it would be taken
for one.

### Messages and Requests

`Messages` has the fields of every message, which of them from_json insists on and what the
others default to. A JSON value is a kind and a value; numbers accept booleans, as the
library does, and a uid keeps its low bits (`% Width`). `json_bool` is the text scan of the
PAM module: the first place where the quoted key occurs, be it a key or a string value, in
the order in which the library writes the keys (`Precedes`).

In `Requests` a client is a run of the CLI, of the PAM module, or of a program of another
author with a frame of its own. It writes its frame unit by unit (one for the length, two
for the payload, so that each can be cut) and may stop at any of them. `read_exact` takes
what there is; `ReadFails` is the peer's close or the receive timeout, and ends the
connection without an answer, as do a payload that is not JSON, a request_id that is not a
string in a request that does not parse, and a directory whose listing fails half way
(`HandlerThrows`; one that cannot be opened throws nothing, and counts as empty). Each handler is one step, with its permission check, its early returns
and its effect on the store and the sessions: the steps inside are in the other modules. An
account is the enrollments on its disk and its `ghosts`, removed ones that its cache entry may
still have: a removal leaves them there when it fails half way or comes from another uid's
directory. for_uid answers with some of both (`Known`). `Reach` says where a label with
slashes leads from a uid's directory; `Named` are the files a remove names, and nothing in
the code keeps them within the account.
Which socket a request came in by makes no difference to any handler. Answers are small, so
a write never blocks; a write to a client that is gone fails and SIGPIPE is ignored. `Meant`
says which account a client is about without the code that conveys it, but by the same rules
for numbers and for SUDO_UID: that the rules are right is not shown.

## Properties and runs

| Run | Instance | Shows |
|---|---|---|
| `pipeline` | 2 connections, every kind of request, the three policies (a restart may change it), window 1 | `MutexHeld`, `StreamTimed`, `LitIsAttended`, `PrewarmNeverReopens`, `OnlyWatchdogCloses`, `LedGoesDark`, `EveryConnectionEnds` |
| `store` | 3 threads, 2 labels; every call fails that can, process death and power loss | `NeverMixed`, `CacheCoherent`, `ReadsAreExact`, `ImplementsCredentialStore` |
| `daemon` | 1 connection, 2 signals, failing poll, accept and thread creation | `StopFindsServer`, `JoinedBeforeDestroyed`, `StopEndsLoops`, `StopEndsProcess` |
| `enroll` | 2 clients, `-n 3` and `-n 4`, one restart, time to live of one tick | `PointerValid`, `FrameBound`, `FramesBelong`, `OkMeansSaved` |
| `auth` | 2 logins, 1 label, timeout 1, one signal, every option | `GrantIsEarned`, `LoginBounded`, `LoginEnds` |
| `recognition` | 2 labels, 2 models, 4 faces, 8 scenes, 2 files, 1 to 2 frames per enrollment | `FrontIsBest`, `NmsIsRight`, `GrantMeansLikeness`, `RefusalIsRight`, `EnrolledAreRecognised`, `WouldAuthSound` |
| `requests` | 2 clients, 3 accounts, 3 labels and 2 with slashes, 12 frames of other authors | `HandledIsSent`, `AnswersAreTrue`, `ChangesAreAuthorised`, `ConnectionsEnd` |

In each of the modules a passing run also checks the type invariant, `TypeOK`. In five runs
TLC refutes what a comment or the design says:

| Run | The text | What happens |
|---|---|---|
| `pipeline_late_prewarm` | pipeline.hpp:98, auth.cpp:54: no prewarm leaves the LED lit | the request returns early and its release finds nothing to close, so no generation is counted; the prewarm then opens |
| `store_shared_tmp` | encoding.hpp:59: atomically | two saves of one label truncate and rename one .tmp |
| `auth_deadline` | pam_chowdy.c:19: total deadline | each of the two receives has the whole timeout |
| `recognition_floor` | DESIGN.md:355: the absolute minimum | `similarity_floor` is read and not used; with a floor of 60, 40 is still enough |
| `requests_slash` | enrollment_store.hpp:42: labels for a uid | a remove for account 1 with the label `../2/door` unlinks account 2's enrollment |

The models also do the following, against or beyond what comments say, and no run of its own
asks about it. In the first six the code contradicts its own text:

* Bring-up: when an ioctl of `Camera::open` fails the fd stays open, so `is_open()` stays true
  and every later request only tries STREAMON, without buffers, until the daemon restarts;
  pipeline.cpp:40 says "will retry on first request". A capture from such a camera is what
  `Segfault` models.
* Session ids: the counter begins again after a restart, and a client that was at its prompt
  goes on with an id that the next one is given too; enroll_session.hpp:42 says "Allocate a
  fresh session id". The properties of `Enroll` exempt such ids or say what is left (`Collides`).
* Lost flush: the last bytes of a save are lost in the destructor of the stream, the fragment
  replaces the enrollment and the client is told that it is done; encoding.hpp:60 says "Throws
  std::runtime_error on I/O failure". `OkMeansSaved` counts such a file (`Torn`) as put.
* Failed reads: a file that could not be opened once is left out of the cached list until the
  next change of the directory; enrollment_store.hpp:32 says "Return every <label>.enc file".
  `CacheCoherent` and `ReadsAreExact` say that nothing else is ever left out. `CacheComplete`
  is the documented property; no run checks it, and *ReadsComplete* proves it for reads that
  do not fail.
* Second signal: while main is in the handler of one SIGTERM the next comes to another thread.
  If that is the camera watchdog or a connection thread, main may destroy the server before
  that handler has called stop(); server.hpp:41 says that it "can be called from a signal
  handler thread". `StopFindsServer` is about the threads that main joins first.
* Early signal: one that arrives before `g_server` is set is forgotten, and the daemon runs on;
  main.cpp:137 has the handlers first "so partial init can still be torn down". `StopEndsProcess`
  is about signals that found the server.
* The watchdog of idle_keep decides before it waits for `mu_` and may stop a stream just
  after its last frame.
* main destroys its objects while detached connection threads run.
* When a thread cannot be created after `g_server` is set, the unwinding destroys the server
  and leaves `g_server` set. `StopFindsServer` exempts this (`Unwinding`), so it does not
  catch a signal that comes then.
* The ping thread looks at nothing but its stop flag, so a pipeline wedged in the driver does
  not fail the systemd watchdog, although the comment at main.cpp:162 says it does.
* A remove_all whose directory iterator throws leaves the cache: what it removed may be
  accepted until some other call drops the cache.
* After a power failure a removed or replaced credential may be back: the abstract store says
  so (`durable`), and `NeverMixed` only that what is back is one complete save.
* A remove that reaches another account's file leaves that account's cache entry, and the
  removed credential may be accepted until something changes that directory.
* Two frames of one session can be under way at once only if two clients have its id from
  different lives of the daemon, which `FrameBound` exempts.
* A client that goes on with an id from an earlier life may be told `done` for the session of
  another: `OkMeansSaved` promises it a file under that session's label, not under its own.
* A handler that waits for the camera longer than a session lives is left with a pointer to
  nothing as soon as another request reaps it (`Dangling`), which `PointerValid` excepts.
* `would_auth` looks at the threshold of the most similar label only: it may be false when
  auth would match another label. `WouldAuthSound` is the direction that holds; the other one
  is no property here, and it is what the word suggests.
* The size hints of enrollment divide by 360 rows, whatever the configured height is.
* The text scan of the PAM module finds a matched label that is spelled `success` before the
  key: the daemon says yes, and the module falls back to the password. `AnswersAreTrue`
  allows the module to know nothing, never to grant or to deny by itself.
* A remove request without a uid is about root's enrollments, and a request that cannot be
  parsed and has a request_id that is no string gets no answer.

**Bounds.** Two connections are two handlers, two prewarms and two releases, six threads
that meet at `mu_` together with the watchdog; the proofs cover any number. `use_gen_`
needs no bound because each connection contributes at most one release and the watchdog
acts only on a lit stream. A
window of 1 separates "just used" from "idle". A restart that changes the policy leaves nothing
of the old one behind but the connections still in the listen queue. Three store threads are a
writer, a remover and a reader, or two readers of which one hits what the other has cached; two
clock values put changes in the same tick and in different ones; two labels make a file that is
not the newest. With one label and no power failures four threads were explored as well. The proofs cover any number.
Two signals meet any phase of main, also a shutdown that a failing poll began, and bring
one handler to each thread while main is in the other; one connection is enough to hold `mu_`,
to be wedged, to carry a handler and to be queued on either socket. The proofs cover any number.
In `recognition` the two pictures of the owner are unlike enough for the threshold to matter,
one of them is close to the other person's, and one face embeds as zero; there are scenes
with two equally confident people, with candidates that overlap in a chain, and with faces
too far, too close, blurred or in the dark; the models and the settings change in between.
In `requests` one client does anything there is, as root, as root through sudo or as a user
who has set SUDO_UID, while another removes everything; or two root clients list and enroll
side by side, or one finishes the session that the other has opened; or root removes by a
label with a slash, which leads to account 2 or nowhere, while that user logs in. One SUDO_UID is
greater than an unsigned long. Three accounts are root, the user meant and somebody else; the frames of other
authors are one for each way to be wrong.
Two clients and one restart let a stale client meet the next session at every
point of its life. Two logins contend for the mutex; with a timeout of one tick every recv
is either in time or late. Deadlock checking is on for the pipeline and for recognition: in the other
modules calls are made once and the process may end.

**Fairness.** Handlers, detached threads, accept loops, sleepers and main are scheduled
(weak fairness of each thread); socket timeouts and the loop condition of the capture
loops end every handler that is not wedged in the driver (weak fairness of `Deadline` and
of `Finish`); `wait_for` times out; the clock advances; systemd restarts a crashed
daemon. Nothing is assumed of clients, signals, the device or the order in which `mu_` is
granted: connections are finitely many, so a waiter is passed over finitely often.
For `ConnectionsEnd` the connection threads run, which with the socket timeouts is what ends
them; of the clients nothing is assumed. For `LoginEnds` nothing is assumed of the daemon either; the login process runs, the clock
advances and the user answers the prompt. `LedGoesDark` rests on the watchdog: with `lazy_safety_close_ms = 0` it fails, which is
what `pipeline_late_prewarm` shows; under `warm` nothing is meant to turn the LED off, and the
property is about the other two.

## Proofs

The theorems hold for every set of connections, threads, clients, labels and signals, all
policies, every window and timeout, for every set of faces, scenes, models and settings and every
table of similarities, and for any accounts and frames of other authors.

`PipelineProofs`. *MutualExclusion* and *StreamAlwaysTimed* are nearly inductive: they
need the type invariant and that a stream is on only when the fd is open (`CameraSane`).
*PrewarmSafe* needs the relation between the counter and the history (`GenGuard`): if the
stream was stopped since a connection was accepted, then its captured generation is
behind `use_gen_`. *NeverOrphaned* needs where a release can be outstanding (`ReleaseInv`):
a handler that is done has spawned its release, and once that has run the stream that its
connection turned on is off, unless the prewarm came later. *RequestsNeverClose* rests on
there being no release thread at all under the other policies.

`EnrollmentStoreProofs`. *SaveIsAtomic*: a saver owns its .tmp from open to rename and
nobody writes to a file under its final name (`Exclusive`), so the .tmp holds what its
saver has written so far (`TmpHeld`). *NothingMixed* adds what a power failure may bring back
(`PlatterHeld`): every version on the platter is a whole save, or cannot be loaded.
*CacheNeverStale* and *ReadsExact* are proved
together (`Coherence`): `mu_` is held exactly by a running for_uid; what a change has replaced
is remembered only while the change has not dropped the cache; what a for_uid has loaded, and
what is cached, is what the disk holds unless a change is outstanding or the file could not be
read; and every outstanding change is one the for_uid overlaps with. *ReadsComplete* says what
failing reads cost: without them nobody overlooks anything (`Sighted`),
and the cache is complete. Two saves of one label at once are excluded, as `store_shared_tmp` shows they must be;
*SaveIsAtomic* also excludes lost flushes and power failures.

`StoreRefinementProofs`. *StoreImplements* maps each step of the files and the cache to one
of `CredentialStore` or to none: opening the .tmp begins a change, the rename or the unlink
is the change (what is renamed is the saver's own enrollment or cannot be loaded, by
`TmpHeld`), dropping the cache settles it, filling or hitting the cache ends a lookup with an
allowed answer (by `Coherence`), a write-back persists a label, and a power failure brings
back what the platter holds.

`DaemonProofs`. *DaemonTypeCorrect* is more than types because of the self-pipe: a byte is
in it for each signal whose handler has come to its write, and one for the stop() of the
destructor, which runs once (`PipeInv`). *SignalSafe* and *ShutdownOrder* rest on one invariant that says what is
alive, published and joined at each point of main (`Phases`), and where a handler may stand:
a thread that is interrupted does not end, so main cannot get past its join (`Hosted`). That
is why the theorem is about handlers on main, the accept loops and the ping thread and about no
others: the server is destroyed before the camera watchdog is joined, and connection threads
are never joined. No failure is excluded, but
`StopFindsServer` exempts the unwinding of an exception (`Unwinding`): if a thread cannot be
created after `g_server` is set, the server is destroyed and `g_server` still points to it.

`AuthProofs`. *GrantsAreEarned*: while a login waits, the enrollments on disk, those its
handler has read and the label of its answer are all in its history (`Traced`), no handler
runs before the request or after the answer (`Served`), and so nothing changes a grant
(`Granted`). *LoginsBounded* and *AuthTypeCorrect* rest on the account of a login's time
(`TimeInv`): what it has waited for before is paid for by the receive it has left behind
(`Spent`) and by the signals so far, and `waited` is within one timeout.

`EnrollProofs`. One invariant (`EnrollInv`) carries all five theorems. Ids of one life of the
daemon are given out once and below the counter (`Asked`, `Unique`); the client that holds an
id in this life is the owner of the session under it (`Owned`); the session a handler points
to is no older than the time for which the handler has held the pointer (`Pointer`), so a reap within the time to live does not take it; a handler past the check of the limit has
room for its one embedding, because its client has no other request under way (`Room`); and a
client that was told `done` has a full session, and a handler that is about to answer its
finish has saved it, whole or without its end (`Done`). *OkAlwaysSaved* says more of clients
whose id is of this life of the daemon than of the others, as its property does. The attempt to prove `FrameBound` showed that
it has to exempt the id and not its owner: with three clients and two restarts two clients of
earlier lives can meet in a session of neither. TLC's instance of two clients is too small
for that.

`RequestsProofs`. The invariant (`RequestInv`) is about one client and its connection at a
time, plus the sessions. `Sending`: what a client writes, if it is a request for an account,
is for the account it means. `Reading`: the thread is not ahead of its client, and what it
handles is the parse of a frame that was sent whole. `Telling`: an answer has the request_id of
the request and was true when it was built, and what the client believes is that answer, or
what the scan of the PAM module makes of it. `Seeing`: the store of this moment is in the
history of every connection. `Opening`: every open session was opened by a root client for
the account it meant. Nothing is assumed of where a label with slashes leads (`Reach`), but that
it is one file. *HandledAlwaysSent* and *AnswersAlwaysTrue* are read off, the latter
because `seen` only grows; *ChangesAlwaysAuthorised* takes the two handlers that change the
store. Two facts about `Messages` do the work: a request that parses says, field by field, what
the JSON object says (`ParsedSays`), and the account it names is the number that was
written, cut to its width, or root when there was none (`ParsedUid`).

`RecognitionProofs`. *FrontAlwaysBest* and *NmsAlwaysRight* rest on a loop invariant of nms
(`NmsInv`): the vector is sorted; every position before the loop variable is kept or dropped;
kept boxes do not overlap; a dropped box overlaps a kept one that comes before it. For the
other three, what pick_threshold and the two maxima return is characterised once
(`ThresholdIs`, `LikenessIs`): the threshold is the floor or the least similarity of two
pictures less the margin, and so no greater than 95. `SessionInv` says that all embeddings
of a session are by the model that runs, since no session outlives the process, and
`StoredInv` that every file was made of such a session. *GrantsAreAlike* and
*EnrolledAlwaysRecognised* follow, and *WouldAuthAlwaysSound* because both handlers compare
the same similarities with the same thresholds. *RecognitionTypeCorrect* needs that the limit
on frames still holds between its check and the append (`Grown`). *RefusalsAreRight* is a loop
invariant of handle_auth (`Searching`): no face seen so far was alike, the counters tell
whether there was one, and best is the likeness of the best of them, or -100 when there was
none; a round that finds no face only adds to the counters, and one that finds a face either
ends the loop or keeps all of this (`Missed`). The answer is made from these at the deadline,
and nothing changes until it is out.

Every invariant, action property and refinement that a passing run checks is also proved,
with the type invariant of every module. Only model-checked: the liveness properties
`LedGoesDark`, `EveryConnectionEnds`, `StopEndsLoops`, `StopEndsProcess`, `LoginEnds` and
`ConnectionsEnd` (the prover does not do fairness), and the violation runs.

## Not modelled

Inference itself, the tensors it is fed and the arithmetic of pixels and floating point
(external or out of reach; `Recognition` takes their results as given), logging, secure
buffers and the bring-up tools. Configuration keys that no module depends on (fps, log level,
antispoof, which nothing reads, and the like). In the pipeline, `frames_since_open_` (frames
skipped after a start; `Recognition` takes such a frame for a dark one, which is what the
handlers do). In the daemon, what a thread does with a destroyed object (undefined). In the
store, changes other programs make in the directory. A client that does not read its answer:
answers are small, and writes do not block. Binding the sockets and the socket
activation of systemd. In `Requests`, integers other than the uid that exceed their type, and
the restart of the daemon, which is in `Enroll`, `Auth` and `Recognition`.

## Plan

1. The safety half of the liveness properties as theorems: for `LedGoesDark` and
   `StopEndsProcess`, that no thread is ever in a state from which only another thread that
   has ended could wake it.
2. Bounds on the time a connection thread can hold a session or the mutex, where the model
   has a clock.
