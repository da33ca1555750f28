------------------------------ MODULE Requests ------------------------------
(***************************************************************************)
(* A request from end to end: the command line client, the PAM module or   *)
(* any other program builds it, writes it as a length and a payload, and   *)
(* may stop at any byte; a connection thread of the daemon reads, parses,  *)
(* authorises and handles it and writes the answer to a client that may be *)
(* gone.                                                                   *)
(*                                                                         *)
(* A call of the store is one step here (CredentialStore), what the camera *)
(* sees is a free choice (Recognition), and a session is its account and   *)
(* label (Enroll).                                                         *)
(***************************************************************************)
EXTENDS Messages, FiniteSets

CONSTANTS
    Clients,    \* running programs that talk to the daemon
    Users,      \* who may run one: the real uid, and SUDO_UID of the environment
    Labels,     \* names an enrollment may have
    BadLabels,  \* names with a slash in them
    Reach,      \* the enrollment, if any, whose file such a name reaches from a uid's directory
    Sessions,   \* ids that the session manager hands out
    Foreign,    \* frames that programs of other authors send
    Jobs,       \* what the clients may be run for together, and by whom
    Enrolled,   \* the enrollments on disk when the daemon starts
    Prefix, Payload, \* lengths of a frame's prefix and of its payload
    Garbage,    \* a payload that is not JSON
    None, Gone

Empty == ""

\* What a request can have for a label.
Names == Labels \cup BadLabels \cup {Empty}

\* What a client can be run for: a command, a login, or a frame of another author.
Tasks ==
    [prog : {"cli"}, cmd : {"test", "auth-test", "list", "remove-all"}]
    \cup [prog : {"cli"}, cmd : {"enroll", "remove"}, label : Names]
    \cup [prog : {"pam"}, uid : Uids]
    \cup [prog : {"other"}, frame : Foreign]

ASSUME RequestsAssumption ==
    /\ \A u \in Users : u.uid \in Uids /\ u.sudo \in Int \cup {None}
    /\ Empty \notin Labels \cup BadLabels /\ Labels \cap BadLabels = {}
    /\ Jobs \subseteq [Clients -> [user : Users, task : Tasks]]
    /\ \A f \in Foreign :
          f.payload # Garbage =>
              \A k \in DOMAIN f.payload : LET v == f.payload[k] IN
                  /\ v = <<v[1], v[2]>>
                  /\ v[1] = "num" => v[2] \in Int
                  /\ v[1] = "bool" => v[2] \in BOOLEAN
                  /\ k = "label" /\ v[1] = "str" => v[2] \in Names
    /\ Enrolled \in [Uids -> SUBSET Labels]
    /\ Reach \in [Uids \X BadLabels -> SUBSET (Uids \X Labels)]
    /\ \A p \in Uids \X BadLabels : \A f, g \in Reach[p] : f = g
    /\ Prefix \in Nat \ {0} /\ Payload \in Nat \ {0}
    /\ None \notin Int /\ {None, Gone} \cap [uid : Uids, label : Labels, by : Clients] = {}

VARIABLES
    user,       \* who runs each client
    task,       \* what it is run for
    cli,        \* where it is
    frame,      \* the frame it writes
    sent,       \* units of it that are written
    srv,        \* where the daemon's thread for its connection is
    got,        \* units of the frame that thread has read
    handled,    \* history: the request that was dispatched
    resp,       \* the answer, as JSON
    back,       \* writes of the answer that are done: the length, the payload
    answer,     \* the verdict of the PAM module, or what the client has received
    creds,      \* the labels that each uid has on disk, and ghosts: removed ones that the
                \* cache may still hold
    sessions,   \* open enrollment sessions
    seen        \* history: creds since the connection was made

vars == <<user, task, cli, frame, sent, srv, got, handled, resp, back, answer, creds,
          sessions, seen>>

clientVars == <<user, task, cli, frame, sent, answer>>
serverVars == <<srv, got, handled, resp, back>>

Opened == [uid : Uids, label : Labels, by : Clients]

Account == [disk : SUBSET Labels, ghosts : SUBSET Labels]

TypeOK ==
    /\ user \in [Clients -> Users]
    /\ task \in [Clients -> Tasks]
    /\ cli \in [Clients -> {"idle", "write", "read", "done"}]
    /\ sent \in [Clients -> 0 .. Prefix + Payload]
    /\ srv \in [Clients -> {"none", "queued", "head", "body", "parse", "handle", "answer"}]
    /\ got \in [Clients -> 0 .. Prefix + Payload]
    /\ \A c \in Clients : got[c] <= sent[c]
    /\ back \in [Clients -> 0 .. 2]
    /\ creds \in [Uids -> Account]
    /\ sessions \in [Sessions -> Opened \cup {None, Gone}]

-----------------------------------------------------------------------------
(* Building a request. *)

\* strtoul and the cast to uid_t, which is half as wide: what does not fit is ULONG_MAX.
strtoul(n) == IF n < Width * Width /\ -n < Width * Width THEN n % Width ELSE Width - 1

\* target_uid: under sudo whoever invoked it; a SUDO_UID that is not a number (None) or
\* that an unprivileged user has set is ignored.
target_uid(u) == IF u.uid = 0 /\ u.sudo # None THEN strtoul(u.sudo) ELSE u.uid

GreaterOf(a, b) == IF a > b THEN a ELSE b

\* -n of cmd_enroll: its default.
N == 8

\* The first request of a task.  A request id is random: the client stands for it.
Request(c, t) ==
    CASE t.prog = "pam" ->
            [type |-> "auth", uid |-> t.uid, timeout_ms |-> 2000, request_id |-> c]
      [] t.prog = "cli" /\ t.cmd = "test" ->
            [type |-> "test", timeout_ms |-> 3000, request_id |-> c]
      [] t.prog = "cli" /\ t.cmd = "auth-test" ->
            [type |-> "auth", uid |-> user[c].uid, timeout_ms |-> 2000, request_id |-> c]
      [] t.prog = "cli" /\ t.cmd = "list" ->
            [type |-> "list", uid |-> target_uid(user[c]), request_id |-> c]
      [] t.prog = "cli" /\ t.cmd = "remove" ->
            [type |-> "remove", uid |-> target_uid(user[c]), label |-> t.label, request_id |-> c]
      [] t.prog = "cli" /\ t.cmd = "remove-all" ->
            [type |-> "remove", uid |-> target_uid(user[c]), label |-> Empty, request_id |-> c]
      [] t.prog = "cli" /\ t.cmd = "enroll" ->
            [type |-> "enroll_start", uid |-> target_uid(user[c]), label |-> t.label,
             min_frames |-> GreaterOf(3, N \div 2), max_frames |-> N, request_id |-> c]

Framed(r) == [len |-> "fits", payload |-> to_json(r)]

FirstFrame(c, t) == IF t.prog = "other" THEN t.frame ELSE Framed(Request(c, t))

\* main() of the CLI refuses a missing label before it connects.
Usage(t) == t.prog = "cli" /\ t.cmd \in {"enroll", "remove"} /\ t.label = Empty

\* A frame whose length is refused has no payload that anybody reads.
Length(f) == IF f.len = "fits" THEN Prefix + Payload ELSE Prefix

-----------------------------------------------------------------------------
(* The client. *)

Init ==
    /\ \E job \in Jobs :
          /\ user = [c \in Clients |-> job[c].user] /\ task = [c \in Clients |-> job[c].task]
    /\ cli = [c \in Clients |-> "idle"] /\ frame = [c \in Clients |-> None]
    /\ sent = [c \in Clients |-> 0]
    /\ srv = [c \in Clients |-> "none"] /\ got = [c \in Clients |-> 0]
    /\ handled = [c \in Clients |-> None] /\ resp = [c \in Clients |-> None]
    /\ back = [c \in Clients |-> 0] /\ answer = [c \in Clients |-> None]
    /\ creds = [u \in Uids |-> [disk |-> Enrolled[u], ghosts |-> {}]]
    /\ sessions = [i \in Sessions |-> None]
    /\ seen = [c \in Clients |-> {}]

\* connect_unix: the connection waits in the backlog.
Connect(c, f) ==
    /\ frame' = [frame EXCEPT ![c] = f]
    /\ cli' = [cli EXCEPT ![c] = "write"] /\ sent' = [sent EXCEPT ![c] = 0]
    /\ srv' = [srv EXCEPT ![c] = "queued"] /\ got' = [got EXCEPT ![c] = 0]
    /\ handled' = [handled EXCEPT ![c] = None] /\ resp' = [resp EXCEPT ![c] = None]
    /\ back' = [back EXCEPT ![c] = 0]
    /\ seen' = [seen EXCEPT ![c] = {creds}]

End(c, what) ==
    /\ cli' = [cli EXCEPT ![c] = "done"]
    /\ answer' = [answer EXCEPT ![c] = what]

Begin(c) ==
    /\ cli[c] = "idle"
    /\ \/ ~Usage(task[c]) /\ Connect(c, FirstFrame(c, task[c])) /\ UNCHANGED answer
       \/ Usage(task[c]) /\ End(c, None) /\ UNCHANGED <<frame, sent, serverVars, seen>>
    /\ UNCHANGED <<user, task, creds, sessions>>

\* write_message: one more unit is in the socket.
Write(c) ==
    /\ cli[c] = "write" /\ srv[c] # "none"
    /\ sent' = [sent EXCEPT ![c] = @ + 1]
    /\ cli' = [cli EXCEPT ![c] = IF sent'[c] = Length(frame[c]) THEN "read" ELSE @]
    /\ UNCHANGED <<user, task, frame, answer, serverVars, creds, sessions, seen>>

\* The connection fails or is closed by the daemon, a timeout passes, the program is
\* killed: whatever it is, its end of the connection is closed.
GiveUp(c) ==
    /\ cli[c] \in {"write", "read"}
    /\ End(c, None)
    /\ UNCHANGED <<user, task, frame, sent, serverVars, creds, sessions, seen>>

\* What cmd_enroll sends after an answer: a frame request until done, then finish.
NextRequest(c) ==
    LET r == from_json(resp[c], "enroll_progress")
    IN [type |-> IF r.done THEN "enroll_finish" ELSE "enroll_frame",
        session |-> r.session, request_id |-> c]

Enrolling(c) ==
    /\ task[c].prog = "cli" /\ task[c].cmd = "enroll"
    /\ resp[c]["type"] = Str("enroll_progress")

\* read_message, or read_all of the PAM module, has the whole answer.
Receive(c) ==
    /\ cli[c] = "read" /\ back[c] = 2
    /\ \/ Enrolling(c) /\ Connect(c, Framed(NextRequest(c))) /\ UNCHANGED answer
       \/ /\ ~Enrolling(c)
          /\ End(c, IF task[c].prog = "pam" THEN json_bool(resp[c], "success") ELSE resp[c])
          /\ UNCHANGED <<frame, sent, serverVars, seen>>
    /\ UNCHANGED <<user, task, creds, sessions>>

Client(c) == Begin(c) \/ Write(c) \/ GiveUp(c) \/ Receive(c)
-----------------------------------------------------------------------------
(* The daemon: accept_loop and handle_connection. *)

Goto(c, where) == srv' = [srv EXCEPT ![c] = where]

\* The handler has returned, or an error is all there is to say.
Answer(c, r) ==
    /\ resp' = [resp EXCEPT ![c] = to_json(r)]
    /\ Goto(c, "answer")

Error(id, reason) == [type |-> "error", request_id |-> id, reason |-> reason]

\* accept4, set_timeout and get_peer_cred, which may fail.
Accept(c) ==
    /\ srv[c] = "queued"
    /\ \/ Goto(c, "head") /\ UNCHANGED resp
       \/ Answer(c, Error(Empty, "internal_error"))
    /\ UNCHANGED <<got, handled, back, clientVars, creds, sessions, seen>>

\* Mutant of read_exact: what the first read returns is enough.
read_exact_Short(c, upto, whole) ==
    /\ sent[c] > got[c]
    /\ got' = [got EXCEPT ![c] = IF sent[c] < upto THEN sent[c] ELSE upto]
    /\ Goto(c, whole)

\* One read() of read_exact: what is there, but no more than was asked for.
read_exact(c, upto, whole) ==
    /\ sent[c] > got[c]
    /\ got' = [got EXCEPT ![c] = IF sent[c] < upto THEN sent[c] ELSE upto]
    /\ Goto(c, IF got'[c] = upto THEN whole ELSE srv[c])

\* read_message: the length, which must be neither zero nor too large; the payload.
ReadHead(c) ==
    /\ srv[c] = "head"
    /\ read_exact(c, Prefix, IF frame[c].len = "fits" THEN "body" ELSE "none")
    /\ UNCHANGED <<handled, resp, back, clientVars, creds, sessions, seen>>

ReadBody(c) ==
    /\ srv[c] = "body"
    /\ read_exact(c, Prefix + Payload, "parse")
    /\ UNCHANGED <<handled, resp, back, clientVars, creds, sessions, seen>>

\* Mutant of ReadFails: a timeout is retried like an interrupted call.
ReadFails_Retry(c) ==
    /\ srv[c] \in {"head", "body"} /\ sent[c] = got[c] /\ cli[c] = "done"
    /\ Goto(c, "none")
    /\ UNCHANGED <<got, handled, resp, back, clientVars, creds, sessions, seen>>

\* There is nothing to read: the client has closed its end, or SO_RCVTIMEO passes.  The
\* connection is closed without an answer.
ReadFails(c) ==
    /\ srv[c] \in {"head", "body"} /\ sent[c] = got[c]
    /\ Goto(c, "none")
    /\ UNCHANGED <<got, handled, resp, back, clientVars, creds, sessions, seen>>

\* json::parse and parse_request.  Not JSON: no answer.  Not a request: an error with the
\* request id, and if that is not a string, an exception nobody answers.
Parse(c) ==
    /\ srv[c] = "parse"
    /\ LET j == frame[c].payload
           id == IF "request_id" \in DOMAIN j THEN j["request_id"] ELSE Str(Empty)
       IN \/ /\ j # Garbage /\ Parses(j)
             /\ handled' = [handled EXCEPT ![c] = parse_request(j)]
             /\ Goto(c, "handle") /\ UNCHANGED resp
          \/ /\ j # Garbage /\ ~Parses(j) /\ id[1] = "str"
             /\ Answer(c, Error(id[2], "internal_error")) /\ UNCHANGED handled
          \/ /\ IF j = Garbage THEN TRUE ELSE ~Parses(j) /\ id[1] # "str"
             /\ Goto(c, "none") /\ UNCHANGED <<handled, resp>>
    /\ UNCHANGED <<got, back, clientVars, creds, sessions, seen>>

\* write_message: the length, then the payload.  The write to a client that is gone
\* fails, and SIGPIPE is ignored.
WriteBack(c) ==
    /\ srv[c] = "answer"
    /\ IF cli[c] = "done" THEN Goto(c, "none") /\ UNCHANGED back
       ELSE /\ back' = [back EXCEPT ![c] = @ + 1]
            /\ Goto(c, IF back'[c] = 2 THEN "none" ELSE "answer")
    /\ UNCHANGED <<got, handled, resp, clientVars, creds, sessions, seen>>

-----------------------------------------------------------------------------
(* The handlers.  Whether a request came in over the auth or the mgmt socket makes no
   difference to any of them. *)

Peer(c) == user[c].uid

\* cs is on disk and ss open.
Leave(cs, ss) ==
    /\ creds' = cs /\ sessions' = ss
    /\ seen' = [d \in Clients |-> IF srv[d] = "none" THEN seen[d] ELSE seen[d] \cup {cs}]

\* A handler answers with r.
Handle(c, r, cs, ss) ==
    /\ Answer(c, r)
    /\ Leave(cs, ss)
    /\ UNCHANGED <<got, handled, back, clientVars>>

Handling(c, type) == srv[c] = "handle" /\ handled[c].type = type

Id(c) == handled[c].request_id

\* Root may ask for anybody, everybody for himself.
authorise(c) == Peer(c) = 0 \/ Peer(c) = handled[c].uid

AuthResult(c, ok, reason, label) ==
    [type |-> "auth_result", request_id |-> Id(c), success |-> ok, reason |-> reason,
     matched_label |-> label]

\* for_uid answers with some of these: it leaves out what it cannot read.
Known(a) == a.disk \cup a.ghosts

\* Not allowed, not enrolled; or the camera decides.
handle_auth(c) ==
    /\ Handling(c, "auth")
    /\ \/ \E l \in Known(creds[handled[c].uid]) :
             authorise(c) /\ Handle(c, AuthResult(c, TRUE, "matched", l), creds, sessions)
       \/ Handle(c, AuthResult(c, FALSE, IF authorise(c) THEN "no_face" ELSE "peer_denied", Empty),
                 creds, sessions)

\* The best match is among the peer's own enrollments.
handle_test(c) ==
    /\ Handling(c, "test")
    /\ \E l \in Known(creds[Peer(c)]) \cup {Empty}, would \in BOOLEAN :
          /\ would => l # Empty
          /\ Handle(c, [type |-> "test_result", request_id |-> Id(c), best_match |-> l,
                        would_auth |-> would, reason |-> "ok"], creds, sessions)

enroll_authorised(c) == Peer(c) = 0

Denied(c) == Handle(c, Error(Id(c), "peer_denied"), creds, sessions)

Progress(c, i, done) ==
    [type |-> "enroll_progress", request_id |-> Id(c), session |-> i, done |-> done]

\* create() counts, so an id is handed out once.
Fresh == CHOOSE i \in Sessions : sessions[i] = None

\* Mutant of InvalidLabel: slashes are not looked for.
InvalidLabel_Empty(l) == l = Empty

InvalidLabel(l) == l = Empty \/ l \in BadLabels

handle_start(c) ==
    /\ Handling(c, "enroll_start")
    /\ \/ ~enroll_authorised(c) /\ Denied(c)
       \/ /\ enroll_authorised(c) /\ InvalidLabel(handled[c].label)
          /\ Handle(c, Error(Id(c), "internal_error"), creds, sessions)
       \/ /\ enroll_authorised(c) /\ ~InvalidLabel(handled[c].label)
          /\ \E i \in Sessions : sessions[i] = None
          /\ Handle(c, Progress(c, Fresh, FALSE), creds,
                    [sessions EXCEPT ![Fresh] = [uid |-> handled[c].uid,
                                                 label |-> handled[c].label, by |-> c]])

\* get(): the id names a session that is still open.
Found(c) == handled[c].session \in Sessions /\ sessions[handled[c].session] \notin {None, Gone}

handle_frame(c) ==
    /\ Handling(c, "enroll_frame")
    /\ \/ ~(enroll_authorised(c) /\ Found(c)) /\ Denied(c)
       \/ /\ enroll_authorised(c) /\ Found(c)
          /\ \E done \in BOOLEAN : Handle(c, Progress(c, handled[c].session, done), creds, sessions)

\* Too few frames, a save that throws, or the enrollment is saved for the account the
\* session was opened for, its cache entry erased and the session dropped.
handle_finish(c) ==
    LET i == handled[c].session
    IN /\ Handling(c, "enroll_finish")
       /\ \/ ~(enroll_authorised(c) /\ Found(c)) /\ Denied(c)
          \/ /\ enroll_authorised(c) /\ Found(c)
             /\ \E reason \in {"low_confidence", "internal_error"} :
                   Handle(c, Error(Id(c), reason), creds, sessions)
          \/ /\ enroll_authorised(c) /\ Found(c)
             /\ Handle(c, [type |-> "enroll_done", request_id |-> Id(c), label |-> sessions[i].label],
                       [creds EXCEPT ![sessions[i].uid] =
                           [disk |-> @.disk \cup {sessions[i].label}, ghosts |-> {}]],
                       [sessions EXCEPT ![i] = Gone])

\* Mutant of handle_list: the uid of the request is taken for granted.
handle_list_Named(c) ==
    /\ Handling(c, "list")
    /\ \E some \in SUBSET Known(creds[handled[c].uid]) :
          Handle(c, [type |-> "list_result", request_id |-> Id(c), enrollments |-> some],
                 creds, sessions)

\* Root sees the account it names, everybody else his own.
handle_list(c) ==
    LET target == IF Peer(c) = 0 /\ handled[c].uid # 0 THEN handled[c].uid ELSE Peer(c)
    IN /\ Handling(c, "list")
       /\ \E some \in SUBSET Known(creds[target]) :
             Handle(c, [type |-> "list_result", request_id |-> Id(c), enrollments |-> some],
                    creds, sessions)

\* The enrollments that a remove for uid u names: all of u's, or the one whose file the
\* path <u>/<label>.enc leads to.  Nobody looks for a slash in the label.
Named(u, label) ==
    IF label = Empty THEN {u} \X Labels
    ELSE IF label \in BadLabels THEN Reach[<<u, label>>] ELSE {<<u, label>>}

\* Any of the named files: those that there are, and that the system call unlinks.
Unlinked(u, label) == SUBSET { f \in Named(u, label) : f[2] \in creds[f[1]].disk }

\* The files are unlinked and the cache entries of the uids in erased dropped.
Without(gone, erased) ==
    [u \in Uids |->
        LET went == { l \in Labels : <<u, l>> \in gone }
        IN [disk |-> creds[u].disk \ went,
            ghosts |-> IF u \in erased THEN {} ELSE creds[u].ghosts \cup went]]

RemoveResult(c, ok) == [type |-> "remove_result", request_id |-> Id(c), ok |-> ok]

\* Mutant of handle_remove: everybody may remove his own.
handle_remove_Own(c) ==
    /\ Handling(c, "remove")
    /\ \/ ~authorise(c) /\ Denied(c)
       \/ /\ authorise(c)
          /\ Handle(c, RemoveResult(c, TRUE),
                    Without({handled[c].uid} \X Labels, {handled[c].uid}), sessions)

\* ok says whether a file was unlinked.  The cache entry of the request's uid is erased,
\* unless remove_all finds no directory.
handle_remove(c) ==
    LET uid == handled[c].uid
    IN /\ Handling(c, "remove")
       /\ \/ Peer(c) # 0 /\ Denied(c)
          \/ /\ Peer(c) = 0
             /\ \E gone \in Unlinked(uid, handled[c].label), erased \in SUBSET {uid} :
                   /\ erased = {} => handled[c].label = Empty /\ gone = {}
                   /\ Handle(c, RemoveResult(c, gone # {}), Without(gone, erased), sessions)

\* Listing the directory fails half way: the iterator of for_uid or of remove_all throws,
\* which nobody answers, and remove_all has unlinked some of the files by then and erases
\* no cache entry.
HandlerThrows(c) ==
    /\ srv[c] = "handle" /\ Goto(c, "none")
    /\ \/ /\ handled[c].type \in {"test", "list"} \/ (handled[c].type = "auth" /\ authorise(c))
          /\ Leave(creds, sessions)
       \/ /\ handled[c].type = "remove" /\ handled[c].label = Empty /\ Peer(c) = 0
          /\ \E gone \in Unlinked(handled[c].uid, Empty) : Leave(Without(gone, {}), sessions)
    /\ UNCHANGED <<got, handled, resp, back, clientVars>>

Dispatch(c) ==
    \/ handle_auth(c) \/ handle_test(c)
    \/ handle_start(c) \/ handle_frame(c) \/ handle_finish(c)
    \/ handle_list(c) \/ handle_remove(c) \/ HandlerThrows(c)

Server(c) ==
    \/ Accept(c) \/ ReadHead(c) \/ ReadBody(c) \/ ReadFails(c) \/ Parse(c)
    \/ Dispatch(c) \/ WriteBack(c)

\* reap_expired_locked: a session that nobody has touched for long.
Reap(i) ==
    /\ sessions[i] \notin {None, Gone}
    /\ sessions' = [sessions EXCEPT ![i] = Gone]
    /\ UNCHANGED <<clientVars, serverVars, creds, seen>>

Next == (\E c \in Clients : Client(c) \/ Server(c)) \/ \E i \in Sessions : Reap(i)

Spec == Init /\ [][Next]_vars

(* Fairness: the connection threads run.  Of the clients nothing is assumed. *)
FairSpec == Spec /\ \A c \in Clients : WF_vars(Server(c))

-----------------------------------------------------------------------------
(* What a client means, said without the code that conveys it. *)

\* The account a task is about: the user who logs in, the one who runs auth-test, the
\* one who invoked sudo, or else the one who runs the command; for a program of another
\* author the uid it wrote, as far as the daemon's integers hold it, or else root.
Meant(c) ==
    CASE task[c].prog = "pam" -> task[c].uid
      [] task[c].prog = "other" ->
            LET j == task[c].frame.payload
            IN IF "uid" \in DOMAIN j THEN Integer("uid", j["uid"]) ELSE 0
      [] task[c].prog = "cli" ->
            IF task[c].cmd # "auth-test" /\ user[c].uid = 0 /\ user[c].sudo # None
            THEN strtoul(user[c].sudo) ELSE user[c].uid

\* The JSON value of a field means x; numbers may be given as booleans.
Says(v, f, x) == v = <<Kind[f], x>> \/ (Kind[f] = "num" /\ v = Bool(x = 1) /\ x \in {0, 1})

\* A request is dispatched only when the client has written all of its frame, and it is
\* what the client built, every field of it: a client that dies in the middle of a frame,
\* a frame cut in two by the socket, or a payload that is not a request has no effect.
HandledIsSent ==
    \A c \in Clients :
        handled[c] # None =>
            /\ sent[c] = Prefix + Payload
            /\ frame[c].payload # Garbage
            /\ \A f \in DOMAIN handled[c] \ {"uid"} :
                   f \in DOMAIN frame[c].payload => Says(frame[c].payload[f], f, handled[c][f])
            /\ "uid" \in DOMAIN handled[c] => handled[c].uid = Meant(c)

\* Enrollments change only by a request of a root peer that was dispatched whole.  A
\* removal takes away nothing but what it names: with a good label that one enrollment,
\* with none any of the account that peer meant (the user who invoked sudo, not root and
\* not the next client's user), and with a slash in the label whatever the path leads to.
\* A session is finished for the account, and under the label, that the root client that
\* opened it meant, whoever finishes it.
ChangesAreAuthorised ==
    [][\A u \in Uids : creds'[u].disk # creds[u].disk =>
          \E c \in Clients :
             /\ srv[c] = "handle" /\ srv'[c] # "handle" /\ user[c].uid = 0
             /\ \/ /\ handled[c].type = "remove" /\ creds'[u].disk \subseteq creds[u].disk
                   /\ \A l \in creds[u].disk \ creds'[u].disk :
                         <<u, l>> \in Named(Meant(c), handled[c].label)
                \/ /\ handled[c].type = "enroll_finish"
                   /\ LET s == sessions[handled[c].session]
                      IN /\ user[s.by].uid = 0 /\ Meant(s.by) = u
                         /\ creds'[u].disk = creds[u].disk \cup {s.label}
      ]_vars

\* enrollment_store.hpp:42 has remove "Remove a single label or all labels for a uid": a
\* removal changes no account but the one its client meant.  save and handle_start refuse
\* a label with a slash, remove does not, and from root it unlinks another account's file.
RemovesOwn ==
    [][\A c \in Clients, u \in Uids :
          /\ srv[c] = "handle" /\ srv'[c] # "handle" /\ handled[c].type = "remove"
          /\ creds'[u].disk # creds[u].disk
          => u = Meant(c)]_vars

\* The account whose enrollments a client may be told about.
Entitled(c, u) == user[c].uid = 0 \/ user[c].uid = u

\* What a client is told is the answer to its own request, and true of an account it may
\* ask about at some time since it connected: a list has nothing but that account's
\* enrollments (it may lack one that could not be read), a removal that is reported has
\* taken away an enrollment it names, a login is granted by the PAM module only for an
\* enrollment of the user who logs in, and refused only by the daemon's word.  An
\* enrollment counts while it is on disk, and after that as long as the removal that took
\* it has left its cache entry: one that failed half way, or named it by a path from
\* another uid's directory.
AnswersAreTrue ==
    \A c \in Clients :
        cli[c] = "done" /\ answer[c] # None =>
            IF task[c].prog = "pam"
            THEN /\ answer[c] >= 0 => resp[c]["success"] = Bool(answer[c] = 1)
                 /\ answer[c] = 1 => /\ Entitled(c, task[c].uid)
                                     /\ \E cs \in seen[c] :
                                           resp[c]["matched_label"][2] \in Known(cs[task[c].uid])
            ELSE /\ handled[c] # None => answer[c]["request_id"] = Str(handled[c].request_id)
                 /\ answer[c]["type"][2] = "list_result" =>
                        \E cs \in seen[c], u \in Uids :
                            Entitled(c, u) /\ answer[c]["enrollments"][2] \subseteq Known(cs[u])
                            /\ (task[c].prog = "cli" => u = Meant(c))
                 /\ answer[c]["type"][2] = "remove_result" /\ answer[c]["ok"][2] =>
                        \E before, after \in seen[c] :
                            \E f \in Named(Meant(c), handled[c].label) :
                                f[2] \in before[f[1]].disk \ after[f[1]].disk

\* The thread of every connection ends, whatever its client does: one that connects and
\* writes nothing, stops in the middle of a frame or never reads its answer holds it no
\* longer than a timeout.
ConnectionsEnd == \A c \in Clients : srv[c] = "queued" ~> srv[c] = "none"
=============================================================================
