-------------------------------- MODULE Auth --------------------------------
(***************************************************************************)
(* One authentication from end to end: pam_sm_authenticate in the process  *)
(* that logs a user in, the framed answer on the socket, and handle_auth   *)
(* in the daemon, while credentials are saved and removed, logins wait for *)
(* each other's camera, the daemon is slow or wedged, and it may die.      *)
(*                                                                         *)
(* All logins are for one user.  The store is atomic here (EnrollmentStore *)
(* has its steps), and what a frame shows is a free choice.                *)
(***************************************************************************)
EXTENDS Integers, FiniteSets

CONSTANTS
    Logins,     \* calls of pam_sm_authenticate
    Labels,     \* the user's possible enrollments
    Timeout,    \* timeout_ms, in ticks
    MaxSignals, \* how often signals interrupt a recv
    NoOne

ASSUME AuthAssumption ==
    /\ Timeout \in Nat \ {0} /\ MaxSignals \in Nat
    /\ NoOne \notin Logins
    /\ {"none", "error", "no"} \cap Labels = {}

VARIABLES
    pam,        \* where each PAM call is
    opts,       \* require_enter and allow_no_conv of the PAM line
    result,     \* what it has returned
    waited,     \* ticks since its current recv began
    spent,      \* ticks since do_auth began
    signals,    \* interrupted recvs so far
    entered,    \* TRUE when the user has pressed Enter
    handler,    \* where the daemon's handler of it is
    since,      \* ticks since t0 of handle_auth
    copy,       \* the enrollments handle_auth has read and filtered
    mu,         \* holder of Pipeline::mu_
    reply,      \* the answer: "none", "error", "no" or the label that matched
    wire,       \* how much of the answer is in the socket
    enrolled,   \* each label: not there, or made with this or another embedder
    valid       \* history: labels that could have matched since the call began

vars == <<pam, opts, result, waited, spent, signals, entered, handler, since, copy, mu, reply, wire,
          enrolled, valid>>

pamVars == <<pam, opts, result, waited, spent, signals, entered>>
daemonVars == <<handler, since, copy, mu, reply, wire>>
storeVars == <<enrolled, valid>>

\* spent is counted up to here: one tick more than a login may take.
LongestSpent == (2 + MaxSignals) * Timeout + 1

Options == [require_enter : BOOLEAN, allow_no_conv : BOOLEAN]

\* Besides the types: whoever captures holds the pipeline's mutex.
TypeOK ==
    /\ pam \in [Logins -> {"idle", "header", "body", "prompt", "returned"}]
    /\ opts \in Options
    /\ result \in [Logins -> {"none", "success", "auth_err", "unavail", "user_unknown"}]
    /\ waited \in [Logins -> 0 .. Timeout]
    /\ spent \in [Logins -> 0 .. LongestSpent]
    /\ signals \in 0 .. MaxSignals
    /\ entered \in [Logins -> BOOLEAN]
    /\ handler \in [Logins -> {"none", "queued", "wait_mu", "loop", "answer"}]
    /\ since \in [Logins -> 0 .. Timeout]
    /\ copy \in [Logins -> SUBSET Labels]
    /\ mu \in Logins \cup {NoOne}
    /\ reply \in [Logins -> Labels \cup {"none", "error", "no"}]
    /\ wire \in [Logins -> {"empty", "header", "full", "closed"}]
    /\ enrolled \in [Labels -> {"absent", "this", "other"}]
    /\ valid \in [Logins -> SUBSET Labels]
    /\ \A c \in Logins : handler[c] = "loop" <=> mu = c

-----------------------------------------------------------------------------
\* The enrollments this embedder can compare with.
Usable == { l \in Labels : enrolled[l] = "this" }

Init ==
    /\ pam = [c \in Logins |-> "idle"] /\ opts \in Options
    /\ result = [c \in Logins |-> "none"]
    /\ waited = [c \in Logins |-> 0] /\ spent = [c \in Logins |-> 0]
    /\ signals = 0 /\ entered = [c \in Logins |-> FALSE]
    /\ handler = [c \in Logins |-> "none"] /\ since = [c \in Logins |-> 0]
    /\ copy = [c \in Logins |-> {}] /\ mu = NoOne
    /\ reply = [c \in Logins |-> "none"] /\ wire = [c \in Logins |-> "empty"]
    /\ enrolled \in [Labels -> {"absent", "this", "other"}]
    /\ valid = [c \in Logins |-> {}]

-----------------------------------------------------------------------------
(* The PAM module. *)

Return(c, code) ==
    /\ pam' = [pam EXCEPT ![c] = "returned"]
    /\ result' = [result EXCEPT ![c] = code]

\* do_auth is over.
AuthDone(c) ==
    /\ waited' = [waited EXCEPT ![c] = 0]
    /\ spent' = [spent EXCEPT ![c] = 0]

\* do_auth: connect and write the request, which waits in the socket for the daemon.
Connect(c) ==
    /\ pam[c] = "idle"
    /\ pam' = [pam EXCEPT ![c] = "header"]
    /\ handler' = [handler EXCEPT ![c] = "queued"]
    /\ valid' = [valid EXCEPT ![c] = Usable]
    /\ UNCHANGED <<opts, result, waited, spent, signals, entered, since, copy, mu, reply, wire, enrolled>>

\* There is no such user; or nobody listens, the backlog is full, the write fails.  (A
\* non-blocking connect on AF_UNIX never returns EINPROGRESS: the poll is not reached.)
ConnectFails(c) ==
    /\ pam[c] = "idle"
    /\ \E code \in {"user_unknown", "unavail"} : Return(c, code)
    /\ UNCHANGED <<opts, waited, spent, signals, entered, daemonVars, storeVars>>

\* read_all of the four bytes of the length.
RecvHeader(c) ==
    /\ pam[c] = "header" /\ wire[c] \in {"header", "full"}
    /\ pam' = [pam EXCEPT ![c] = "body"]
    /\ waited' = [waited EXCEPT ![c] = 0]
    /\ UNCHANGED <<opts, result, spent, signals, entered, daemonVars, storeVars>>

\* read_all of the answer, and what pam_sm_authenticate makes of its "success": true,
\* false, or not there, as in an error response.
RecvBody(c) ==
    /\ pam[c] = "body" /\ wire[c] = "full"
    /\ \/ reply[c] \in Labels /\ opts.require_enter
          /\ pam' = [pam EXCEPT ![c] = "prompt"] /\ UNCHANGED result
       \/ reply[c] \in Labels /\ ~opts.require_enter /\ Return(c, "success")
       \/ reply[c] = "no" /\ Return(c, "auth_err")
       \/ reply[c] = "error" /\ Return(c, "unavail")
    /\ AuthDone(c)
    /\ UNCHANGED <<opts, signals, entered, daemonVars, storeVars>>

\* Mutant of RecvFails: SO_RCVTIMEO was not set.
RecvFails_NoTimeout(c) ==
    /\ pam[c] \in {"header", "body"}
    /\ wire[c] = "closed"
    /\ Return(c, "unavail")
    /\ AuthDone(c)
    /\ UNCHANGED <<opts, signals, entered, daemonVars, storeVars>>

\* recv fails: SO_RCVTIMEO has passed, or the daemon has closed the connection.
RecvFails(c) ==
    /\ pam[c] \in {"header", "body"}
    /\ waited[c] = Timeout \/ wire[c] = "closed"
    /\ Return(c, "unavail")
    /\ AuthDone(c)
    /\ UNCHANGED <<opts, signals, entered, daemonVars, storeVars>>

\* Mutant of Interrupt: a recv that timed out is also taken up again.
Interrupt_Timeout(c) ==
    /\ pam[c] \in {"header", "body"}
    /\ waited[c] = Timeout
    /\ waited' = [waited EXCEPT ![c] = 0]
    /\ UNCHANGED <<pam, opts, result, spent, signals, entered, daemonVars, storeVars>>

\* EINTR: recv is called again, with the whole of SO_RCVTIMEO before it.
Interrupt(c) ==
    /\ pam[c] \in {"header", "body"} /\ signals < MaxSignals
    /\ signals' = signals + 1
    /\ waited' = [waited EXCEPT ![c] = 0]
    /\ UNCHANGED <<pam, opts, result, spent, entered, daemonVars, storeVars>>

\* prompt_enter: the user presses Enter; there is no conversation; it fails.
Prompt(c) ==
    /\ pam[c] = "prompt"
    /\ \/ entered' = [entered EXCEPT ![c] = TRUE] /\ Return(c, "success")
       \/ Return(c, IF opts.allow_no_conv THEN "success" ELSE "unavail")
          /\ UNCHANGED entered
       \/ Return(c, "unavail") /\ UNCHANGED entered
    /\ UNCHANGED <<opts, waited, spent, signals, daemonVars, storeVars>>

-----------------------------------------------------------------------------
(* handle_auth.  The daemon serves a request also when nobody waits for it any more. *)

Goto(c, where) == handler' = [handler EXCEPT ![c] = where]

\* The handler returns and its locals are gone.
Reply(c, what) ==
    /\ Goto(c, "answer")
    /\ reply' = [reply EXCEPT ![c] = what]
    /\ since' = [since EXCEPT ![c] = 0]
    /\ copy' = [copy EXCEPT ![c] = {}]

\* Mutant of Lookup: enrollments of another embedder are not filtered out.
Lookup_NoFilter(c) ==
    /\ handler[c] = "queued"
    /\ LET mine == { l \in Labels : enrolled[l] # "absent" }
       IN \/ mine = {} /\ Reply(c, "no")
          \/ /\ mine # {} /\ Goto(c, "wait_mu")
             /\ copy' = [copy EXCEPT ![c] = mine]
             /\ UNCHANGED <<since, reply>>
    /\ UNCHANGED <<mu, wire, pamVars, storeVars>>

\* t0, for_uid and the embedder filter; nothing left is a refusal.
Lookup(c) ==
    /\ handler[c] = "queued"
    /\ \/ Usable = {} /\ Reply(c, "no")
       \/ /\ Usable # {} /\ Goto(c, "wait_mu")
          /\ copy' = [copy EXCEPT ![c] = Usable]
          /\ UNCHANGED <<since, reply>>
    /\ UNCHANGED <<mu, wire, pamVars, storeVars>>

\* The peer may not ask for this user (a refusal), or its request cannot be served (an
\* error).
Refuse(c) ==
    /\ handler[c] = "queued"
    /\ \E what \in {"no", "error"} : Reply(c, what)
    /\ UNCHANGED <<mu, wire, pamVars, storeVars>>

\* Mutant of Lock: the lock_guard of handle_auth is missing.
Lock_Unguarded(c) ==
    /\ handler[c] = "wait_mu"
    /\ Goto(c, "loop")
    /\ UNCHANGED <<since, copy, mu, reply, wire, pamVars, storeVars>>

Lock(c) ==
    /\ handler[c] = "wait_mu" /\ mu = NoOne
    /\ mu' = c
    /\ Goto(c, "loop")
    /\ UNCHANGED <<since, copy, reply, wire, pamVars, storeVars>>

\* A frame while the budget lasts: it matches an enrollment, or the camera fails.  (A
\* frame that decides nothing changes nothing.)
Frame(c) ==
    /\ handler[c] = "loop" /\ since[c] < Timeout
    /\ mu' = NoOne
    /\ \/ \E l \in copy[c] : Reply(c, l)
       \/ Reply(c, "no")
    /\ UNCHANGED <<wire, pamVars, storeVars>>

\* The budget is used up: low_confidence, no_face or timeout.
LoopEnds(c) ==
    /\ handler[c] = "loop" /\ since[c] = Timeout
    /\ mu' = NoOne
    /\ Reply(c, "no")
    /\ UNCHANGED <<wire, pamVars, storeVars>>

\* write_message: first the length, then the payload, to a client that may be gone.
Write(c) ==
    /\ handler[c] = "answer"
    /\ \/ wire[c] = "empty" /\ wire' = [wire EXCEPT ![c] = "header"] /\ UNCHANGED handler
       \/ wire[c] = "header" /\ wire' = [wire EXCEPT ![c] = "full"] /\ Goto(c, "none")
       \/ pam[c] = "returned" /\ Goto(c, "none") /\ UNCHANGED wire
    /\ UNCHANGED <<since, copy, mu, reply, pamVars, storeVars>>

Handler(c) == Lookup(c) \/ Refuse(c) \/ Lock(c) \/ Frame(c) \/ LoopEnds(c) \/ Write(c)

\* The daemon dies.  What it has written stays readable, the rest is closed.
Crash ==
    /\ \E c \in Logins : handler[c] # "none"
    /\ handler' = [c \in Logins |-> "none"] /\ mu' = NoOne
    /\ wire' = [c \in Logins |-> IF handler[c] = "none" THEN wire[c] ELSE "closed"]
    /\ since' = [c \in Logins |-> 0] /\ copy' = [c \in Logins |-> {}]
    /\ UNCHANGED <<reply, pamVars, storeVars>>

-----------------------------------------------------------------------------
(* External: an enrollment is saved or removed, as handle_finish and handle_remove do. *)
Change(l) ==
    /\ \E to \in {"this", "absent"} : enrolled' = [enrolled EXCEPT ![l] = to]
    /\ valid' = [c \in Logins |-> IF pam[c] \in {"idle", "returned"} THEN valid[c]
                                   ELSE valid[c] \cup { x \in Labels : enrolled'[x] = "this" }]
    /\ UNCHANGED <<pamVars, daemonVars>>

Receiving(c) == pam[c] \in {"header", "body"}

UpTo(n, bound) == IF n < bound THEN n + 1 ELSE n

(* External: the clock.  No recv lasts longer than SO_RCVTIMEO. *)
Tick ==
    /\ \A c \in Logins : Receiving(c) => waited[c] < Timeout
    /\ waited' = [c \in Logins |-> IF Receiving(c) THEN waited[c] + 1 ELSE waited[c]]
    /\ spent' = [c \in Logins |-> IF Receiving(c) THEN UpTo(spent[c], LongestSpent)
                                                 ELSE spent[c]]
    /\ since' = [c \in Logins |-> IF handler[c] \in {"wait_mu", "loop"}
                                  THEN UpTo(since[c], Timeout) ELSE since[c]]
    /\ UNCHANGED <<pam, opts, result, signals, entered, handler, copy, mu, reply, wire, storeVars>>

Pam(c) ==
    \/ Connect(c) \/ ConnectFails(c)
    \/ RecvHeader(c) \/ RecvBody(c) \/ RecvFails(c) \/ Interrupt(c)
    \/ Prompt(c)

Next ==
    \/ \E c \in Logins : Pam(c) \/ Handler(c)
    \/ Crash
    \/ \E l \in Labels : Change(l)
    \/ Tick

Spec == Init /\ [][Next]_vars

(* Fairness: the login process runs, time passes, and the user answers the prompt.  Of
   the daemon nothing is assumed. *)
Fairness ==
    /\ \A c \in Logins : WF_vars(RecvHeader(c) \/ RecvBody(c) \/ RecvFails(c) \/ Prompt(c))
    /\ WF_vars(Tick)

FairSpec == Spec /\ Fairness

-----------------------------------------------------------------------------
\* A login is granted only for an enrollment that existed, made with this embedder, at
\* some time since the call began, whatever was saved or removed while it waited for the
\* camera; and only with the user's Enter, unless the options do without.
GrantIsEarned ==
    \A c \in Logins :
        result[c] = "success" =>
            /\ reply[c] \in valid[c]
            /\ entered[c] \/ ~opts.require_enter \/ opts.allow_no_conv

\* The bound that the code keeps: do_auth takes at most two receive timeouts, one for the
\* length and one for the rest, and one more for each signal that interrupts it, whatever
\* the daemon does.  The total deadline that the module's header names is another one:
\* see TotalDeadline.
LoginBounded == \A c \in Logins : spent[c] <= (2 + signals) * Timeout

\* A login that was begun ends, also when the daemon is wedged, dies, or never gets the
\* camera.
LoginEnds == \A c \in Logins : pam[c] = "header" ~> pam[c] = "returned"

-----------------------------------------------------------------------------
(* What a comment says, and the code does not do. *)

\* pam_chowdy.c:19, "timeout=MS total deadline including connect": do_auth takes no longer
\* than the timeout.
TotalDeadline == \A c \in Logins : spent[c] <= Timeout
=============================================================================
