----------------------------- MODULE AuthProofs -----------------------------
(***************************************************************************)
(* The proof that a login is granted only for an enrollment that could     *)
(* have matched since the call began, and that it takes no longer than its *)
(* receive timeouts, for any number of logins, labels and signals.         *)
(***************************************************************************)
EXTENDS Auth, TLAPS

\* What the argument needs of the types.
Typed ==
    /\ pam \in [Logins -> {"idle", "header", "body", "prompt", "returned"}]
    /\ result \in [Logins -> {"none", "success", "auth_err", "unavail", "user_unknown"}]
    /\ entered \in [Logins -> BOOLEAN]
    /\ handler \in [Logins -> {"none", "queued", "wait_mu", "loop", "answer"}]
    /\ copy \in [Logins -> SUBSET Labels]
    /\ reply \in [Logins -> Labels \cup {"none", "error", "no"}]
    /\ wire \in [Logins -> {"empty", "header", "full", "closed"}]
    /\ valid \in [Logins -> SUBSET Labels]

Waiting(c) == pam[c] \in {"header", "body", "prompt"}

\* While a login waits, nothing the daemon holds for it is outside its history.
Traced(c) ==
    Waiting(c) => /\ Usable \subseteq valid[c]
                  /\ copy[c] \subseteq valid[c]
                  /\ reply[c] \in Labels => reply[c] \in valid[c]

\* A handler runs neither before the request nor after the answer.
Served(c) ==
    /\ pam[c] = "idle" => handler[c] = "none" /\ reply[c] = "none" /\ copy[c] = {}
                          /\ wire[c] = "empty"
    /\ wire[c] = "full" => handler[c] = "none"
    /\ pam[c] = "prompt" => handler[c] = "none" /\ reply[c] \in Labels

\* A grant, and that nothing changes it any more.
Granted(c) ==
    result[c] = "success" =>
        /\ pam[c] = "returned" /\ handler[c] = "none" /\ reply[c] \in valid[c]
        /\ entered[c] \/ ~opts.require_enter \/ opts.allow_no_conv

GrantInv == Typed /\ \A c \in Logins : Traced(c) /\ Served(c) /\ Granted(c)

-----------------------------------------------------------------------------
LEMMA PamStep ==
    ASSUME GrantInv, NEW c \in Logins, Pam(c)
    PROVE  GrantInv'
<1> USE AuthAssumption DEF GrantInv, Typed, Traced, Served, Granted, Waiting, Usable, daemonVars,
                           storeVars, Return, AuthDone
<1>1. CASE Connect(c)
  BY <1>1 DEF Connect
<1>2. CASE ConnectFails(c)
  BY <1>2 DEF ConnectFails
<1>3. CASE RecvHeader(c)
  BY <1>3 DEF RecvHeader
<1>4. CASE RecvBody(c)
  BY <1>4 DEF RecvBody
<1>5. CASE RecvFails(c)
  BY <1>5 DEF RecvFails
<1>6. CASE Interrupt(c)
  BY <1>6 DEF Interrupt
<1>7. CASE Prompt(c)
  <2>1. /\ pam[c] = "prompt" /\ pam' = [pam EXCEPT ![c] = "returned"]
        /\ UNCHANGED <<opts, handler, copy, reply, wire, enrolled, valid>>
    BY <1>7 DEF Prompt
  <2>2. entered' \in [Logins -> BOOLEAN] /\ \A d \in Logins \ {c} : entered'[d] = entered[d]
    <3>1. entered' = entered \/ entered' = [entered EXCEPT ![c] = TRUE]
      BY <1>7 DEF Prompt
    <3>2. entered \in [Logins -> BOOLEAN]
      OBVIOUS
    <3>3. CASE entered' = entered
      BY <3>2, <3>3
    <3>4. CASE entered' = [entered EXCEPT ![c] = TRUE]
      BY <3>2, <3>4
    <3> QED BY <3>1, <3>3, <3>4
  <2>3. /\ result' \in [Logins -> {"none", "success", "auth_err", "unavail", "user_unknown"}]
        /\ \A d \in Logins \ {c} : result'[d] = result[d]
    BY <1>7 DEF Prompt
  <2>4. result'[c] = "success" => entered'[c] \/ opts.allow_no_conv
    BY <1>7 DEF Prompt
  <2>5. Typed'
    BY <2>1, <2>2, <2>3
  <2>6. ASSUME NEW d \in Logins PROVE (Traced(d) /\ Served(d))'
    BY <2>1
  <2>7. ASSUME NEW d \in Logins PROVE Granted(d)'
    BY <2>1, <2>2, <2>3, <2>4
  <2> QED BY <2>5, <2>6, <2>7
<1> QED BY <1>1, <1>2, <1>3, <1>4, <1>5, <1>6, <1>7 DEF Pam

LEMMA HandlerStep ==
    ASSUME GrantInv, NEW c \in Logins, Handler(c)
    PROVE  GrantInv'
<1> USE AuthAssumption DEF GrantInv, Typed, Traced, Served, Granted, Waiting, Usable, pamVars,
                           storeVars, Goto, Reply
<1>1. CASE Lookup(c)
  BY <1>1 DEF Lookup
<1>2. CASE Refuse(c)
  BY <1>2 DEF Refuse
<1>3. CASE Lock(c)
  BY <1>3 DEF Lock
<1>4. CASE Frame(c)
  BY <1>4 DEF Frame
<1>5. CASE LoopEnds(c)
  BY <1>5 DEF LoopEnds
<1>6. CASE Write(c)
  BY <1>6 DEF Write
<1> QED BY <1>1, <1>2, <1>3, <1>4, <1>5, <1>6 DEF Handler

LEMMA GrantInvAlways == Spec => []GrantInv
<1>1. Init => GrantInv
  BY AuthAssumption DEF Init, GrantInv, Typed, Traced, Served, Granted, Waiting, Usable
<1>2. GrantInv /\ [Next]_vars => GrantInv'
  <2> SUFFICES ASSUME GrantInv, [Next]_vars PROVE GrantInv'
    OBVIOUS
  <2> USE DEF GrantInv, Typed, Traced, Served, Granted, Waiting, Usable
  <2>1. CASE Crash
    BY <2>1 DEF Crash, pamVars, storeVars
  <2>2. ASSUME NEW l \in Labels, Change(l) PROVE GrantInv'
    BY <2>2 DEF Change, pamVars, daemonVars
  <2>3. CASE Tick
    BY <2>3 DEF Tick, storeVars
  <2>4. CASE UNCHANGED vars
    BY <2>4 DEF vars
  <2> QED BY <2>1, <2>2, <2>3, <2>4, PamStep, HandlerStep DEF Next
<1> QED BY <1>1, <1>2, PTL DEF Spec

-----------------------------------------------------------------------------
\* A login is granted only for an enrollment that existed, made with this embedder, at
\* some time since pam_sm_authenticate was called, and only with the user's Enter unless
\* the options do without.
THEOREM GrantsAreEarned == Spec => []GrantIsEarned
<1>1. GrantInv => GrantIsEarned
  BY DEF GrantInv, Granted, GrantIsEarned
<1> QED BY <1>1, GrantInvAlways, PTL

-----------------------------------------------------------------------------
(* Types and time. *)

\* The types that Typed leaves out.
RestTyped ==
    /\ opts \in Options
    /\ waited \in [Logins -> 0 .. Timeout]
    /\ spent \in [Logins -> 0 .. LongestSpent]
    /\ signals \in 0 .. MaxSignals
    /\ since \in [Logins -> 0 .. Timeout]
    /\ mu \in Logins \cup {NoOne}
    /\ enrolled \in [Labels -> {"absent", "this", "other"}]
    /\ \A c \in Logins : handler[c] = "loop" <=> mu = c

\* The receive timeouts that signals have added.
Added == signals * Timeout

\* Time is spent in recv only: waited ticks in this one, at most Timeout in the one for
\* the length if that is over, and at most Timeout in each that was interrupted.
Spent(c) ==
    CASE pam[c] = "header" -> spent[c] <= Added + waited[c]
      [] pam[c] = "body" -> spent[c] <= Added + Timeout + waited[c]
      [] OTHER -> spent[c] = 0

TimeInv == Typed /\ RestTyped /\ \A c \in Logins : Spent(c)

LEMMA Bounds ==
    ASSUME signals \in 0 .. MaxSignals
    PROVE  /\ Added \in Nat /\ LongestSpent \in Nat
           /\ (signals + 1) * Timeout = Added + Timeout
           /\ (2 + signals) * Timeout = Added + 2 * Timeout
           /\ Timeout \in Nat \ {0} /\ MaxSignals \in Nat
BY AuthAssumption DEF AuthAssumption, Added, LongestSpent

LEMMA PamTime ==
    ASSUME TimeInv, NEW c \in Logins, Pam(c), Typed', Served(c)
    PROVE  TimeInv'
<1> USE DEF TimeInv, RestTyped, Spent, Added
<1>0. /\ Added \in Nat /\ LongestSpent \in Nat /\ Timeout \in Nat \ {0} /\ MaxSignals \in Nat
      /\ (signals + 1) * Timeout = Added + Timeout
  BY Bounds
<1>1. CASE Connect(c)
  BY <1>0, <1>1 DEF Connect, Typed, Served
<1>2. CASE ConnectFails(c)
  BY <1>0, <1>2 DEF ConnectFails, Return, daemonVars, storeVars, Typed
<1>3. CASE RecvHeader(c)
  BY <1>0, <1>3 DEF RecvHeader, daemonVars, storeVars, Typed
<1>4. CASE RecvBody(c)
  BY <1>0, <1>4 DEF RecvBody, Return, AuthDone, daemonVars, storeVars, Typed
<1>5. CASE RecvFails(c)
  BY <1>0, <1>5 DEF RecvFails, Return, AuthDone, daemonVars, storeVars, Typed
<1>6. CASE Interrupt(c)
  <2>1. /\ waited' = [waited EXCEPT ![c] = 0] /\ signals' = signals + 1 /\ signals' \in 0 .. MaxSignals
        /\ pam[c] \in {"header", "body"}
        /\ UNCHANGED <<pam, opts, spent, handler, since, mu, enrolled>>
    BY <1>0, <1>6 DEF Interrupt, daemonVars, storeVars
  <2>2. RestTyped'
    BY <1>0, <2>1
  <2>3. signals' * Timeout = Added + Timeout
    BY <1>0, <2>1
  <2>4. ASSUME NEW d \in Logins PROVE Spent(d)'
    BY <1>0, <2>1, <2>3 DEF Typed
  <2> QED BY <2>2, <2>4
<1>7. CASE Prompt(c)
  BY <1>0, <1>7 DEF Prompt, Return, daemonVars, storeVars, Typed
<1> QED BY <1>1, <1>2, <1>3, <1>4, <1>5, <1>6, <1>7 DEF Pam

LEMMA HandlerTime ==
    ASSUME TimeInv, NEW c \in Logins, Handler(c), Typed'
    PROVE  TimeInv'
<1> USE DEF TimeInv, Typed, RestTyped, Spent, Added, pamVars, storeVars, Goto, Reply
<1>0. Timeout \in Nat /\ NoOne \notin Logins
  BY AuthAssumption DEF AuthAssumption
<1>1. CASE Lookup(c)
  BY <1>0, <1>1 DEF Lookup
<1>2. CASE Refuse(c)
  BY <1>0, <1>2 DEF Refuse
<1>3. CASE Lock(c)
  BY <1>0, <1>3 DEF Lock
<1>4. CASE Frame(c)
  BY <1>0, <1>4 DEF Frame
<1>5. CASE LoopEnds(c)
  BY <1>0, <1>5 DEF LoopEnds
<1>6. CASE Write(c)
  BY <1>0, <1>6 DEF Write
<1> QED BY <1>1, <1>2, <1>3, <1>4, <1>5, <1>6 DEF Handler

LEMMA TickTime ==
    ASSUME TimeInv, Tick, Typed'
    PROVE  TimeInv'
<1> USE DEF TimeInv, RestTyped, Spent, Added, Typed
<1>0. Added \in Nat /\ LongestSpent \in Nat /\ Timeout \in Nat /\ MaxSignals \in Nat
  BY Bounds
<1>1. /\ waited' = [c \in Logins |-> IF Receiving(c) THEN waited[c] + 1 ELSE waited[c]]
      /\ spent' = [c \in Logins |-> IF Receiving(c) THEN UpTo(spent[c], LongestSpent) ELSE spent[c]]
      /\ since' = [c \in Logins |-> IF handler[c] \in {"wait_mu", "loop"}
                                    THEN UpTo(since[c], Timeout) ELSE since[c]]
      /\ \A c \in Logins : Receiving(c) => waited[c] < Timeout
      /\ UNCHANGED <<pam, opts, signals, handler, mu, enrolled>>
  BY DEF Tick, storeVars
<1>2. \A c \in Logins : since'[c] \in 0 .. Timeout
  BY <1>0, <1>1 DEF UpTo
<1>3. \A c \in Logins : spent'[c] \in 0 .. LongestSpent
  BY <1>0, <1>1 DEF UpTo
<1>4. \A c \in Logins : waited'[c] \in 0 .. Timeout
  BY <1>0, <1>1
<1>5. RestTyped'
  BY <1>1, <1>2, <1>3, <1>4
<1>6. ASSUME NEW c \in Logins PROVE Spent(c)'
  BY <1>0, <1>1 DEF UpTo, Receiving
<1> QED BY <1>5, <1>6

LEMMA TimeInvAlways == Spec => []TimeInv
<1>1. Init => TimeInv
  <2> SUFFICES ASSUME Init PROVE TimeInv
    OBVIOUS
  <2>1. LongestSpent \in Nat /\ Timeout \in Nat /\ MaxSignals \in Nat
    BY Bounds, AuthAssumption DEF Init, AuthAssumption
  <2>2. Typed
    BY DEF Init, Typed
  <2> QED BY <2>1, <2>2, AuthAssumption DEF Init, TimeInv, RestTyped, Spent, Added, AuthAssumption
<1>2. GrantInv /\ GrantInv' /\ TimeInv /\ [Next]_vars => TimeInv'
  <2> SUFFICES ASSUME \A c \in Logins : Served(c), Typed', TimeInv, [Next]_vars PROVE TimeInv'
    BY DEF GrantInv
  <2>1. CASE Crash
    BY <2>1, AuthAssumption DEF Crash, pamVars, storeVars, AuthAssumption, TimeInv, RestTyped, Spent, Added
  <2>2. ASSUME NEW l \in Labels, Change(l) PROVE TimeInv'
    BY <2>2 DEF Change, pamVars, daemonVars, TimeInv, RestTyped, Spent, Added
  <2>3. CASE UNCHANGED vars
    BY <2>3 DEF vars, TimeInv, RestTyped, Spent, Added
  <2> QED BY <2>1, <2>2, <2>3, PamTime, HandlerTime, TickTime DEF Next
<1> QED BY <1>1, <1>2, GrantInvAlways, PTL DEF Spec

\* Every variable keeps its type; in particular no recv lasts longer than SO_RCVTIMEO, no
\* capture loop longer than its budget, and never do two handlers capture at a time.
THEOREM AuthTypeCorrect == Spec => []TypeOK
<1>1. TimeInv => TypeOK
  BY DEF TimeInv, Typed, RestTyped, TypeOK
<1> QED BY <1>1, TimeInvAlways, PTL

\* do_auth takes at most two receive timeouts and one more for each signal, for every
\* timeout and any number of signals, whatever the daemon does.
THEOREM LoginsBounded == Spec => []LoginBounded
<1>1. TimeInv => LoginBounded
  <2> SUFFICES ASSUME TimeInv, NEW c \in Logins PROVE spent[c] <= (2 + signals) * Timeout
    BY DEF LoginBounded
  <2>1. /\ Added \in Nat /\ Timeout \in Nat /\ (2 + signals) * Timeout = Added + 2 * Timeout
        /\ waited[c] \in 0 .. Timeout /\ spent[c] \in Int
    BY Bounds, AuthAssumption DEF TimeInv, RestTyped, LongestSpent, AuthAssumption
  <2>2. spent[c] <= Added + Timeout + waited[c]
    BY <2>1 DEF TimeInv, Spent
  <2> QED BY <2>1, <2>2
<1> QED BY <1>1, TimeInvAlways, PTL
=============================================================================
