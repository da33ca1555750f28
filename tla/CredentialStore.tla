--------------------------- MODULE CredentialStore ---------------------------
(***************************************************************************)
(* What the enrollment store promises its callers, for one uid, without    *)
(* files, caches, time stamps and locks: a credential per label, changed   *)
(* in one step, and lookups that take time.                                *)
(*                                                                         *)
(* A lookup answers, for every label, with a content that the label had    *)
(* while the lookup ran, or with one that a change replaced that had not   *)
(* yet returned when the lookup began.  So it is exact for a label that    *)
(* nobody is changing, and a credential whose removal has returned is not  *)
(* found by any later lookup.  Where reads may fail, a lookup may overlook *)
(* a credential; it never finds one that is not there.                     *)
(*                                                                         *)
(* A change is not durable at once: when the power fails, a label comes    *)
(* back with any content it has had since it was last persisted, or with   *)
(* none if it was saved since then.                                        *)
(***************************************************************************)
CONSTANTS
    Threads,    \* the callers, each making one call
    Labels,
    NoFile,     \* no credential
    Own,        \* Own[t]: the enrollment that t saves, if it saves one
    Overlooks,  \* may a lookup overlook a credential?
    LosesPower  \* may the machine go down?

VARIABLES
    cred,       \* cred[l]: the credential under label l
    durable,    \* durable[l]: what l may hold after a power failure
    phase,      \* where each call is
    open,       \* the labels a call has changed, until it has returned
    stale,      \* what the open changes of a label have replaced
    may,        \* what a lookup may answer
    answer      \* what it answered

vars == <<cred, durable, phase, open, stale, may, answer>>

None == [l \in Labels |-> NoFile]

Init ==
    /\ cred = None
    /\ durable = [l \in Labels |-> {NoFile}]
    /\ phase = [t \in Threads |-> "idle"]
    /\ open = [t \in Threads |-> {}]
    /\ stale = [l \in Labels |-> {}]
    /\ may = [t \in Threads |-> [l \in Labels |-> {}]]
    /\ answer = [t \in Threads |-> None]

Enter(t, from, to) == phase[t] \in from /\ phase' = [phase EXCEPT ![t] = to]

\* A call that changes credentials begins ...
Begin(t) ==
    /\ Enter(t, {"idle"}, "changing")
    /\ UNCHANGED <<cred, durable, open, stale, may, answer>>

\* ... puts its own enrollment under a label, or takes away what is there, ...
Change(t, l) ==
    /\ Enter(t, {"idle", "changing"}, "changing")
    /\ \E v \in {Own[t], NoFile} :
          /\ cred' = [cred EXCEPT ![l] = v]
          /\ durable' = [durable EXCEPT ![l] = @ \cup {v, NoFile}]
          /\ may' = [u \in Threads |-> IF phase[u] = "reading"
                                       THEN [may[u] EXCEPT ![l] = @ \cup {v}] ELSE may[u]]
    /\ stale' = [stale EXCEPT ![l] = @ \cup {cred[l]}]
    /\ open' = [open EXCEPT ![t] = @ \cup {l}]
    /\ UNCHANGED answer

\* ... and returns.  That also settles what failed calls have left open.
Settle(t) ==
    /\ Enter(t, {"changing"}, "done")
    /\ open' = [u \in Threads |-> IF u = t \/ phase[u] = "done" THEN {} ELSE open[u]]
    /\ stale' = [l \in Labels |-> IF \E u \in Threads : l \in open'[u] THEN stale[l] ELSE {}]
    /\ UNCHANGED <<cred, durable, may, answer>>

\* A call that fails leaves its changes open.
Fail(t) ==
    /\ Enter(t, {"idle", "changing"}, "done")
    /\ UNCHANGED <<cred, durable, open, stale, may, answer>>

FailRead(t) ==
    /\ Enter(t, {"reading"}, "done")
    /\ may' = [may EXCEPT ![t] = [l \in Labels |-> {}]]
    /\ UNCHANGED <<cred, durable, open, stale, answer>>

BeginRead(t) ==
    /\ Enter(t, {"idle"}, "reading")
    /\ may' = [may EXCEPT ![t] = [l \in Labels |-> stale[l] \cup {cred[l]}]]
    /\ UNCHANGED <<cred, durable, open, stale, answer>>

EndRead(t) ==
    /\ Enter(t, {"reading"}, "answered")
    /\ \E a \in [Labels -> {NoFile} \cup UNION { may[t][l] : l \in Labels }] :
          /\ \A l \in Labels : a[l] \in may[t][l] \/ (Overlooks /\ a[l] = NoFile)
          /\ answer' = [answer EXCEPT ![t] = a]
    /\ UNCHANGED <<cred, durable, open, stale, may>>

\* A change reaches the disk.
Persist(l) ==
    /\ durable' = [durable EXCEPT ![l] = {cred[l]}]
    /\ UNCHANGED <<cred, phase, open, stale, may, answer>>

PowerFails ==
    /\ LosesPower
    /\ cred' \in [Labels -> UNION { durable[l] : l \in Labels }]
    /\ \A l \in Labels : cred'[l] \in durable[l]
    /\ durable' = [l \in Labels |-> {cred'[l]}]

\* The daemon goes down, alone or with the machine.
Crash ==
    /\ PowerFails \/ UNCHANGED <<cred, durable>>
    /\ phase' = [t \in Threads |-> IF phase[t] = "idle" THEN "idle" ELSE "done"]
    /\ open' = [t \in Threads |-> {}]
    /\ stale' = [l \in Labels |-> {}]
    /\ may' = [t \in Threads |-> [l \in Labels |-> {}]]
    /\ answer' = [t \in Threads |-> None]

Next ==
    \/ \E t \in Threads : \/ Begin(t) \/ Settle(t) \/ Fail(t)
                          \/ BeginRead(t) \/ EndRead(t) \/ FailRead(t)
                          \/ \E l \in Labels : Change(t, l)
    \/ \E l \in Labels : Persist(l)
    \/ Crash

Spec == Init /\ [][Next]_vars
=============================================================================
