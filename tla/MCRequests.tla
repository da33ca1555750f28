----------------------------- MODULE MCRequests -----------------------------
(* A small instance of Requests for TLC: accounts 0, 1 and 2; root by sudo, root itself
   and a user who has set SUDO_UID.  One client does any of the things there are, while
   another changes enrollments as root.  The frames of other authors are one for each way
   in which a frame or a request can be wrong or incomplete. *)
EXTENDS Requests, TLC

CONSTANTS c1, c2, s1, s2

Sudo == [uid |-> 0, sudo |-> 1]
TooWide == [uid |-> 0, sudo |-> Width * Width]
Root == [uid |-> 0, sudo |-> None]
Plain == [uid |-> 1, sudo |-> 2]

MCUsers == {Sudo, TooWide, Root, Plain}

MCEnrolled == (0 :> {} @@ 1 :> {"face", "success"} @@ 2 :> {"door"})

\* a/b leads nowhere, ../2/door to the enrollment of account 2.
MCReach == [p \in Uids \X BadLabels |-> IF p[2] = "a/b" THEN {} ELSE {<<2, "door">>}]

Fit(payload) == [len |-> "fits", payload |-> payload]

MCForeign ==
    { [len |-> "zero", payload |-> Garbage],
      [len |-> "huge", payload |-> Garbage],
      Fit(Garbage),
      Fit("request_id" :> Str("mine")),                              \* no type
      Fit("type" :> Str("list") @@ "request_id" :> Num(7)),          \* an id of the wrong type
      Fit("type" :> Str("remove") @@ "uid" :> Num(1)),               \* no label
      Fit("type" :> Str("remove") @@ "label" :> Str("face")),        \* no uid: root's
      Fit("type" :> Str("remove") @@ "label" :> Str("") @@ "uid" :> Num(Width + 1)),
      Fit("type" :> Str("list") @@ "uid" :> Num(2)),                 \* somebody else's
      Fit("type" :> Str("auth") @@ "uid" :> Bool(TRUE)),
      Fit("type" :> Str("enroll_start") @@ "label" :> Str("a/b")),
      Fit("type" :> Str("enroll_finish") @@ "session" :> Str(s1)) }      \* whose is it?

Cli(cmd) == [prog |-> "cli", cmd |-> cmd]
CliFor(cmd, label) == [prog |-> "cli", cmd |-> cmd, label |-> label]

Pam(uid) == [prog |-> "pam", uid |-> uid]
By(u, ts) == [user : {u}, task : ts]

Others == [prog : {"other"}, frame : MCForeign]

Anything ==
    By(TooWide, {Cli("list")})
    \cup By(Sudo, {Cli("list"), CliFor("remove", "face"), CliFor("enroll", "face"), CliFor("enroll", "")})
    \cup By(Root, {Cli("list"), Pam(1)} \cup Others)
    \cup By(Plain, {Cli("test"), Cli("auth-test"), Cli("list"), CliFor("remove", "face"),
                    CliFor("enroll", "face"), Pam(1), Pam(2)}
                   \cup { t \in Others : t.frame.payload # Garbage })

Together(a, b) == { (c1 :> x @@ c2 :> y) : x \in a, y \in b }

Finishes == { t \in Others : t.frame.payload # Garbage /\ "session" \in DOMAIN t.frame.payload }

MCJobs ==
    Together(Anything, By(Sudo, {Cli("remove-all")}))
    \cup Together(By(Sudo, {Cli("list"), CliFor("enroll", "success")}) \cup By(Root, Finishes),
                  By(Sudo, {CliFor("enroll", "face")}))
    \cup Together(By(Sudo, {CliFor("remove", "../2/door"), CliFor("remove", "a/b")}),
                  By(Root, {Pam(2)}) \cup By(Sudo, {CliFor("enroll", "a/b")}))
=============================================================================
