---------------------------- MODULE EnrollProofs ----------------------------
(***************************************************************************)
(* Proofs about Enroll, for any number of clients, sizes and restarts and  *)
(* any time to live.                                                       *)
(*                                                                         *)
(* A client is given its id once, and no two clients are given the same id *)
(* in one life of the daemon (Unique).  From this follow whose a session   *)
(* is and whose frames are in it (Owned), that a handler's pointer is as   *)
(* young as the session it points to (Pointer), that only one client fills *)
(* a session (Room), that a client which was told done has a full session  *)
(* (Done), and that what is saved has min_frames embeddings (Enough).      *)
(***************************************************************************)
EXTENDS Enroll, FiniteSetTheorems, TLAPS

\* The handler keeps a pointer to the session.
Holding(c) == h[c] \in {"wait_mu", "capture", "save", "drop"}

\* Which requests a client has under way, and which need an id.
Asked(c) ==
    /\ cli[c] \in {"idle", "prompt", "loop", "ok"} => h[c] = "none"
    /\ cli[c] \in {"idle", "start"} \/ h[c] = "start" => sid[c] = 0
    /\ cli[c] \in {"prompt", "loop", "frame", "finish"} => sid[c] # 0
    /\ h[c] \in {"frame", "finish"} \/ Holding(c) => sid[c] # 0
    /\ h[c] \in {"finish", "save", "drop"} => done[c]

\* The clients whose start request was handled.
Begun == { c \in Clients : cli[c] # "idle" /\ h[c] # "start" }

Unique ==
    /\ counter <= Cardinality(Begun)
    /\ \A c \in Clients : born[c] <= epoch /\ (sid[c] # 0 /\ born[c] = epoch => sid[c] <= counter)
    /\ \A c, d \in Clients : c # d /\ sid[c] = sid[d] /\ sid[c] # 0 => born[c] # born[d]

\* A session was opened in this life of the daemon, by a client that has its id or gave
\* up before it was told; whoever else has the id is older than that.
Owned(i) ==
    sessions[i] # NoSession =>
        /\ i <= counter
        /\ LET o == sessions[i].owner
           IN born[o] = epoch /\ sid[o] \in {0, i} /\ cli[o] # "idle" /\ h[o] # "start"
        /\ \A k \in 1 .. Len(sessions[i].frames) : sid[sessions[i].frames[k]] = i
        /\ \A d \in Clients : sid[d] = i /\ born[d] = epoch => sessions[i].owner = d

Pointer(c) ==
    Holding(c) =>
        /\ sessions[sid[c]] # NoSession => sessions[sid[c]].age <= held[c]
        /\ held[c] <= Ttl /\ ~Collides(sid[c]) => sessions[sid[c]] # NoSession

\* What was checked before the wait for the mutex still holds after it.
Room(i) ==
    sessions[i] # NoSession /\ ~Collides(i) =>
        /\ Len(sessions[i].frames) <= MaxFrames(size[sessions[i].owner])
        /\ \A c \in Clients : sid[c] = i /\ h[c] \in {"wait_mu", "capture"} => ~Full(sessions[i])

Done(c) ==
    /\ done[c] /\ sid[c] # 0 /\ born[c] = epoch /\ sessions[sid[c]] # NoSession
       => Full(sessions[sid[c]])
    /\ h[c] = "drop" /\ born[c] = epoch => Holds(c, size[c])

\* What was checked before the save still holds in it and after it.
Enough(c) ==
    h[c] \in {"save", "drop"} =>
        /\ sid[c] <= counter
        /\ sessions[sid[c]] # NoSession =>
              LET s == sessions[sid[c]]
              IN /\ Len(s.frames) >= MinFrames(size[s.owner])
                 /\ h[c] = "drop" => Holds(s.owner, MinFrames(size[s.owner]))

EnrollInv ==
    /\ TypeOK
    /\ \A c \in Clients : Asked(c)
    /\ Unique
    /\ \A i \in Ids : Owned(i)
    /\ \A c \in Clients : Pointer(c)
    /\ \A i \in Ids : Room(i)
    /\ \A c \in Clients : Done(c) /\ Enough(c)

-----------------------------------------------------------------------------
(* Facts about the operators. *)

LEMMA Constant ==
    /\ Cardinality(Clients) \in Nat /\ IsFiniteSet(Clients)
    /\ Ttl \in Nat /\ MaxRestarts \in Nat
BY EnrollAssumption, FS_CardinalityType DEF EnrollAssumption

\* Whatever was asked for, there is room for at least that.
LEMMA MaxFramesIs ==
    ASSUME NEW n \in Sizes
    PROVE  MaxFrames(n) \in Nat \ {0} /\ n \in Nat /\ n <= MaxFrames(n)
<1>1. n \in Nat
  BY EnrollAssumption DEF EnrollAssumption
<1> QED BY <1>1 DEF MaxFrames, MinFrames, AskedMin

\* min_frames is never below three.
LEMMA MinFramesIs ==
    ASSUME NEW n \in Sizes
    PROVE  MinFrames(n) \in Nat /\ MinFrames(n) >= 3
<1>1. n \in Nat
  BY EnrollAssumption DEF EnrollAssumption
<1> QED BY <1>1 DEF MinFrames, AskedMin

\* A session keeps its type when it gets older, is touched or is given a frame.
LEMMA SessionIs ==
    ASSUME NEW s \in Session
    PROVE  /\ s.owner \in Clients /\ s.frames \in Frames /\ s.age \in 0 .. Ttl + 1
           /\ Len(s.frames) \in Nat
           /\ \A a \in 0 .. Ttl + 1 :
                 /\ [s EXCEPT !.age = a] \in Session
                 /\ [s EXCEPT !.age = a].owner = s.owner
                 /\ [s EXCEPT !.age = a].frames = s.frames
                 /\ [s EXCEPT !.age = a].age = a
           /\ \A c \in Clients :
                 /\ [s EXCEPT !.frames = Append(@, c)] \in Session
                 /\ [s EXCEPT !.frames = Append(@, c)].owner = s.owner
                 /\ [s EXCEPT !.frames = Append(@, c)].frames = Append(s.frames, c)
                 /\ [s EXCEPT !.frames = Append(@, c)].age = s.age
           /\ s # NoSession
<1>1. s.frames \in Seq(Clients)
  BY DEF Session, Frames
<1>2. \A c \in Clients : Append(s.frames, c) \in Seq(Clients)
  BY <1>1
<1>3. s # NoSession
  BY EnrollAssumption DEF EnrollAssumption
<1> QED BY <1>1, <1>2, <1>3 DEF Session, Frames

LEMMA ReapedIs ==
    ASSUME TypeOK
    PROVE  /\ Reaped \in [Ids -> Session \cup {NoSession}]
           /\ \A i \in Ids : /\ Reaped[i] # NoSession => Reaped[i] = sessions[i]
                             /\ sessions[i] # NoSession /\ Reaped[i] = NoSession => sessions[i].age > Ttl
BY DEF TypeOK, Reaped

\* get() finds the session it is asked for as it was, and young again.
LEMMA TouchedIs ==
    ASSUME TypeOK, NEW i \in Ids
    PROVE  /\ Touched(i) \in [Ids -> Session \cup {NoSession}]
           /\ \A j \in Ids \ {i} : Touched(i)[j] = Reaped[j]
           /\ Touched(i)[i] # NoSession =>
                 /\ sessions[i] # NoSession
                 /\ Touched(i)[i] = [sessions[i] EXCEPT !.age = 0]
           /\ Touched(i)[i] = NoSession => Reaped[i] = NoSession
<1>1. CASE Reaped[i] = NoSession
  BY <1>1, ReapedIs DEF Touched
<1>2. CASE Reaped[i] # NoSession
  <2>1. Reaped[i] = sessions[i] /\ sessions[i] \in Session /\ 0 \in 0 .. Ttl + 1
    BY <1>2, ReapedIs, Constant
  <2>2. [sessions[i] EXCEPT !.age = 0] \in Session /\ [sessions[i] EXCEPT !.age = 0] # NoSession
    BY <2>1, SessionIs
  <2>3. Touched(i) = [Reaped EXCEPT ![i] = [sessions[i] EXCEPT !.age = 0]]
    BY <1>2, <2>1, ReapedIs DEF Touched
  <2> QED BY <1>2, <2>1, <2>2, <2>3, ReapedIs
<1> QED BY <1>1, <1>2

\* A new session begins empty and young.
New(c) == [owner |-> c, frames |-> <<>>, age |-> 0]

LEMMA NewIs ==
    ASSUME NEW c \in Clients
    PROVE  /\ New(c) \in Session /\ New(c) # NoSession
           /\ New(c).owner = c /\ New(c).age = 0 /\ Len(New(c).frames) = 0
<1>1. <<>> \in Seq(Clients) /\ 0 \in 0 .. Ttl + 1 /\ Len(<<>>) = 0
  BY Constant
<1>2. New(c) \in Session
  BY <1>1 DEF New, Session, Frames
<1> QED BY <1>1, <1>2, SessionIs DEF New

-----------------------------------------------------------------------------
(* The steps, without their lookups. *)

LEMMA IdIs ==
    ASSUME EnrollInv, NEW c \in Clients, h[c] \in {"frame", "finish"} \/ Holding(c)
    PROVE  sid[c] \in Ids
BY DEF EnrollInv, Asked, TypeOK

LEMMA FrameIs ==
    ASSUME EnrollInv, NEW c \in Clients, Frame(c)
    PROVE  /\ h[c] = "frame" /\ sessions' = Touched(sid[c]) /\ held' = [held EXCEPT ![c] = 0]
           /\ UNCHANGED <<size, sid, counter, mu, saved, epoch, born>>
           /\ \/ Answer(c, "failed", FALSE)
              \/ /\ sessions'[sid[c]] # NoSession /\ Full(sessions'[sid[c]])
                 /\ Answer(c, "loop", TRUE)
              \/ /\ sessions'[sid[c]] # NoSession /\ ~Full(sessions'[sid[c]])
                 /\ HandlerGoto(c, "wait_mu")
BY DEF Frame, Lookup

LEMMA FinishIs ==
    ASSUME EnrollInv, NEW c \in Clients, Finish(c)
    PROVE  /\ h[c] = "finish" /\ sessions' = Touched(sid[c]) /\ held' = [held EXCEPT ![c] = 0]
           /\ UNCHANGED <<size, sid, counter, mu, saved, epoch, born>>
           /\ \/ Answer(c, "failed", FALSE)
              \/ /\ sessions'[sid[c]] # NoSession
                 /\ ~(Len(sessions'[sid[c]].frames) < MinFrames(size[sessions'[sid[c]].owner]))
                 /\ HandlerGoto(c, "save")
BY DEF Finish, Lookup

LEMMA StartIs ==
    ASSUME EnrollInv, NEW c \in Clients, Start(c)
    PROVE  /\ h[c] = "start" /\ sid[c] = 0 /\ cli[c] # "idle"
           /\ counter' = counter + 1 /\ counter' \in Ids
           /\ sessions' = [Reaped EXCEPT ![counter'] = New(c)]
           /\ sid' = [sid EXCEPT ![c] = IF Awaits(c) THEN counter' ELSE @]
           /\ born' = [born EXCEPT ![c] = epoch]
           /\ Answer(c, "prompt", FALSE)
           /\ UNCHANGED <<size, held, mu, saved, epoch>>
           /\ counter' <= Cardinality(Begun')
<1>1. h[c] = "start" /\ sid[c] = 0 /\ cli[c] # "idle" /\ c \notin Begun
  BY DEF Start, EnrollInv, Asked, Begun
<1>2. Begun' = Begun \cup {c}
  BY <1>1 DEF Start, Answer, Awaits, Begun, EnrollInv, TypeOK
<1>3. /\ IsFiniteSet(Begun) /\ Begun \subseteq Clients /\ Begun' \subseteq Clients
      /\ Cardinality(Begun) \in Nat
      /\ Cardinality(Begun') = Cardinality(Begun) + 1 /\ Cardinality(Begun') <= Cardinality(Clients)
  <2>1. Begun \subseteq Clients /\ Begun' \subseteq Clients
    BY <1>2 DEF Begun
  <2>2. IsFiniteSet(Begun) /\ IsFiniteSet(Begun')
    BY <2>1, Constant, FS_Subset
  <2> QED BY <1>1, <1>2, <2>1, <2>2, Constant, FS_Subset, FS_AddElement, FS_CardinalityType
<1>4. counter' = counter + 1 /\ counter \in Nat
  BY Constant DEF Start, EnrollInv, TypeOK
<1>5. counter' <= Cardinality(Begun') /\ counter' \in Ids
  BY <1>3, <1>4, Constant DEF EnrollInv, Unique, Ids
<1> QED BY <1>1, <1>4, <1>5 DEF Start, New

\* Either way Capture answers and lets the client go on.
LEMMA CaptureAnswers ==
    ASSUME NEW c, Capture(c)
    PROVE  \E finished \in BOOLEAN : Answer(c, "loop", finished)
<1>1. Full(sessions'[sid[c]]) \in BOOLEAN
  BY DEF Full
<1>2. CASE Answer(c, "loop", Full(sessions'[sid[c]]))
  BY <1>1, <1>2
<1>3. CASE Answer(c, "loop", FALSE)
  BY <1>3
<1> QED BY <1>2, <1>3 DEF Capture

\* Moves of a handler and a client that keep their types.
LEMMA AnswerTypes ==
    ASSUME TypeOK, NEW c \in Clients, NEW finished \in BOOLEAN,
           NEW next \in {"prompt", "loop", "ok", "failed"}, Answer(c, next, finished)
    PROVE  /\ cli' \in [Clients -> {"idle", "start", "prompt", "loop", "frame", "finish", "ok", "failed"}]
           /\ h' \in [Clients -> {"none", "start", "frame", "wait_mu", "capture", "finish", "save", "drop"}]
           /\ done' \in [Clients -> BOOLEAN]
           /\ h'[c] = "none"
           /\ Awaits(c) => cli'[c] = next /\ done'[c] = finished
           /\ ~Awaits(c) => cli'[c] = cli[c] /\ done'[c] = done[c]
           /\ \A d \in Clients \ {c} : h'[d] = h[d] /\ cli'[d] = cli[d] /\ done'[d] = done[d]
BY DEF TypeOK, Answer

LEMMA GotoTypes ==
    ASSUME TypeOK, NEW c \in Clients,
           NEW where \in {"wait_mu", "capture", "save", "drop"}, HandlerGoto(c, where)
    PROVE  /\ h' \in [Clients -> {"none", "start", "frame", "wait_mu", "capture", "finish", "save", "drop"}]
           /\ h'[c] = where /\ \A d \in Clients \ {c} : h'[d] = h[d]
           /\ cli' = cli /\ done' = done
BY DEF TypeOK, HandlerGoto

-----------------------------------------------------------------------------
(* One lemma for each part of the invariant. *)

LEMMA TypeStep ==
    ASSUME EnrollInv, [Next]_vars
    PROVE  TypeOK'
<1>0. TypeOK
  BY DEF EnrollInv
<1>1. ASSUME NEW c \in Clients, Client(c) PROVE TypeOK'
  BY <1>0, <1>1 DEF TypeOK, Client, Begin, PressEnter, Loop, GiveUp, Request
<1>2. ASSUME NEW c \in Clients, Start(c) PROVE TypeOK'
  <2>0. /\ counter' \in Ids /\ sessions' = [Reaped EXCEPT ![counter'] = New(c)]
        /\ sid' = [sid EXCEPT ![c] = IF Awaits(c) THEN counter' ELSE @]
        /\ born' = [born EXCEPT ![c] = epoch]
        /\ Answer(c, "prompt", FALSE)
        /\ UNCHANGED <<size, held, mu, saved, epoch>>
    BY <1>2, StartIs
  <2>1. sessions' \in [Ids -> Session \cup {NoSession}]
    BY <1>0, <2>0, ReapedIs, NewIs
  <2>2. counter' \in 0 .. Cardinality(Clients) /\ sid' \in [Clients -> Ids \cup {0}]
    BY <1>0, <2>0, Constant DEF Ids, TypeOK
  <2>3. born' \in [Clients -> 0 .. MaxRestarts]
    BY <1>0, <2>0 DEF TypeOK
  <2> QED BY <1>0, <2>0, <2>1, <2>2, <2>3, AnswerTypes DEF TypeOK
<1>3. ASSUME NEW c \in Clients, StartDenied(c) PROVE TypeOK'
  BY <1>0, <1>3, AnswerTypes DEF StartDenied, TypeOK
<1>4. ASSUME NEW c \in Clients, Frame(c) PROVE TypeOK'
  <2>0. h[c] = "frame" /\ sessions' = Touched(sid[c]) /\ held' = [held EXCEPT ![c] = 0]
    BY <1>4, FrameIs
  <2>1. sessions' \in [Ids -> Session \cup {NoSession}]
    BY <1>0, <2>0, IdIs, TouchedIs
  <2>2. held' \in [Clients -> 0 .. Ttl + 1]
    BY <1>0, <2>0, Constant DEF TypeOK
  <2> QED BY <1>0, <1>4, <2>1, <2>2, FrameIs, AnswerTypes, GotoTypes DEF TypeOK
<1>5. ASSUME NEW c \in Clients, Lock(c) PROVE TypeOK'
  BY <1>0, <1>5, GotoTypes DEF Lock, TypeOK
<1>6. ASSUME NEW c \in Clients, Capture(c) PROVE TypeOK'
  <2>1. sid[c] \in Ids /\ sessions[sid[c]] \in Session
    BY <1>0, <1>6, IdIs DEF Capture, Holding, TypeOK
  <2>2. [sessions[sid[c]] EXCEPT !.frames = Append(@, c)] \in Session
    BY <2>1, SessionIs
  <2>3. sessions' \in [Ids -> Session \cup {NoSession}]
    BY <1>0, <1>6, <2>1, <2>2 DEF Capture, TypeOK
  <2>4. \E finished \in BOOLEAN : Answer(c, "loop", finished)
    BY <1>6, CaptureAnswers
  <2> QED BY <1>0, <1>6, <2>3, <2>4, AnswerTypes DEF Capture, TypeOK
<1>7. ASSUME NEW c \in Clients, Finish(c) PROVE TypeOK'
  <2>0. h[c] = "finish" /\ sessions' = Touched(sid[c]) /\ held' = [held EXCEPT ![c] = 0]
    BY <1>7, FinishIs
  <2>1. sessions' \in [Ids -> Session \cup {NoSession}]
    BY <1>0, <2>0, IdIs, TouchedIs
  <2>2. held' \in [Clients -> 0 .. Ttl + 1]
    BY <1>0, <2>0, Constant DEF TypeOK
  <2> QED BY <1>0, <1>7, <2>1, <2>2, FinishIs, AnswerTypes, GotoTypes DEF TypeOK
<1>8. ASSUME NEW c \in Clients, Save(c) PROVE TypeOK'
  <2>1. sessions[sid[c]] \in Session /\ Len(sessions[sid[c]].frames) \in Nat
    BY <1>0, <1>8, IdIs, SessionIs DEF Save, Holding, TypeOK
  <2>2. sessions[sid[c]].frames \in Files
    <3>1. size[sessions[sid[c]].owner] \in Sizes
      BY <1>0, <2>1, SessionIs DEF TypeOK
    <3>2. Len(sessions[sid[c]].frames) >= MinFrames(size[sessions[sid[c]].owner])
      BY <1>8 DEF Save, EnrollInv, Enough
    <3> QED BY <2>1, <3>1, <3>2, MinFramesIs, SessionIs DEF Files
  <2>3. saved' \in [Clients -> Files \cup {NoFile, Torn}]
    BY <1>0, <1>8, <2>1, <2>2 DEF Save, TypeOK
  <2> QED BY <1>0, <1>8, <2>3, GotoTypes DEF Save, TypeOK
<1>9. ASSUME NEW c \in Clients, SaveThrows(c) PROVE TypeOK'
  BY <1>0, <1>9, AnswerTypes DEF SaveThrows, TypeOK
<1>10. ASSUME NEW c \in Clients, Drop(c) PROVE TypeOK'
  BY <1>0, <1>10, AnswerTypes DEF Drop, TypeOK
<1>11. ASSUME NEW c \in Clients, Dangling(c) PROVE TypeOK'
  BY <1>0, <1>11, AnswerTypes DEF Dangling, TypeOK
<1>12. CASE OtherRequest
  BY <1>0, <1>12 DEF OtherRequest, TypeOK
<1>13. CASE Tick
  <2>1. \A a \in 0 .. Ttl + 1 : Older(a) \in 0 .. Ttl + 1
    BY Constant DEF Older
  <2>2. ASSUME NEW i \in Ids, sessions[i] # NoSession
        PROVE  [sessions[i] EXCEPT !.age = Older(@)] \in Session
    BY <1>0, <2>1, <2>2, SessionIs DEF TypeOK
  <2>3. sessions' \in [Ids -> Session \cup {NoSession}] /\ held' \in [Clients -> 0 .. Ttl + 1]
    BY <1>0, <1>13, <2>1, <2>2 DEF Tick, TypeOK
  <2> QED BY <1>0, <1>13, <2>3 DEF Tick, TypeOK
<1>14. CASE Restart
  BY <1>0, <1>14, Constant DEF Restart, TypeOK
<1>15. CASE UNCHANGED vars
  BY <1>0, <1>15 DEF vars, TypeOK
<1> QED BY <1>1, <1>2, <1>3, <1>4, <1>5, <1>6, <1>7, <1>8, <1>9, <1>10, <1>11, <1>12, <1>13, <1>14,
           <1>15 DEF Next, Handler

\* An answer, and going on to a place that needs an id, leave every client where it may be.
LEMMA AnswerAsked ==
    ASSUME TypeOK, \A d \in Clients : Asked(d), NEW c \in Clients, h[c] # "none", sid' = sid,
           NEW next \in {"loop", "ok", "failed"}, NEW finished \in BOOLEAN, Answer(c, next, finished),
           next = "loop" => sid[c] # 0
    PROVE  \A d \in Clients : Asked(d)'
<1>1. /\ h'[c] = "none"
      /\ Awaits(c) => cli'[c] = next
      /\ ~Awaits(c) => cli'[c] = cli[c]
  BY AnswerTypes
<1>2. \A d \in Clients \ {c} : h'[d] = h[d] /\ cli'[d] = cli[d] /\ done'[d] = done[d]
  BY AnswerTypes
<1>3. \A d \in Clients \ {c} : Asked(d)'
  BY <1>2 DEF Asked, Holding
<1>4. Asked(c)'
  BY <1>1 DEF Asked, Holding, Awaits
<1> QED BY <1>3, <1>4

LEMMA GotoAsked ==
    ASSUME TypeOK, \A d \in Clients : Asked(d), NEW c \in Clients, h[c] # "none", sid' = sid,
           NEW where \in {"wait_mu", "capture", "save", "drop"}, HandlerGoto(c, where),
           sid[c] # 0, where \in {"save", "drop"} => done[c]
    PROVE  \A d \in Clients : Asked(d)'
<1>1. h'[c] = where /\ cli' = cli /\ done' = done /\ \A d \in Clients \ {c} : h'[d] = h[d]
  BY GotoTypes
<1>2. \A d \in Clients \ {c} : Asked(d)'
  BY <1>1 DEF Asked, Holding
<1>3. Asked(c)'
  BY <1>1 DEF Asked, Holding
<1> QED BY <1>2, <1>3

LEMMA AskedStep ==
    ASSUME EnrollInv, [Next]_vars
    PROVE  \A c \in Clients : Asked(c)'
<1>0. TypeOK /\ \A c \in Clients : Asked(c)
  BY DEF EnrollInv
<1>1. ASSUME NEW c \in Clients, Client(c) PROVE \A d \in Clients : Asked(d)'
  BY <1>0, <1>1 DEF Client, Begin, PressEnter, Loop, GiveUp, Request, Awaits, TypeOK, Asked, Holding
<1>2. ASSUME NEW c \in Clients, Start(c) PROVE \A d \in Clients : Asked(d)'
  <2>0. /\ counter' \in Ids /\ sid[c] = 0
        /\ sid' = [sid EXCEPT ![c] = IF Awaits(c) THEN counter' ELSE @]
        /\ Answer(c, "prompt", FALSE)
    BY <1>2, StartIs
  <2>1. sid'[c] = IF Awaits(c) THEN counter' ELSE 0
    BY <1>0, <2>0 DEF TypeOK
  <2>2. counter' # 0 /\ \A d \in Clients \ {c} : sid'[d] = sid[d]
    BY <1>0, <2>0, Constant DEF TypeOK, Ids
  <2>3. /\ h'[c] = "none"
        /\ Awaits(c) => cli'[c] = "prompt"
        /\ ~Awaits(c) => cli'[c] = cli[c]
    BY <1>0, <2>0, AnswerTypes
  <2>4. \A d \in Clients \ {c} : h'[d] = h[d] /\ cli'[d] = cli[d] /\ done'[d] = done[d]
    BY <1>0, <2>0, AnswerTypes
  <2>5. \A d \in Clients \ {c} : Asked(d)'
    BY <1>0, <2>2, <2>4 DEF Asked, Holding
  <2>6. Asked(c)'
    BY <1>0, <2>0, <2>1, <2>2, <2>3 DEF Asked, Holding, Awaits
  <2> QED BY <2>5, <2>6
<1>3. ASSUME NEW c \in Clients, StartDenied(c) PROVE \A d \in Clients : Asked(d)'
  BY <1>0, <1>3, AnswerAsked DEF StartDenied
<1>4. ASSUME NEW c \in Clients, Frame(c) PROVE \A d \in Clients : Asked(d)'
  <2>1. h[c] = "frame" /\ sid' = sid /\ sid[c] # 0
    BY <1>0, <1>4, FrameIs DEF Asked
  <2>2. Answer(c, "failed", FALSE) \/ Answer(c, "loop", TRUE) \/ HandlerGoto(c, "wait_mu")
    BY <1>4, FrameIs
  <2> QED BY <1>0, <2>1, <2>2, AnswerAsked, GotoAsked
<1>5. ASSUME NEW c \in Clients, Lock(c) PROVE \A d \in Clients : Asked(d)'
  <2>1. h[c] = "wait_mu" /\ sid' = sid /\ sid[c] # 0 /\ HandlerGoto(c, "capture")
    BY <1>0, <1>5 DEF Lock, Asked, Holding
  <2> QED BY <1>0, <2>1, GotoAsked
<1>6. ASSUME NEW c \in Clients, Capture(c) PROVE \A d \in Clients : Asked(d)'
  <2>1. \E finished \in BOOLEAN : Answer(c, "loop", finished)
    BY <1>6, CaptureAnswers
  <2>2. h[c] = "capture" /\ sid' = sid /\ sid[c] # 0
    BY <1>0, <1>6 DEF Capture, Asked, Holding
  <2> QED BY <1>0, <2>1, <2>2, AnswerAsked
<1>7. ASSUME NEW c \in Clients, Finish(c) PROVE \A d \in Clients : Asked(d)'
  <2>1. h[c] = "finish" /\ sid' = sid /\ sid[c] # 0 /\ done[c]
    BY <1>0, <1>7, FinishIs DEF Asked
  <2>2. Answer(c, "failed", FALSE) \/ HandlerGoto(c, "save")
    BY <1>7, FinishIs
  <2> QED BY <1>0, <2>1, <2>2, AnswerAsked, GotoAsked
<1>8. ASSUME NEW c \in Clients, Save(c) PROVE \A d \in Clients : Asked(d)'
  <2>1. h[c] = "save" /\ sid' = sid /\ sid[c] # 0 /\ done[c] /\ HandlerGoto(c, "drop")
    BY <1>0, <1>8 DEF Save, Asked, Holding
  <2> QED BY <1>0, <2>1, GotoAsked
<1>9. ASSUME NEW c \in Clients, SaveThrows(c) PROVE \A d \in Clients : Asked(d)'
  BY <1>0, <1>9, AnswerAsked DEF SaveThrows
<1>10. ASSUME NEW c \in Clients, Drop(c) PROVE \A d \in Clients : Asked(d)'
  BY <1>0, <1>10, AnswerAsked DEF Drop
<1>11. ASSUME NEW c \in Clients, Dangling(c) PROVE \A d \in Clients : Asked(d)'
  <2>1. h[c] # "none" /\ sid' = sid /\ sid[c] # 0
    BY <1>0, <1>11 DEF Dangling, Asked, Holding
  <2>2. Answer(c, "loop", FALSE) \/ Answer(c, "failed", FALSE)
    BY <1>11 DEF Dangling
  <2> QED BY <1>0, <2>1, <2>2, AnswerAsked
<1>12. CASE OtherRequest \/ Tick
  BY <1>0, <1>12 DEF OtherRequest, Tick, Asked, Holding
<1>13. CASE Restart
  BY <1>0, <1>13 DEF Restart, Awaits, TypeOK, Asked, Holding
<1>14. CASE UNCHANGED vars
  BY <1>0, <1>14 DEF vars, Asked, Holding
<1> QED BY <1>1, <1>2, <1>3, <1>4, <1>5, <1>6, <1>7, <1>8, <1>9, <1>10, <1>11, <1>12, <1>13, <1>14
        DEF Next, Handler

-----------------------------------------------------------------------------
(* Steps other than Start and Restart: nobody is given an id; sessions end, and a client
   that has the id of one adds a frame to it. *)

Kept(i) ==
    sessions'[i] # NoSession =>
        /\ sessions[i] # NoSession /\ sessions'[i].owner = sessions[i].owner
        /\ \/ sessions'[i].frames = sessions[i].frames
           \/ \E c \in Clients : sid[c] = i /\ h[c] = "capture" /\ h'[c] = "none"
                                 /\ sessions'[i].frames = Append(sessions[i].frames, c)

Calm ==
    /\ UNCHANGED <<sid, born, counter, epoch, size>>
    /\ Begun \subseteq Begun'
    /\ \A i \in Ids : Kept(i)

LEMMA TouchedKept ==
    ASSUME TypeOK, NEW j \in Ids, sessions' = Touched(j), NEW i \in Ids
    PROVE  Kept(i)
<1>1. CASE i # j
  <2>1. Touched(j)[i] = Reaped[i]
    BY <1>1, TouchedIs
  <2>2. Reaped[i] # NoSession => Reaped[i] = sessions[i]
    BY ReapedIs
  <2> QED BY <2>1, <2>2 DEF Kept
<1>2. CASE i = j
  <2>1. ASSUME sessions'[i] # NoSession
        PROVE  sessions[i] \in Session /\ sessions'[i] = [sessions[i] EXCEPT !.age = 0]
    BY <1>2, <2>1, TouchedIs DEF TypeOK
  <2>2. 0 \in 0 .. Ttl + 1
    BY Constant
  <2>3. ASSUME sessions'[i] # NoSession
        PROVE  /\ sessions[i] # NoSession /\ sessions'[i].owner = sessions[i].owner
               /\ sessions'[i].frames = sessions[i].frames
    <3>1. sessions[i] \in Session /\ sessions'[i] = [sessions[i] EXCEPT !.age = 0]
      BY <2>1, <2>3
    <3> HIDE <2>1
    <3> QED BY <2>2, <3>1, SessionIs
  <2> QED BY <2>3 DEF Kept
<1> QED BY <1>1, <1>2

LEMMA CalmStep ==
    ASSUME EnrollInv, [Next]_vars
    PROVE  (\E c \in Clients : Start(c)) \/ Restart \/ Calm
<1>0. TypeOK
  BY DEF EnrollInv
<1>1. ASSUME NEW c \in Clients, Client(c) PROVE Calm
  BY <1>0, <1>1 DEF Client, Begin, PressEnter, Loop, GiveUp, Request, Awaits, TypeOK, Calm, Kept, Begun
<1>2. ASSUME NEW c \in Clients, StartDenied(c) PROVE Calm
  <2>1. UNCHANGED <<sid, born, counter, epoch, size, sessions>> /\ Begun \subseteq Begun'
    BY <1>0, <1>2, AnswerTypes DEF StartDenied, Begun
  <2> QED BY <2>1 DEF Calm, Kept
<1>3. ASSUME NEW c \in Clients, Frame(c) PROVE Calm
  <2>1. UNCHANGED <<sid, born, counter, epoch, size>> /\ sid[c] \in Ids /\ sessions' = Touched(sid[c])
    BY <1>3, FrameIs, IdIs
  <2>2. Begun \subseteq Begun'
    BY <1>0, <1>3, FrameIs, AnswerTypes, GotoTypes DEF Begun
  <2>3. \A i \in Ids : Kept(i)
    BY <1>0, <2>1, TouchedKept
  <2> QED BY <2>1, <2>2, <2>3 DEF Calm
<1>4. ASSUME NEW c \in Clients, Finish(c) PROVE Calm
  <2>1. UNCHANGED <<sid, born, counter, epoch, size>> /\ sid[c] \in Ids /\ sessions' = Touched(sid[c])
    BY <1>4, FinishIs, IdIs
  <2>2. Begun \subseteq Begun'
    BY <1>0, <1>4, FinishIs, AnswerTypes, GotoTypes DEF Begun
  <2>3. \A i \in Ids : Kept(i)
    BY <1>0, <2>1, TouchedKept
  <2> QED BY <2>1, <2>2, <2>3 DEF Calm
<1>5. ASSUME NEW c \in Clients, Lock(c) \/ Save(c) PROVE Calm
  <2>1. UNCHANGED <<sid, born, counter, epoch, size, sessions>> /\ Begun \subseteq Begun'
    BY <1>0, <1>5, GotoTypes DEF Lock, Save, Begun
  <2> QED BY <2>1 DEF Calm, Kept
<1>6. ASSUME NEW c \in Clients, Capture(c) PROVE Calm
  <2>1. /\ UNCHANGED <<sid, born, counter, epoch, size>>
        /\ h[c] = "capture" /\ sid[c] \in Ids /\ sessions[sid[c]] \in Session
    BY <1>0, <1>6, IdIs DEF Capture, Holding, TypeOK
  <2>2. Begun \subseteq Begun' /\ h'[c] = "none"
    <3>1. \E finished \in BOOLEAN : Answer(c, "loop", finished)
      BY <1>6, CaptureAnswers
    <3> QED BY <1>0, <3>1, AnswerTypes DEF Begun
  <2>3. CASE sessions' = sessions
    BY <2>1, <2>2, <2>3 DEF Calm, Kept
  <2>4. CASE sessions' = [sessions EXCEPT ![sid[c]].frames = Append(@, c)]
    <3>1. sessions' = [sessions EXCEPT ![sid[c]] = [sessions[sid[c]] EXCEPT !.frames = Append(@, c)]]
      BY <1>0, <2>1, <2>4 DEF TypeOK
    <3>2. \A i \in Ids \ {sid[c]} : sessions'[i] = sessions[i]
      BY <1>0, <3>1 DEF TypeOK
    <3>3. /\ sessions'[sid[c]].owner = sessions[sid[c]].owner
          /\ sessions'[sid[c]].frames = Append(sessions[sid[c]].frames, c)
          /\ sessions[sid[c]] # NoSession
      BY <1>0, <2>1, <3>1, SessionIs DEF TypeOK
    <3>4. \A i \in Ids : Kept(i)
      BY <2>1, <2>2, <3>2, <3>3 DEF Kept
    <3> QED BY <2>1, <2>2, <3>4 DEF Calm
  <2> QED BY <1>6, <2>3, <2>4 DEF Capture
<1>7. ASSUME NEW c \in Clients, SaveThrows(c) \/ Dangling(c) PROVE Calm
  <2>1. UNCHANGED <<sid, born, counter, epoch, size, sessions>> /\ Begun \subseteq Begun'
    BY <1>0, <1>7, AnswerTypes DEF SaveThrows, Dangling, Begun
  <2> QED BY <2>1 DEF Calm, Kept
<1>8. ASSUME NEW c \in Clients, Drop(c) PROVE Calm
  <2>1. UNCHANGED <<sid, born, counter, epoch, size>> /\ Begun \subseteq Begun'
    BY <1>0, <1>8, AnswerTypes DEF Drop, Begun
  <2>2. \A i \in Ids : Kept(i)
    BY <1>0, <1>8 DEF Drop, Kept, TypeOK
  <2> QED BY <2>1, <2>2 DEF Calm
<1>9. CASE OtherRequest \/ UNCHANGED vars
  BY <1>9 DEF OtherRequest, vars, Calm, Kept, Begun
<1>10. CASE Tick
  <2>1. UNCHANGED <<sid, born, counter, epoch, size>> /\ Begun' = Begun
    BY <1>10 DEF Tick, Begun
  <2>2. \A a \in 0 .. Ttl + 1 : Older(a) \in 0 .. Ttl + 1
    BY Constant DEF Older
  <2>3. ASSUME NEW i \in Ids PROVE Kept(i)
    <3>1. CASE sessions[i] = NoSession
      BY <1>10, <3>1 DEF Tick, Kept
    <3>2. CASE sessions[i] # NoSession
      <4>1. sessions[i] \in Session /\ sessions'[i] = [sessions[i] EXCEPT !.age = Older(sessions[i].age)]
        BY <1>0, <1>10, <3>2 DEF Tick, TypeOK
      <4> QED BY <2>2, <3>2, <4>1, SessionIs DEF Kept
    <3> QED BY <3>1, <3>2
  <2> QED BY <2>1, <2>3 DEF Calm
<1> QED BY <1>1, <1>2, <1>3, <1>4, <1>5, <1>6, <1>7, <1>8, <1>9, <1>10 DEF Next, Handler

\* What a Start changes for the others.
LEMMA StartUnique ==
    ASSUME EnrollInv, NEW c \in Clients, Start(c)
    PROVE  /\ \A d \in Clients : sid[d] # 0 => sid'[d] = sid[d] /\ born'[d] = born[d]
           /\ \A d \in Clients \ {c} : sid'[d] = sid[d] /\ born'[d] = born[d]
           /\ sid'[c] \in {0, counter'} /\ born'[c] = epoch
           /\ counter' = counter + 1 /\ counter \in Nat /\ epoch' = epoch
<1>1. /\ sid[c] = 0 /\ counter' = counter + 1 /\ epoch' = epoch
      /\ sid' = [sid EXCEPT ![c] = IF Awaits(c) THEN counter' ELSE @]
      /\ born' = [born EXCEPT ![c] = epoch]
  BY StartIs
<1> QED BY <1>1, Constant DEF EnrollInv, TypeOK

LEMMA UniqueStep ==
    ASSUME EnrollInv, [Next]_vars
    PROVE  Unique'
<1>0. TypeOK /\ Unique
  BY DEF EnrollInv
<1>1. ASSUME NEW c \in Clients, Start(c) PROVE Unique'
  <2>1. counter' <= Cardinality(Begun')
    BY <1>1, StartIs
  <2>2. \A d \in Clients : sid[d] \in Nat /\ born[d] \in Nat /\ epoch \in Nat
    BY <1>0, Constant DEF TypeOK, Ids
  <2>3. \A d \in Clients :
            born'[d] <= epoch' /\ (sid'[d] # 0 /\ born'[d] = epoch' => sid'[d] <= counter')
    BY <1>0, <1>1, <2>2, StartUnique DEF Unique
  <2>4. ASSUME NEW d \in Clients, NEW e \in Clients, d # e, sid'[d] = sid'[e], sid'[d] # 0
        PROVE  born'[d] # born'[e]
    BY <1>0, <1>1, <2>2, <2>4, StartUnique DEF Unique
  <2> QED BY <2>1, <2>3, <2>4 DEF Unique
<1>2. CASE Restart
  <2>1. /\ epoch' = epoch + 1 /\ counter' = 0 /\ UNCHANGED <<sid, born>>
        /\ \A d \in Clients : born[d] \in Nat /\ epoch \in Nat
    BY <1>0, <1>2, Constant DEF Restart, TypeOK
  <2>2. Cardinality(Begun') \in Nat
    BY Constant, FS_Subset, FS_CardinalityType, Begun' \subseteq Clients DEF Begun
  <2> QED BY <1>0, <2>1, <2>2 DEF Unique
<1>3. CASE Calm
  <2>1. /\ IsFiniteSet(Begun') /\ Begun \subseteq Begun' /\ counter' = counter /\ counter \in Nat
    BY <1>0, <1>3, Constant, FS_Subset, Begun' \subseteq Clients DEF Begun, Calm, TypeOK
  <2>2. Cardinality(Begun) <= Cardinality(Begun') /\ Cardinality(Begun) \in Nat
        /\ Cardinality(Begun') \in Nat
    BY <2>1, FS_Subset, FS_CardinalityType
  <2>3. counter' <= Cardinality(Begun')
    BY <1>0, <2>1, <2>2 DEF Unique
  <2> QED BY <1>0, <1>3, <2>3 DEF Unique, Calm
<1> QED BY <1>1, <1>2, <1>3, CalmStep

LEMMA AppendIs ==
    ASSUME NEW f \in Seq(Clients), NEW c \in Clients
    PROVE  /\ Len(f) \in Nat /\ Len(Append(f, c)) = Len(f) + 1
           /\ \A k \in 1 .. Len(Append(f, c)) : Append(f, c)[k] = c \/ (k \in 1 .. Len(f) /\ Append(f, c)[k] = f[k])
OBVIOUS

LEMMA OwnedStep ==
    ASSUME EnrollInv, [Next]_vars, NEW i \in Ids
    PROVE  Owned(i)'
<1>0. TypeOK /\ Unique /\ Owned(i) /\ i \in Nat \ {0}
  BY Constant DEF EnrollInv, Ids
<1>1. ASSUME NEW c \in Clients, Start(c) PROVE Owned(i)'
  <2>0. /\ h[c] = "start" /\ counter' = counter + 1 /\ counter \in Nat
        /\ sessions' = [Reaped EXCEPT ![counter'] = New(c)]
        /\ Answer(c, "prompt", FALSE) /\ cli[c] # "idle" /\ counter' \in Ids
    BY <1>1, StartIs, StartUnique
  <2>1. /\ h'[c] = "none" /\ cli'[c] # "idle"
        /\ \A d \in Clients \ {c} : h'[d] = h[d] /\ cli'[d] = cli[d]
    BY <1>0, <2>0, AnswerTypes
  <2>2. CASE i = counter'
    <3>1. sessions'[i] = New(c)
      BY <1>0, <2>0, <2>2, ReapedIs
    <3>2. \A d \in Clients : sid'[d] = i /\ born'[d] = epoch' => d = c
      BY <1>0, <1>1, <2>0, <2>2, StartUnique DEF Unique
    <3>3. /\ sessions'[i].owner = c /\ Len(sessions'[i].frames) = 0
          /\ born'[c] = epoch' /\ sid'[c] \in {0, i}
      BY <1>1, <2>2, <3>1, NewIs, StartUnique
    <3> QED BY <2>0, <2>1, <2>2, <3>2, <3>3 DEF Owned
  <2>3. CASE i # counter'
    <3>1. sessions'[i] = Reaped[i]
      BY <1>0, <2>0, <2>3, ReapedIs
    <3> SUFFICES ASSUME sessions'[i] # NoSession PROVE Owned(i)'
      BY DEF Owned
    <3>2. sessions'[i] = sessions[i] /\ sessions[i] # NoSession /\ sessions[i] \in Session
      BY <1>0, <3>1, ReapedIs DEF TypeOK
    <3>3. sessions[i].owner \in Clients \ {c} /\ i <= counter'
      BY <1>0, <2>0, <3>2, SessionIs DEF Owned
    <3>4. \A d \in Clients : sid'[d] = i => sid[d] = i /\ born'[d] = born[d]
      BY <1>0, <1>1, <2>3, StartUnique
    <3>5. \A k \in 1 .. Len(sessions[i].frames) : sessions[i].frames[k] \in Clients
      BY <3>2, SessionIs DEF Frames
    <3>6. \A k \in 1 .. Len(sessions[i].frames) : sid'[sessions[i].frames[k]] = i
      BY <1>0, <1>1, <3>2, <3>5, StartUnique DEF Owned
    <3> QED BY <1>0, <1>1, <2>1, <3>2, <3>3, <3>4, <3>6, StartUnique DEF Owned
  <2> QED BY <2>2, <2>3
<1>2. CASE Restart
  BY <1>2 DEF Restart, Owned
<1>3. CASE Calm
  <2> SUFFICES ASSUME sessions'[i] # NoSession PROVE Owned(i)'
    BY DEF Owned
  <2>1. /\ sessions[i] # NoSession /\ sessions[i] \in Session /\ Kept(i)
        /\ sessions'[i].owner = sessions[i].owner
    BY <1>0, <1>3 DEF Calm, Kept, TypeOK
  <2>2. sessions[i].owner \in Begun /\ sessions[i].frames \in Seq(Clients)
    BY <1>0, <2>1, SessionIs DEF Owned, Begun, Frames
  <2>3. cli'[sessions[i].owner] # "idle" /\ h'[sessions[i].owner] # "start"
    BY <1>3, <2>2 DEF Calm, Begun
  <2>4. \A k \in 1 .. Len(sessions'[i].frames) : sid[sessions'[i].frames[k]] = i
    <3>1. CASE sessions'[i].frames = sessions[i].frames
      BY <1>0, <2>1, <3>1 DEF Owned
    <3>2. ASSUME NEW c \in Clients, sid[c] = i, sessions'[i].frames = Append(sessions[i].frames, c)
          PROVE  \A k \in 1 .. Len(sessions'[i].frames) : sid[sessions'[i].frames[k]] = i
      BY <1>0, <2>1, <2>2, <3>2, AppendIs DEF Owned
    <3> QED BY <2>1, <3>1, <3>2 DEF Kept
  <2> QED BY <1>0, <1>3, <2>1, <2>3, <2>4 DEF Owned, Calm
<1> QED BY <1>1, <1>2, <1>3, CalmStep

\* Ids are kept, so clients that share one go on sharing it.
LEMMA CollidesStays ==
    ASSUME EnrollInv, [Next]_vars, NEW i \in Ids, Collides(i)
    PROVE  Collides(i)'
<1>0. i # 0
  BY Constant DEF Ids
<1>1. \A d \in Clients : sid[d] # 0 => sid'[d] = sid[d] /\ born'[d] = born[d]
  <2>1. ASSUME NEW c \in Clients, Start(c)
        PROVE  \A d \in Clients : sid[d] # 0 => sid'[d] = sid[d] /\ born'[d] = born[d]
    BY <2>1, StartUnique
  <2>2. CASE Restart \/ Calm
    BY <2>2 DEF Restart, Calm
  <2> QED BY <2>1, <2>2, CalmStep
<1> QED BY <1>0, <1>1 DEF Collides

LEMMA SharedCollides ==
    ASSUME EnrollInv, NEW c \in Clients, NEW d \in Clients, c # d, sid[c] = sid[d], sid[c] # 0
    PROVE  Collides(sid[c])
BY DEF EnrollInv, Unique, Collides

-----------------------------------------------------------------------------
(* The pointers. *)

\* The session may expire or be replaced by a younger one while the pointer is kept.
LEMMA PointerExpires ==
    ASSUME EnrollInv, [Next]_vars, NEW c \in Clients, Holding(c), sid'[c] = sid[c], held'[c] = held[c],
           \/ sessions'[sid[c]] = sessions[sid[c]]
           \/ sessions'[sid[c]] = Reaped[sid[c]]
           \/ sessions'[sid[c]] = NoSession /\ Reaped[sid[c]] = NoSession
           \/ sessions'[sid[c]] = NoSession /\ Collides(sid[c])
           \/ sessions'[sid[c]] # NoSession /\ sessions'[sid[c]].age = 0
           \/ sessions'[sid[c]] # NoSession /\ sessions[sid[c]] # NoSession
              /\ sessions'[sid[c]].age = sessions[sid[c]].age
    PROVE  Pointer(c)'
<1> DEFINE j == sid[c]
<1>0. TypeOK /\ Pointer(c) /\ j \in Ids /\ held[c] \in Nat
  BY IdIs, Constant DEF EnrollInv, TypeOK
<1>1. Collides(j) => Collides(j)'
  BY <1>0, CollidesStays
<1>2. sessions[j] # NoSession => sessions[j].age \in Nat /\ sessions[j].age <= held[c]
  BY <1>0, SessionIs, Constant DEF Pointer, TypeOK
<1>3. /\ Reaped[j] # NoSession => Reaped[j] = sessions[j]
      /\ sessions[j] # NoSession /\ Reaped[j] = NoSession => sessions[j].age > Ttl
  BY <1>0, ReapedIs
<1>4. sessions'[j] # NoSession => sessions'[j].age <= held[c]
  BY <1>0, <1>2, <1>3
<1>5. held[c] <= Ttl /\ ~Collides(j)' => sessions'[j] # NoSession
  BY <1>0, <1>1, <1>2, <1>3, Constant DEF Pointer
<1> QED BY <1>4, <1>5 DEF Pointer

LEMMA PointerStep ==
    ASSUME EnrollInv, [Next]_vars, NEW c \in Clients
    PROVE  Pointer(c)'
<1>0. TypeOK /\ \A d \in Clients : held[d] \in Nat
  BY Constant DEF EnrollInv, TypeOK
<1> SUFFICES ASSUME Holding(c)' PROVE Pointer(c)'
  BY DEF Pointer
<1>1. ASSUME NEW d \in Clients, Client(d) PROVE Pointer(c)'
  <2>1. Holding(c) /\ UNCHANGED <<sid, held, sessions>>
    BY <1>0, <1>1 DEF Client, Begin, PressEnter, Loop, GiveUp, Request, Holding, TypeOK
  <2> QED BY <2>1, PointerExpires
<1>2. ASSUME NEW d \in Clients, Start(d) PROVE Pointer(c)'
  <2>1. /\ h[d] = "start" /\ counter' \in Ids /\ sessions' = [Reaped EXCEPT ![counter'] = New(d)]
        /\ Answer(d, "prompt", FALSE) /\ held' = held
    BY <1>2, StartIs
  <2>2. c # d /\ Holding(c) /\ sid[c] \in Ids
    BY <1>0, <2>1, AnswerTypes, IdIs DEF Holding
  <2>3. sid'[c] = sid[c] /\ sid[c] # 0
    BY <1>2, <2>2, StartUnique, Constant DEF Ids
  <2>4. sessions'[sid[c]] = Reaped[sid[c]] \/ sessions'[sid[c]] = New(d)
    BY <1>0, <2>1, <2>2, ReapedIs
  <2>5. \/ sessions'[sid[c]] = Reaped[sid[c]]
        \/ sessions'[sid[c]] # NoSession /\ sessions'[sid[c]].age = 0
    BY <2>4, NewIs
  <2> QED BY <1>0, <2>1, <2>2, <2>3, <2>5, PointerExpires
<1>3. ASSUME NEW d \in Clients, Frame(d) \/ Finish(d) PROVE Pointer(c)'
  <2>1. /\ sid[d] \in Ids /\ sessions' = Touched(sid[d]) /\ held' = [held EXCEPT ![d] = 0] /\ sid' = sid
        /\ h[d] \in {"frame", "finish"}
    BY <1>3, FrameIs, FinishIs, IdIs
  <2>2. ASSUME NEW i \in Ids, sessions'[i] # NoSession, i = sid[d] PROVE sessions'[i].age = 0
    <3>1. sessions[i] \in Session /\ sessions'[i] = [sessions[i] EXCEPT !.age = 0] /\ 0 \in 0 .. Ttl + 1
      BY <1>0, <2>1, <2>2, TouchedIs, Constant DEF TypeOK
    <3> HIDE DEF Session
    <3> QED BY <3>1, SessionIs
  <2>3. CASE c = d
    <3>1. sessions'[sid[c]] # NoSession
      BY <1>0, <1>3, <2>3, FrameIs, FinishIs, AnswerTypes DEF Holding
    <3> QED BY <1>0, <2>1, <2>2, <2>3, <3>1 DEF Pointer, TypeOK
  <2>4. CASE c # d
    <3>1. Holding(c) /\ sid[c] \in Ids /\ held'[c] = held[c]
      <4>1. \/ \E next \in {"failed", "loop"}, finished \in BOOLEAN : Answer(d, next, finished)
            \/ \E where \in {"wait_mu", "save"} : HandlerGoto(d, where)
        BY <1>3, FrameIs, FinishIs
      <4>2. h'[c] = h[c]
        BY <1>0, <2>4, <4>1, AnswerTypes, GotoTypes
      <4>3. Holding(c)
        BY <1>0, <4>2 DEF Holding
      <4>4. held'[c] = held[c]
        BY <1>0, <2>1, <2>4 DEF TypeOK
      <4> QED BY <4>3, <4>4, IdIs
    <3>2. CASE sid[c] = sid[d]
      BY <1>0, <2>1, <2>2, <3>1, <3>2, TouchedIs, PointerExpires
    <3>3. CASE sid[c] # sid[d]
      BY <1>0, <2>1, <3>1, <3>3, TouchedIs, PointerExpires
    <3> QED BY <3>2, <3>3
  <2> QED BY <2>3, <2>4
<1>4. ASSUME NEW d \in Clients, Lock(d) \/ Save(d) PROVE Pointer(c)'
  <2>1. Holding(c) /\ UNCHANGED <<sid, held, sessions>>
    BY <1>0, <1>4, GotoTypes DEF Lock, Save, Holding
  <2> QED BY <2>1, PointerExpires
<1>5. ASSUME NEW d \in Clients, SaveThrows(d) \/ Dangling(d) \/ StartDenied(d) PROVE Pointer(c)'
  <2>1. Holding(c) /\ UNCHANGED <<sid, held, sessions>>
    BY <1>0, <1>5, AnswerTypes DEF SaveThrows, Dangling, StartDenied, Holding
  <2> QED BY <2>1, PointerExpires
<1>6. ASSUME NEW d \in Clients, Capture(d) PROVE Pointer(c)'
  <2>1. Holding(c) /\ UNCHANGED <<sid, held>>
    <3>1. \E finished \in BOOLEAN : Answer(d, "loop", finished)
      BY <1>6, CaptureAnswers
    <3> QED BY <1>0, <1>6, <3>1, AnswerTypes DEF Capture, Holding
  <2>2. CASE sessions' = sessions
    BY <2>1, <2>2, PointerExpires
  <2>3. CASE sessions' = [sessions EXCEPT ![sid[d]].frames = Append(@, d)]
    <3>1. sid[c] \in Ids /\ sid[d] \in Ids /\ sessions[sid[d]] \in Session
      BY <1>0, <1>6, <2>1, IdIs DEF Capture, Holding, TypeOK
    <3>2. sessions' = [sessions EXCEPT ![sid[d]] = [sessions[sid[d]] EXCEPT !.frames = Append(@, d)]]
      BY <1>0, <2>3, <3>1 DEF TypeOK
    <3>3. CASE sid[c] # sid[d]
      BY <1>0, <2>1, <3>1, <3>2, <3>3, PointerExpires DEF TypeOK
    <3>4. CASE sid[c] = sid[d]
      <4>1. /\ sessions'[sid[c]] # NoSession /\ sessions[sid[c]] # NoSession
            /\ sessions'[sid[c]].age = sessions[sid[c]].age
        <5>1. sessions'[sid[c]] = [sessions[sid[c]] EXCEPT !.frames = Append(@, d)]
          BY <1>0, <3>1, <3>2, <3>4 DEF TypeOK
        <5> QED BY <3>1, <3>4, <5>1, SessionIs
      <4> QED BY <2>1, <4>1, PointerExpires
    <3> QED BY <3>3, <3>4
  <2> QED BY <1>6, <2>2, <2>3 DEF Capture
<1>7. ASSUME NEW d \in Clients, Drop(d) PROVE Pointer(c)'
  <2>1. /\ Holding(c) /\ Holding(d) /\ c # d /\ UNCHANGED <<sid, held>>
        /\ sessions' = [sessions EXCEPT ![sid[d]] = NoSession]
    BY <1>0, <1>7, AnswerTypes DEF Drop, Holding
  <2>2. sid[c] \in Ids /\ sid[d] \in Ids /\ sid[c] # 0
    BY <2>1, IdIs, Constant DEF Ids
  <2>3. CASE sid[c] # sid[d]
    BY <1>0, <2>1, <2>2, <2>3, PointerExpires DEF TypeOK
  <2>4. CASE sid[c] = sid[d]
    <3>1. sessions'[sid[c]] = NoSession /\ Collides(sid[c])
      BY <1>0, <2>1, <2>2, <2>4, SharedCollides DEF TypeOK
    <3> QED BY <2>1, <3>1, PointerExpires
  <2> QED BY <2>3, <2>4
<1>8. CASE OtherRequest \/ UNCHANGED vars
  <2>1. Holding(c) /\ UNCHANGED <<sid, held, sessions>>
    BY <1>8 DEF OtherRequest, vars, Holding
  <2> QED BY <2>1, PointerExpires
<1>9. CASE Tick
  <2>1. /\ Holding(c) /\ sid' = sid /\ born' = born /\ h[c] # "none"
        /\ held'[c] = Older(held[c])
    BY <1>0, <1>9 DEF Tick, Holding, TypeOK
  <2>2. sid[c] \in Ids /\ Pointer(c)
    BY <2>1, IdIs DEF EnrollInv
  <2>3. Collides(sid[c])' = Collides(sid[c])
    BY <2>1 DEF Collides
  <2>4. CASE sessions[sid[c]] = NoSession
    <3>1. sessions'[sid[c]] = NoSession
      BY <1>9, <2>2, <2>4 DEF Tick
    <3> QED BY <1>0, <2>1, <2>2, <2>3, <2>4, <3>1, Constant DEF Pointer, Older
  <2>5. CASE sessions[sid[c]] # NoSession
    <3>1. /\ sessions[sid[c]] \in Session /\ sessions[sid[c]].age \in 0 .. Ttl + 1
          /\ sessions'[sid[c]] = [sessions[sid[c]] EXCEPT !.age = Older(@)]
      BY <1>0, <1>9, <2>2, <2>5, SessionIs DEF Tick, TypeOK
    <3>2. Older(sessions[sid[c]].age) \in 0 .. Ttl + 1
      BY <3>1, Constant DEF Older
    <3>3. sessions'[sid[c]] # NoSession /\ sessions'[sid[c]].age = Older(sessions[sid[c]].age)
      BY <3>1, <3>2, SessionIs
    <3>4. Older(sessions[sid[c]].age) <= Older(held[c])
      BY <1>0, <2>1, <2>2, <2>5, <3>1, Constant DEF Pointer, Older
    <3> QED BY <2>1, <3>3, <3>4 DEF Pointer
  <2> QED BY <2>4, <2>5
<1>10. CASE Restart
  BY <1>10 DEF Restart, Holding
<1> QED BY <1>1, <1>2, <1>3, <1>4, <1>5, <1>6, <1>7, <1>8, <1>9, <1>10 DEF Next, Handler

-----------------------------------------------------------------------------
(* The bound on the frames, and what the client is told of it. *)

\* A handler comes to wait for the mutex only when there was room.
LEMMA EntersWithRoom ==
    ASSUME EnrollInv, [Next]_vars, NEW c \in Clients, h'[c] \in {"wait_mu", "capture"}
    PROVE  \/ h[c] \in {"wait_mu", "capture"}
           \/ ~Full(sessions'[sid[c]]) /\ size' = size
<1>0. TypeOK
  BY DEF EnrollInv
<1>1. ASSUME NEW d \in Clients, Client(d) PROVE h[c] \in {"wait_mu", "capture"}
  BY <1>0, <1>1 DEF Client, Begin, PressEnter, Loop, GiveUp, Request, TypeOK
<1>2. ASSUME NEW d \in Clients, Start(d) PROVE h[c] \in {"wait_mu", "capture"}
  BY <1>0, <1>2, AnswerTypes DEF Start
<1>3. ASSUME NEW d \in Clients, StartDenied(d) \/ SaveThrows(d) \/ Drop(d) \/ Dangling(d)
      PROVE  h[c] \in {"wait_mu", "capture"}
  BY <1>0, <1>3, AnswerTypes DEF StartDenied, SaveThrows, Drop, Dangling
<1>4. ASSUME NEW d \in Clients, Frame(d)
      PROVE  h[c] \in {"wait_mu", "capture"} \/ (~Full(sessions'[sid[c]]) /\ size' = size)
  BY <1>0, <1>4, FrameIs, AnswerTypes, GotoTypes
<1>5. ASSUME NEW d \in Clients, Finish(d) PROVE h[c] \in {"wait_mu", "capture"}
  BY <1>0, <1>5, FinishIs, AnswerTypes, GotoTypes
<1>6. ASSUME NEW d \in Clients, Lock(d) \/ Save(d) PROVE h[c] \in {"wait_mu", "capture"}
  BY <1>0, <1>6, GotoTypes DEF Lock, Save
<1>7. ASSUME NEW d \in Clients, Capture(d) PROVE h[c] \in {"wait_mu", "capture"}
  <2>1. \E finished \in BOOLEAN : Answer(d, "loop", finished)
    BY <1>7, CaptureAnswers
  <2> QED BY <1>0, <2>1, AnswerTypes
<1>8. CASE OtherRequest \/ Tick \/ Restart \/ UNCHANGED vars
  BY <1>8 DEF OtherRequest, Tick, Restart, vars
<1> QED BY <1>1, <1>2, <1>3, <1>4, <1>5, <1>6, <1>7, <1>8 DEF Next, Handler

LEMMA RoomStep ==
    ASSUME EnrollInv, [Next]_vars, NEW i \in Ids
    PROVE  Room(i)'
<1>0. TypeOK /\ Room(i) /\ i # 0
  BY Constant DEF EnrollInv, Ids
<1> SUFFICES ASSUME sessions'[i] # NoSession, ~Collides(i)' PROVE Room(i)'
  BY DEF Room
<1>1. ~Collides(i)
  BY CollidesStays
<1>2. ASSUME NEW c \in Clients, Start(c) PROVE Room(i)'
  <2>0. /\ h[c] = "start" /\ counter' \in Ids /\ sessions' = [Reaped EXCEPT ![counter'] = New(c)]
        /\ Answer(c, "prompt", FALSE) /\ size' = size
    BY <1>2, StartIs
  <2>1. h'[c] = "none" /\ \A d \in Clients \ {c} : h'[d] = h[d]
    BY <1>0, <2>0, AnswerTypes
  <2>2. CASE i = counter'
    <3>1. /\ sessions'[i] = New(c) /\ sessions'[i].owner = c /\ Len(sessions'[i].frames) = 0
      BY <1>0, <2>0, <2>2, ReapedIs, NewIs
    <3>2. MaxFrames(size'[c]) \in Nat \ {0}
      BY <1>0, <2>0, MaxFramesIs DEF TypeOK
    <3> QED BY <3>1, <3>2 DEF Room, Full
  <2>3. CASE i # counter'
    <3>1. sessions'[i] = sessions[i] /\ sessions[i] # NoSession
      BY <1>0, <2>0, <2>3, ReapedIs
    <3>2. \A d \in Clients : sid'[d] = i => sid[d] = i /\ d # c
      BY <1>0, <1>2, <2>3, StartUnique
    <3> QED BY <1>0, <1>1, <2>0, <2>1, <3>1, <3>2 DEF Room, Full
  <2> QED BY <2>2, <2>3
<1>3. CASE Restart
  BY <1>3 DEF Restart
<1>4. CASE Calm
  <2>1. /\ sessions[i] # NoSession /\ sessions[i] \in Session /\ Kept(i)
        /\ sessions'[i].owner = sessions[i].owner /\ UNCHANGED <<sid, size>>
    BY <1>0, <1>4 DEF Calm, Kept, TypeOK
  <2>2. /\ sessions[i].owner \in Clients /\ sessions[i].frames \in Seq(Clients)
        /\ MaxFrames(size[sessions[i].owner]) \in Nat
    BY <1>0, <2>1, SessionIs, MaxFramesIs DEF Frames, TypeOK
  <2>3. CASE sessions'[i].frames = sessions[i].frames
    <3>1. Full(sessions'[i]) = Full(sessions[i])
      BY <2>1, <2>3 DEF Full
    <3>2. ASSUME NEW c \in Clients, sid[c] = i, h'[c] \in {"wait_mu", "capture"}
          PROVE  ~Full(sessions'[i])
      BY <1>0, <1>1, <2>1, <3>1, <3>2, EntersWithRoom DEF Room
    <3> QED BY <1>0, <1>1, <2>1, <2>3, <3>2 DEF Room, Full
  <2>4. ASSUME NEW c \in Clients, sid[c] = i, h[c] = "capture", h'[c] = "none",
               sessions'[i].frames = Append(sessions[i].frames, c)
        PROVE  Room(i)'
    <3>1. Len(sessions[i].frames) < MaxFrames(size[sessions[i].owner])
      BY <1>0, <1>1, <2>1, <2>2, <2>4, AppendIs DEF Room, Full
    <3>2. Len(sessions'[i].frames) <= MaxFrames(size'[sessions'[i].owner])
      BY <2>1, <2>2, <2>4, <3>1, AppendIs
    <3>3. \A d \in Clients : sid[d] = i => d = c
      BY <1>0, <1>1, <2>4, SharedCollides
    <3> QED BY <2>1, <2>4, <3>2, <3>3 DEF Room
  <2> QED BY <2>1, <2>3, <2>4 DEF Kept
<1> QED BY <1>2, <1>3, <1>4, CalmStep

\* done is said only of a full session.
LEMMA ToldWhenFull ==
    ASSUME EnrollInv, [Next]_vars, NEW c \in Clients, done'[c]
    PROVE  done[c] \/ Full(sessions'[sid[c]])
<1>0. TypeOK
  BY DEF EnrollInv
<1>1. ASSUME NEW d \in Clients, Client(d) PROVE done[c]
  BY <1>1 DEF Client, Begin, PressEnter, Loop, GiveUp, Request
<1>2. ASSUME NEW d \in Clients, Start(d) \/ StartDenied(d) \/ SaveThrows(d) \/ Drop(d) \/ Dangling(d)
      PROVE  done[c]
  BY <1>0, <1>2, AnswerTypes DEF Start, StartDenied, SaveThrows, Drop, Dangling
<1>3. ASSUME NEW d \in Clients, Frame(d) PROVE done[c] \/ Full(sessions'[sid[c]])
  BY <1>0, <1>3, FrameIs, AnswerTypes, GotoTypes
<1>4. ASSUME NEW d \in Clients, Finish(d) PROVE done[c]
  BY <1>0, <1>4, FinishIs, AnswerTypes, GotoTypes
<1>5. ASSUME NEW d \in Clients, Lock(d) \/ Save(d) PROVE done[c]
  BY <1>0, <1>5, GotoTypes DEF Lock, Save
<1>6. ASSUME NEW d \in Clients, Capture(d) PROVE done[c] \/ Full(sessions'[sid[c]])
  <2>1. CASE Answer(d, "loop", FALSE)
    BY <1>0, <2>1, AnswerTypes
  <2>2. CASE Answer(d, "loop", Full(sessions'[sid[d]]))
    <3>1. Full(sessions'[sid[d]]) \in BOOLEAN
      BY DEF Full
    <3> QED BY <1>0, <2>2, <3>1, AnswerTypes
  <2> QED BY <1>6, <2>1, <2>2 DEF Capture
<1>7. CASE OtherRequest \/ Tick \/ Restart \/ UNCHANGED vars
  BY <1>7 DEF OtherRequest, Tick, Restart, vars
<1> QED BY <1>1, <1>2, <1>3, <1>4, <1>5, <1>6, <1>7 DEF Next, Handler

\* What is saved for a client that was told done is all it asked for.
LEMMA FullIsEnough ==
    ASSUME EnrollInv, NEW c \in Clients, NEW d \in Clients,
           sid[d] \in Ids, sessions[sid[d]] # NoSession, sessions[sid[d]].owner = c,
           sid[c] # 0, done[c]
    PROVE  /\ born[c] = epoch
           /\ sessions[sid[d]].frames # NoFile
           /\ Len(sessions[sid[d]].frames) >= size[c]
<1>0. TypeOK /\ Owned(sid[d]) /\ Done(c)
  BY DEF EnrollInv
<1>1. born[c] = epoch /\ sid[c] = sid[d]
  BY <1>0 DEF Owned
<1>2. Full(sessions[sid[d]])
  BY <1>0, <1>1 DEF Done
<1>3. /\ sessions[sid[d]] \in Session /\ sessions[sid[d]].frames \in Frames
      /\ Len(sessions[sid[d]].frames) \in Nat
  BY <1>0, SessionIs DEF TypeOK
<1>4. size[c] \in Nat /\ MaxFrames(size[c]) \in Nat /\ size[c] <= MaxFrames(size[c])
  BY <1>0, MaxFramesIs DEF TypeOK
<1> QED BY <1>1, <1>2, <1>3, <1>4, EnrollAssumption DEF Full, EnrollAssumption

\* A full session stays full for the client that was told done.
LEMMA DoneStays ==
    ASSUME EnrollInv, [Next]_vars, NEW c \in Clients,
           done'[c], sid'[c] # 0, born'[c] = epoch', sessions'[sid'[c]] # NoSession
    PROVE  Full(sessions[sid[c]])'
<1>0. TypeOK /\ Unique /\ Done(c) /\ sid[c] \in Ids \cup {0}
  BY DEF EnrollInv, TypeOK
<1>1. CASE Restart
  <2>1. sid'[c] \in Ids
    BY <1>0, <1>1 DEF Restart
  <2> QED BY <1>1, <2>1 DEF Restart
<1>2. ASSUME NEW d \in Clients, Start(d) PROVE Full(sessions[sid[c]])'
  <2>1. /\ counter' = counter + 1 /\ counter' \in Ids /\ sessions' = [Reaped EXCEPT ![counter'] = New(d)]
        /\ sid' = [sid EXCEPT ![d] = IF Awaits(d) THEN counter' ELSE @] /\ sid[d] = 0
        /\ Answer(d, "prompt", FALSE) /\ size' = size
    BY <1>2, StartIs
  <2>2. c # d
    <3>1. ASSUME c = d PROVE FALSE
      <4>1. Awaits(d) => ~done'[d]
        BY <1>0, <2>1, AnswerTypes
      <4>2. sid'[d] = IF Awaits(d) THEN counter' ELSE sid[d]
        BY <1>0, <2>1 DEF TypeOK
      <4> QED BY <2>1, <3>1, <4>1, <4>2
    <3> QED BY <3>1
  <2>3. /\ sid'[c] = sid[c] /\ born'[c] = born[c] /\ epoch' = epoch /\ counter \in Nat
    BY <1>2, <2>2, StartUnique
  <2>4. sid[c] \in Ids /\ sid[c] <= counter /\ sid[c] # counter'
    <3>1. sid[c] # 0 /\ born[c] = epoch
      BY <2>3
    <3>2. sid[c] \in Ids /\ sid[c] <= counter
      BY <1>0, <3>1 DEF Unique
    <3> QED BY <2>1, <2>3, <3>2, Constant DEF Ids
  <2>5. sessions'[sid[c]] = sessions[sid[c]] /\ sessions[sid[c]] # NoSession
    BY <1>0, <2>1, <2>3, <2>4, ReapedIs
  <2>6. done[c]
    BY <1>0, <2>1, <2>2, AnswerTypes
  <2>7. Full(sessions[sid[c]])
    BY <1>0, <2>3, <2>5, <2>6 DEF Done
  <2> QED BY <2>1, <2>3, <2>5, <2>7 DEF Full
<1>3. CASE Calm
  <2>1. /\ UNCHANGED <<sid, born, epoch, size>> /\ sid[c] \in Ids /\ Kept(sid[c])
    BY <1>0, <1>3 DEF Calm
  <2>2. CASE Full(sessions'[sid[c]])
    BY <2>1, <2>2 DEF Full
  <2>3. CASE ~Full(sessions'[sid[c]])
    <3>1. done[c]
      BY <2>3, ToldWhenFull
    <3>2. /\ sessions[sid[c]] # NoSession /\ sessions'[sid[c]].owner = sessions[sid[c]].owner
          /\ Full(sessions[sid[c]])
      BY <1>0, <2>1, <3>1 DEF Done, Kept
    <3>3. /\ sessions[sid[c]].frames \in Seq(Clients)
          /\ MaxFrames(size[sessions[sid[c]].owner]) \in Nat
      BY <1>0, <2>1, <3>2, SessionIs, MaxFramesIs DEF Frames, TypeOK
    <3>4. Len(sessions'[sid[c]].frames) >= Len(sessions[sid[c]].frames)
      BY <2>1, <3>2, <3>3, AppendIs DEF Kept
    <3>5. Len(sessions'[sid[c]].frames) \in Nat
      BY <2>1, <3>2, <3>3, AppendIs DEF Kept
    <3> QED BY <2>1, <2>3, <3>2, <3>3, <3>4, <3>5, AppendIs DEF Full
  <2> QED BY <2>2, <2>3
<1> QED BY <1>1, <1>2, <1>3, CalmStep

\* Only Save writes the file of a client, and only it comes before drop.
LEMMA SavesOnly ==
    ASSUME EnrollInv, [Next]_vars, NEW c \in Clients, ~(\E d \in Clients : Save(d))
    PROVE  /\ saved' = saved /\ (h'[c] = "drop" => h[c] = "drop")
           /\ h'[c] = "save" => h[c] = "save" \/ Finish(c)
<1> DEFINE Goal == /\ saved' = saved /\ (h'[c] = "drop" => h[c] = "drop")
                   /\ h'[c] = "save" => h[c] = "save" \/ Finish(c)
<1>0. TypeOK
  BY DEF EnrollInv
<1>1. ASSUME NEW d \in Clients, Client(d) PROVE Goal
  BY <1>0, <1>1 DEF Client, Begin, PressEnter, Loop, GiveUp, Request, TypeOK
<1>2. ASSUME NEW d \in Clients, Start(d) \/ StartDenied(d) \/ SaveThrows(d) \/ Drop(d) \/ Dangling(d)
      PROVE  Goal
  BY <1>0, <1>2, AnswerTypes DEF Start, StartDenied, SaveThrows, Drop, Dangling
<1>3. ASSUME NEW d \in Clients, Frame(d) PROVE Goal
  BY <1>0, <1>3, FrameIs, AnswerTypes, GotoTypes
<1>4. ASSUME NEW d \in Clients, Finish(d) PROVE Goal
  <2>1. \/ Answer(d, "failed", FALSE)
        \/ HandlerGoto(d, "save")
    BY <1>4, FinishIs
  <2>2. saved' = saved
    BY <1>4, FinishIs
  <2>3. \A e \in Clients \ {d} : h'[e] = h[e]
    BY <1>0, <2>1, AnswerTypes, GotoTypes
  <2>4. h'[d] # "drop"
    BY <1>0, <2>1, AnswerTypes, GotoTypes
  <2> QED BY <1>4, <2>2, <2>3, <2>4
<1>5. ASSUME NEW d \in Clients, Lock(d) PROVE Goal
  BY <1>0, <1>5, GotoTypes DEF Lock
<1>6. ASSUME NEW d \in Clients, Capture(d) PROVE Goal
  <2>1. \E finished \in BOOLEAN : Answer(d, "loop", finished)
    BY <1>6, CaptureAnswers
  <2> QED BY <1>0, <1>6, <2>1, AnswerTypes DEF Capture
<1>7. CASE OtherRequest \/ Tick \/ Restart \/ UNCHANGED vars
  BY <1>7 DEF OtherRequest, Tick, Restart, vars
<1> QED BY <1>1, <1>2, <1>3, <1>4, <1>5, <1>6, <1>7 DEF Next, Handler

LEMMA DoneStep ==
    ASSUME EnrollInv, [Next]_vars, NEW c \in Clients
    PROVE  Done(c)'
<1>0. TypeOK /\ Done(c) /\ Asked(c)
  BY DEF EnrollInv
<1>1. done'[c] /\ sid'[c] # 0 /\ born'[c] = epoch' /\ sessions'[sid'[c]] # NoSession
      => Full(sessions[sid[c]])'
  BY DoneStays
<1>2. ASSUME h'[c] = "drop", born'[c] = epoch' PROVE Holds(c, size[c])'
  <2>1. ASSUME NEW d \in Clients, Save(d) PROVE Holds(c, size[c])'
    <3>0. PICK file \in {sessions[sid[d]].frames, Torn} :
             saved' = [saved EXCEPT ![sessions[sid[d]].owner] = file]
      BY <2>1 DEF Save
    <3>1. /\ h[d] = "save" /\ sessions[sid[d]] # NoSession /\ sid[d] \in Ids
          /\ HandlerGoto(d, "drop") /\ UNCHANGED <<size, epoch, born>>
      BY <2>1, IdIs DEF Save, Holding
    <3>2. h[c] = "drop" \/ c = d
      BY <1>0, <1>2, <3>1, GotoTypes
    <3>3. done[c] /\ sid[c] # 0
      BY <1>0, <3>1, <3>2 DEF Asked, Holding
    <3>4. CASE sessions[sid[d]].owner = c
      <4>1. saved'[c] = file
        BY <1>0, <3>0, <3>4 DEF TypeOK
      <4>2. sessions[sid[d]].frames # NoFile /\ Len(sessions[sid[d]].frames) >= size[c]
        BY <3>1, <3>3, <3>4, FullIsEnough
      <4> QED BY <3>0, <3>1, <4>1, <4>2 DEF Holds
    <3>5. CASE sessions[sid[d]].owner # c
      <4>1. c # d
        BY <1>2, <3>1, <3>5 DEF EnrollInv, Owned
      <4>2. sessions[sid[d]].owner \in Clients
        BY <1>0, <3>1, SessionIs DEF TypeOK
      <4>3. saved'[c] = saved[c]
        BY <1>0, <3>0, <3>5, <4>2 DEF TypeOK
      <4> QED BY <1>0, <1>2, <3>1, <3>2, <4>1, <4>3 DEF Done, Holds
    <3> QED BY <3>4, <3>5
  <2>2. CASE ~(\E d \in Clients : Save(d))
    <3>1. saved' = saved /\ h[c] = "drop"
      BY <1>2, <2>2, SavesOnly
    <3>2. sid[c] # 0 /\ h[c] # "start"
      BY <1>0, <3>1 DEF Asked, Holding
    <3>3. born[c] = epoch /\ size' = size
      <4>1. CASE Restart
        BY <1>2, <4>1 DEF Restart
      <4>2. ASSUME NEW d \in Clients, Start(d) PROVE born[c] = epoch /\ size' = size
        BY <1>2, <3>2, <4>2, StartUnique, StartIs
      <4>3. CASE Calm
        BY <1>2, <4>3 DEF Calm
      <4> QED BY <4>1, <4>2, <4>3, CalmStep
    <3> QED BY <1>0, <3>1, <3>3 DEF Done, Holds
  <2> QED BY <2>1, <2>2
<1> QED BY <1>1, <1>2 DEF Done

\* A session that a step leaves there keeps at least the frames it had.
LEMMA NeverFewer ==
    ASSUME EnrollInv, Calm, NEW i \in Ids, sessions'[i] # NoSession
    PROVE  /\ sessions[i] # NoSession /\ sessions'[i].owner = sessions[i].owner
           /\ sessions[i].owner \in Clients
           /\ Len(sessions[i].frames) \in Nat /\ Len(sessions'[i].frames) \in Nat
           /\ Len(sessions'[i].frames) >= Len(sessions[i].frames)
<1>1. Kept(i) /\ TypeOK
  BY DEF Calm, EnrollInv
<1>2. sessions[i] # NoSession /\ sessions'[i].owner = sessions[i].owner /\ sessions[i] \in Session
  BY <1>1 DEF Kept, TypeOK
<1>3. sessions[i].frames \in Seq(Clients) /\ sessions[i].owner \in Clients
  BY <1>2, SessionIs DEF Frames
<1>4. sessions'[i].frames = sessions[i].frames
      \/ \E c \in Clients : sessions'[i].frames = Append(sessions[i].frames, c)
  BY <1>1 DEF Kept
<1> QED BY <1>2, <1>3, <1>4, AppendIs

LEMMA EnoughStep ==
    ASSUME EnrollInv, [Next]_vars, NEW c \in Clients
    PROVE  Enough(c)'
<1>0. TypeOK /\ Enough(c) /\ \A d \in Clients : Enough(d)
  BY DEF EnrollInv
<1> SUFFICES ASSUME h'[c] \in {"save", "drop"} PROVE Enough(c)'
  BY DEF Enough
<1>1. CASE Restart
  BY <1>1 DEF Restart
<1>2. ASSUME NEW d \in Clients, Start(d) PROVE Enough(c)'
  <2>1. /\ counter' = counter + 1 /\ counter' \in Ids /\ sessions' = [Reaped EXCEPT ![counter'] = New(d)]
        /\ Answer(d, "prompt", FALSE) /\ size' = size /\ saved' = saved
    BY <1>2, StartIs
  <2>2. c # d /\ h'[c] = h[c]
    BY <1>0, <2>1, AnswerTypes
  <2>3. sid'[c] = sid[c] /\ counter \in Nat
    BY <1>2, <2>2, StartUnique
  <2>4. sid[c] \in Ids /\ sid[c] <= counter
    BY <1>0, <2>2, IdIs DEF Enough, Holding
  <2>5. sid[c] # counter' /\ sid[c] <= counter'
    BY <2>1, <2>3, <2>4 DEF Ids
  <2>6. sessions'[sid[c]] # NoSession => sessions'[sid[c]] = sessions[sid[c]]
    BY <1>0, <2>1, <2>4, <2>5, ReapedIs
  <2> QED BY <1>0, <2>1, <2>2, <2>3, <2>5, <2>6 DEF Enough, Holds
<1>3. CASE Calm
  <2>1. UNCHANGED <<sid, counter, size>> /\ sid[c] \in Ids \cup {0}
    BY <1>0, <1>3 DEF Calm, TypeOK
  <2>2. ASSUME NEW d \in Clients, Save(d) PROVE Enough(c)'
    <3>0. PICK file \in {sessions[sid[d]].frames, Torn} :
             saved' = [saved EXCEPT ![sessions[sid[d]].owner] = file]
      BY <2>2 DEF Save
    <3>1. /\ h[d] = "save" /\ sessions[sid[d]] # NoSession /\ sid[d] \in Ids
          /\ HandlerGoto(d, "drop") /\ sessions' = sessions
      BY <2>2, IdIs DEF Save, Holding
    <3>2. (h[c] = "save" /\ c = d) \/ h[c] = h'[c]
      BY <1>0, <3>1, GotoTypes
    <3>3. sid'[c] <= counter'
      BY <1>0, <2>1, <3>2 DEF Enough
    <3>4. ASSUME sessions'[sid'[c]] # NoSession
          PROVE  LET s == sessions[sid[c]]
                 IN /\ Len(s.frames) >= MinFrames(size[s.owner])
                    /\ h'[c] = "drop" => Holds(s.owner, MinFrames(size[s.owner]))'
      <4>1. sid[c] \in Ids /\ sessions[sid[c]] \in Session /\ sessions[sid[c]].owner \in Clients
        <5>1. sid[c] \in Ids
          BY <3>2, IdIs DEF Holding
        <5> QED BY <1>0, <2>1, <3>1, <3>4, <5>1, SessionIs DEF TypeOK
      <4>2. Len(sessions[sid[c]].frames) >= MinFrames(size[sessions[sid[c]].owner])
        BY <1>0, <2>1, <3>1, <3>2, <3>4 DEF Enough
      <4>3. /\ sessions[sid[d]] \in Session /\ sessions[sid[d]].owner \in Clients
            /\ sessions[sid[d]].frames # NoFile
            /\ Len(sessions[sid[d]].frames) >= MinFrames(size[sessions[sid[d]].owner])
        <5>1. sessions[sid[d]] \in Session /\ sessions[sid[d]].owner \in Clients
          BY <1>0, <3>1, SessionIs DEF TypeOK
        <5>2. Len(sessions[sid[d]].frames) >= MinFrames(size[sessions[sid[d]].owner])
          BY <1>0, <3>1 DEF Enough
        <5>3. sessions[sid[d]].frames # NoFile
          BY <5>1, EnrollAssumption DEF Session
        <5> QED BY <5>1, <5>2, <5>3
      <4>4. CASE sessions[sid[c]].owner = sessions[sid[d]].owner
        <5>1. saved'[sessions[sid[c]].owner] = file
          BY <1>0, <3>0, <4>1, <4>4 DEF TypeOK
        <5> QED BY <2>1, <3>0, <3>1, <4>2, <4>3, <4>4, <5>1 DEF Holds
      <4>5. CASE sessions[sid[c]].owner # sessions[sid[d]].owner
        <5>1. saved'[sessions[sid[c]].owner] = saved[sessions[sid[c]].owner] /\ c # d
          BY <1>0, <3>0, <4>1, <4>3, <4>5 DEF TypeOK
        <5>2. h'[c] = "drop" => Holds(sessions[sid[c]].owner, MinFrames(size[sessions[sid[c]].owner]))
          BY <1>0, <2>1, <3>1, <3>2, <3>4, <5>1 DEF Enough
        <5> QED BY <2>1, <3>1, <4>2, <5>1, <5>2 DEF Holds
      <4> QED BY <4>4, <4>5
    <3> QED BY <2>1, <3>1, <3>3, <3>4 DEF Enough
  <2>3. CASE ~(\E d \in Clients : Save(d))
    <3>1. /\ saved' = saved /\ (h'[c] = "drop" => h[c] = "drop")
          /\ h'[c] = "save" => h[c] = "save" \/ Finish(c)
      BY <2>3, SavesOnly
    <3>2. CASE h[c] = h'[c]
      <4>1. sid[c] \in Ids
        BY <3>2, IdIs DEF Holding
      <4>2. CASE sessions'[sid[c]] # NoSession
        <5>1. /\ sessions[sid[c]] # NoSession /\ sessions'[sid[c]].owner = sessions[sid[c]].owner
              /\ sessions[sid[c]].owner \in Clients
              /\ Len(sessions[sid[c]].frames) \in Nat /\ Len(sessions'[sid[c]].frames) \in Nat
              /\ Len(sessions'[sid[c]].frames) >= Len(sessions[sid[c]].frames)
          BY <1>3, <4>1, <4>2, NeverFewer
        <5>2. /\ Len(sessions[sid[c]].frames) >= MinFrames(size[sessions[sid[c]].owner])
              /\ h[c] = "drop" => Holds(sessions[sid[c]].owner, MinFrames(size[sessions[sid[c]].owner]))
              /\ MinFrames(size[sessions[sid[c]].owner]) \in Nat
          BY <1>0, <3>2, <5>1, MinFramesIs DEF Enough, TypeOK
        <5>3. Len(sessions'[sid[c]].frames) >= MinFrames(size[sessions[sid[c]].owner])
          BY <5>1, <5>2
        <5> QED BY <1>0, <2>1, <3>1, <3>2, <5>1, <5>2, <5>3 DEF Enough, Holds
      <4>3. CASE sessions'[sid[c]] = NoSession
        BY <1>0, <2>1, <3>2, <4>3 DEF Enough
      <4> QED BY <4>2, <4>3
    <3>3. CASE Finish(c) /\ h'[c] = "save"
      <4>1. /\ h[c] = "finish" /\ sid[c] \in Ids /\ sessions'[sid[c]] # NoSession
            /\ ~(Len(sessions'[sid[c]].frames) < MinFrames(size[sessions'[sid[c]].owner]))
        BY <1>0, <3>3, FinishIs, IdIs, AnswerTypes
      <4>2. /\ sessions[sid[c]] # NoSession /\ sessions'[sid[c]].owner = sessions[sid[c]].owner
            /\ sessions[sid[c]].owner \in Clients /\ Len(sessions'[sid[c]].frames) \in Nat
        BY <1>3, <4>1, NeverFewer
      <4>3. sid[c] <= counter
        BY <4>1, <4>2 DEF EnrollInv, Owned
      <4>4. MinFrames(size[sessions[sid[c]].owner]) \in Nat
        BY <1>0, <4>2, MinFramesIs DEF TypeOK
      <4> QED BY <2>1, <3>3, <4>1, <4>2, <4>3, <4>4 DEF Enough
    <3> QED BY <3>1, <3>2, <3>3
  <2> QED BY <2>2, <2>3
<1> QED BY <1>1, <1>2, <1>3, CalmStep

-----------------------------------------------------------------------------
(* The theorems. *)

LEMMA EnrollInit == Init => EnrollInv
<1> SUFFICES ASSUME Init PROVE EnrollInv
  OBVIOUS
<1>1. TypeOK
  BY Constant DEF Init, TypeOK
<1>2. \A c \in Clients : Asked(c) /\ Pointer(c) /\ Done(c) /\ Enough(c)
  BY DEF Init, Asked, Pointer, Done, Enough, Holding
<1>3. \A i \in Ids : Owned(i) /\ Room(i)
  BY DEF Init, Owned, Room
<1>4. Unique
  <2>1. IsFiniteSet(Begun)
    BY Constant, FS_Subset DEF Begun
  <2>2. Cardinality(Begun) \in Nat
    BY <2>1, FS_CardinalityType
  <2> QED BY <2>2 DEF Init, Unique
<1> QED BY <1>1, <1>2, <1>3, <1>4 DEF EnrollInv

LEMMA EnrollInvAlways == Spec => []EnrollInv
<1>1. EnrollInv /\ [Next]_vars => EnrollInv'
  BY TypeStep, AskedStep, UniqueStep, OwnedStep, PointerStep, RoomStep, DoneStep, EnoughStep DEF EnrollInv
<1> QED BY <1>1, EnrollInit, PTL DEF Spec

\* The type invariant; with it, the counter of the sessions never passes the number of
\* clients, so that no session is put beyond the ids.
THEOREM EnrollTypeCorrect == Spec => []TypeOK
<1>1. EnrollInv => TypeOK
  BY DEF EnrollInv
<1> QED BY <1>1, EnrollInvAlways, PTL

\* The pointer of get() is good for as long as a session lives, whatever the other
\* handlers create, reap and drop meanwhile.
THEOREM PointersValid == Spec => []PointerValid
<1>1. EnrollInv => PointerValid
  BY DEF EnrollInv, Pointer, Holding, PointerValid
<1> QED BY <1>1, EnrollInvAlways, PTL

\* No session is given more embeddings than were asked for, although the check and the
\* addition are on two sides of a wait.
THEOREM FramesBounded == Spec => []FrameBound
<1>1. EnrollInv => FrameBound
  BY DEF EnrollInv, Room, FrameBound
<1> QED BY <1>1, EnrollInvAlways, PTL

\* An embedding of another client comes only from one whose id is older than the daemon.
THEOREM FramesAlwaysBelong == Spec => []FramesBelong
<1>1. ASSUME EnrollInv PROVE FramesBelong
  <2> SUFFICES ASSUME NEW i \in Ids, sessions[i] # NoSession,
                      NEW k \in 1 .. Len(sessions[i].frames),
                      sessions[i].frames[k] # sessions[i].owner
               PROVE  born[sessions[i].frames[k]] < epoch
    BY DEF FramesBelong
  <2>1. TypeOK /\ Owned(i) /\ Unique
    BY <1>1 DEF EnrollInv
  <2>2. sessions[i].frames \in Seq(Clients)
    BY <2>1, SessionIs DEF TypeOK, Frames
  <2>3. sessions[i].frames[k] \in Clients
    BY <2>2
  <2>4. /\ born[sessions[i].frames[k]] # epoch /\ born[sessions[i].frames[k]] <= epoch
        /\ born[sessions[i].frames[k]] \in Nat /\ epoch \in Nat
    BY <2>1, <2>3, Constant DEF Owned, Unique, TypeOK
  <2> QED BY <2>4
<1> QED BY <1>1, EnrollInvAlways, PTL

\* When the CLI reports success, a file with enough embeddings was put under the label it
\* reports, and under its own label with all it asked for when the session is its own.
THEOREM OkAlwaysSaved == Spec => OkMeansSaved
<1> DEFINE Reported(c) ==
              LET label == sessions[sid[c]].owner
              IN /\ Holds(label, MinFrames(size[label]))
                 /\ born[c] = epoch => label = c /\ Holds(c, size[c])
<1>1. ASSUME EnrollInv, [Next]_vars, NEW c \in Clients, cli'[c] = "ok", cli[c] # "ok"
      PROVE  Reported(c)
  <2>0. TypeOK /\ Done(c) /\ Enough(c)
    BY <1>1 DEF EnrollInv
  <2>1. ASSUME NEW d \in Clients, Client(d) PROVE FALSE
    BY <1>1, <2>0, <2>1 DEF Client, Begin, PressEnter, Loop, GiveUp, Request, TypeOK
  <2>2. ASSUME NEW d \in Clients, Start(d) \/ StartDenied(d) \/ SaveThrows(d) \/ Dangling(d) PROVE FALSE
    BY <1>1, <2>0, <2>2, AnswerTypes DEF Start, StartDenied, SaveThrows, Dangling
  <2>3. ASSUME NEW d \in Clients, Frame(d) \/ Finish(d) PROVE FALSE
    BY <1>1, <2>0, <2>3, FrameIs, FinishIs, AnswerTypes, GotoTypes
  <2>4. ASSUME NEW d \in Clients, Lock(d) \/ Save(d) PROVE FALSE
    BY <1>1, <2>4 DEF Lock, Save, HandlerGoto
  <2>5. ASSUME NEW d \in Clients, Capture(d) PROVE FALSE
    <3>1. \E finished \in BOOLEAN : Answer(d, "loop", finished)
      BY <2>5, CaptureAnswers
    <3> QED BY <1>1, <2>0, <3>1, AnswerTypes
  <2>6. ASSUME OtherRequest \/ Tick \/ Restart \/ UNCHANGED vars PROVE FALSE
    BY <1>1, <2>0, <2>6 DEF OtherRequest, Tick, Restart, vars, TypeOK
  <2>7. ASSUME NEW d \in Clients, Drop(d) PROVE Reported(c)
    <3>1. d = c /\ h[c] = "drop" /\ sessions[sid[c]] # NoSession /\ sid[c] \in Ids
      BY <1>1, <2>0, <2>7, AnswerTypes, IdIs DEF Drop, Holding
    <3>2. Owned(sid[c])
      BY <1>1, <3>1 DEF EnrollInv
    <3> QED BY <2>0, <3>1, <3>2 DEF Done, Enough, Owned
  <2> QED BY <1>1, <2>1, <2>2, <2>3, <2>4, <2>5, <2>6, <2>7 DEF Next, Handler
<1>2. EnrollInv /\ [Next]_vars =>
        [\A c \in Clients : cli'[c] = "ok" /\ cli[c] # "ok" => Reported(c)]_vars
  BY <1>1
<1> QED BY <1>2, EnrollInvAlways, PTL DEF Spec, OkMeansSaved
=============================================================================
