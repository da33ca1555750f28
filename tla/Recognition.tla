----------------------------- MODULE Recognition -----------------------------
(***************************************************************************)
(* What the camera shows and what the daemon makes of it: enrollment of    *)
(* faces, the threshold of a credential, and the answers of handle_auth    *)
(* and handle_test, for one user.  Requests come one at a time here, as    *)
(* the pipeline mutex makes them do for everything that captures; what     *)
(* concurrent saves and removes do to the store is EnrollmentStore's.      *)
(*                                                                         *)
(* Similarities, scores and thresholds are in per cent.  An embedding is a *)
(* record of a face and the model that embedded it; a scene is a record    *)
(* [bright, faces], and its candidates have a face and a sharpness too.    *)
(* The daemon restarts with other models and settings in between.          *)
(***************************************************************************)
EXTENDS Nms

CONSTANTS
    Labels,       \* the labels of the user's credentials
    Models,       \* embedder models
    BuiltIn,      \* the one AppConfig names
    ModelId,      \* simple_model_id of each
    Faces,        \* what can be in front of the camera
    Sim,          \* Sim[f][g]: cosine of the embeddings of two faces
    Scenes,       \* what the camera can show
    Files,        \* configuration files: partial functions from Keys
    MinFrames, MaxFrames,   \* of an enroll_start request
    None

\* A broken model or picture embeds as the zero vector (l2_normalize).
Blank == { f \in Faces : Sim[f][f] = 0 }

ASSUME RecognitionAssumption ==
    /\ ModelId \in [Models -> Nat]
    /\ \A m, n \in Models : ModelId[m] = ModelId[n] => m = n
    /\ Sim \in [Faces -> [Faces -> -100 .. 100]]
    /\ \A f, g \in Faces : Sim[f][g] = Sim[g][f]
    /\ \A f \in Faces : IF f \in Blank THEN \A g \in Faces : Sim[f][g] = 0
                                       ELSE Sim[f][f] = 100
    /\ \A s \in Scenes : s.faces \subseteq Candidates
    /\ \A c \in Candidates : c.face \in Faces
    /\ MinFrames \in Nat \ {0} /\ MaxFrames \in Nat /\ MaxFrames > MinFrames
    /\ BuiltIn \in Models
    /\ \A file \in Files : "embedder_model" \in DOMAIN file
                             => file["embedder_model"] \in Models \cup {None}
    /\ None \notin Labels \cup Models

VARIABLES
    cfg,             \* PipelineConfig
    stored,          \* label -> its enrollment file or None
    session,         \* the enrollment session or None
    stage,           \* of the daemon: down, idle, frame, nms, reply
    req,             \* the request that is being handled
    faces_seen, captures_seen,   \* whether the counters are > 0
    best,            \* best_sim_overall and best_label
    answer,          \* the response or None
    seen             \* history: the faces judged for this request

vars == <<cfg, stored, session, stage, req, faces_seen, captures_seen, best, answer, seen,
          dets, at, keep, dropped>>

-----------------------------------------------------------------------------
(* Configuration *)

Default == [dark_threshold |-> 25, detector_conf_threshold |-> 50, enroll_quality_min |-> 10,
            similarity_floor |-> 40, height |-> 360, embedder_model |-> BuiltIn]

\* A key that is absent, or whose value has the wrong type (None), keeps its default.
load(file) == [k \in DOMAIN Default |->
                 IF k \in DOMAIN file /\ file[k] # None THEN file[k] ELSE Default[k]]

\* What main makes of the file and of --embedder (None: not given).
Settings(file, option) ==
    IF option = None THEN load(file) ELSE [load(file) EXCEPT !.embedder_model = option]

-----------------------------------------------------------------------------
(* Embeddings and thresholds *)

Greatest(S) == CHOOSE x \in S : \A y \in S : x >= y

Least(S) == CHOOSE x \in S : \A y \in S : x <= y

cosine_sim_normed(a, b) == Sim[a.face][b.face]

Pairs(embs) == { p \in (1 .. Len(embs)) \X (1 .. Len(embs)) : p[1] < p[2] }

\* Mutant of pick_threshold: the margin is added.
pick_threshold_AddMargin(embs) ==
    IF Len(embs) < 2 THEN 40
    ELSE Upper(40, Least({100} \cup { cosine_sim_normed(embs[p[1]], embs[p[2]]) : p \in Pairs(embs) }) + 5)

\* The floor and the margin are the defaults of the declaration.
pick_threshold(embs) ==
    IF Len(embs) < 2 THEN 40
    ELSE Upper(40, Least({100} \cup { cosine_sim_normed(embs[p[1]], embs[p[2]]) : p \in Pairs(embs) }) - 5)

\* Mutant of Comparable: the embedder of the file is not looked at.
Comparable_Any == { l \in Labels : stored[l] # None }

\* The labels whose files were made by the embedder that runs now.
Comparable == { l \in Labels : stored[l] # None /\ stored[l].embedder_id = ModelId[cfg.embedder_model] }

\* best_for_label
Likeness(l, emb) ==
    Greatest({-100} \cup { cosine_sim_normed(emb, stored[l].embeddings[i]) : i \in 1 .. Len(stored[l].embeddings) })

\* frame_quality, rounded down to whole per cent.
frame_quality(det) ==
    LET h == Lower(100, (det.box.height * 1000) \div (cfg.height * 3))
    IN  (Lower(100, det.score) * h * det.sharp) \div 10000

-----------------------------------------------------------------------------
(* Requests *)

Reply(a) == stage' = "reply" /\ answer' = a

\* The loop of handle_auth or handle_test goes round.
Again == stage' = "frame" /\ UNCHANGED answer

Refusal(reason) == [kind |-> req, reason |-> reason, success |-> FALSE,
                    label |-> best.label, sim |-> Upper(0, best.sim)]

Progress(hint) == [kind |-> "enroll_frame", hint |-> hint]

\* Mutant of Full: off by one.
Full_OffByOne == Len(session.embeddings) > MaxFrames

Full == Len(session.embeddings) >= MaxFrames

\* handle_auth up to its loop, handle_test and handle_frame up to the first frame.  A bound:
\* auth and test, which look at no session, do not come in the middle of an enrollment.
Begin(kind) ==
    /\ stage = "idle" /\ (kind = "enroll_frame" \/ session = None)
    /\ req' = kind
    /\ CASE kind = "auth" /\ \A l \in Labels : stored[l] = None ->
              Reply([kind |-> kind, reason |-> "not_enrolled", success |-> FALSE, label |-> None, sim |-> 0])
         [] kind = "auth" /\ (\E l \in Labels : stored[l] # None) /\ Comparable = {} ->
              Reply([kind |-> kind, reason |-> "embedder_mismatch", success |-> FALSE, label |-> None, sim |-> 0])
         [] kind = "enroll_frame" /\ session = None ->
              Reply([kind |-> "error", reason |-> "peer_denied"])
         [] kind = "enroll_frame" /\ session # None /\ Full ->
              Reply(Progress("ok"))
         [] OTHER -> Again
    /\ faces_seen' = FALSE /\ captures_seen' = FALSE
    /\ best' = [sim |-> -100, label |-> None]
    /\ seen' = {}
    /\ UNCHANGED <<cfg, stored, session, nmsVars>>

\* process_one_frame throws: the camera, the detector's outputs, the embedding's size.
FrameThrows ==
    /\ stage \in {"frame", "nms"}
    /\ Reply(IF req = "enroll_frame" THEN Progress("no_face")
             ELSE [Refusal("camera_error") EXCEPT !.label = None, !.sim = 0])
    /\ UNCHANGED <<cfg, stored, session, req, faces_seen, captures_seen, best, seen, nmsVars>>

\* No face came out of a frame; captured says whether there was a frame at all.
Faceless(captured, hint) ==
    /\ captures_seen' = (captures_seen \/ captured)
    /\ IF req = "enroll_frame" THEN Reply(Progress(hint)) ELSE Again
    /\ UNCHANGED <<cfg, stored, session, req, faces_seen, best, seen>>

NoFrame == stage = "frame" /\ Faceless(FALSE, "no_face") /\ UNCHANGED nmsVars

\* The brightness of a warm-up frame is left at 0.
DarkFrame ==
    /\ stage = "frame"
    /\ \E bright \in {0} \cup { scene.bright : scene \in Scenes } : bright < cfg.dark_threshold
    /\ Faceless(TRUE, "too_dark")
    /\ UNCHANGED nmsVars

\* A frame goes to the detector.
LitFrame ==
    /\ stage = "frame"
    /\ \E scene \in Scenes :
          /\ scene.bright >= cfg.dark_threshold
          /\ Detect(scene.faces, cfg.detector_conf_threshold)
    /\ stage' = "nms"
    /\ UNCHANGED <<cfg, stored, session, req, faces_seen, captures_seen, best, answer, seen>>

Suppressing ==
    /\ stage = "nms" /\ NmsStep
    /\ UNCHANGED <<cfg, stored, session, stage, req, faces_seen, captures_seen, best, answer, seen>>

Empty == stage = "nms" /\ NmsDone /\ dets = <<>> /\ Faceless(TRUE, "no_face") /\ UNCHANGED nmsVars

\* A face came out of the frame; the embedder runs on the front one.
Judging(kind) ==
    /\ stage = "nms" /\ NmsDone /\ dets # <<>> /\ req = kind
    /\ seen' = seen \cup {Front.face}
    /\ UNCHANGED <<cfg, stored, req, nmsVars>>

Probe == [face |-> Front.face, model |-> cfg.embedder_model]

\* The labels come in the order of the directory, which is any order.
JudgeAuth ==
    /\ Judging("auth")
    /\ faces_seen' = TRUE /\ captures_seen' = TRUE
    /\ \/ \E l \in Comparable :
             /\ Likeness(l, Probe) >= stored[l].threshold
             /\ Reply([kind |-> "auth", reason |-> "matched", success |-> TRUE,
                       label |-> l, sim |-> Likeness(l, Probe)])
             /\ UNCHANGED best
       \/ /\ \A l \in Comparable : Likeness(l, Probe) < stored[l].threshold
          /\ LET top == Greatest({ Likeness(l, Probe) : l \in Comparable })
             IN  IF top > best.sim
                 THEN \E l \in Comparable : Likeness(l, Probe) = top /\ best' = [sim |-> top, label |-> l]
                 ELSE UNCHANGED best
          /\ Again
    /\ UNCHANGED session

\* Mutant of WouldAuth: any label's threshold will do.
WouldAuth_AnyLabel(l, top) == \E k \in Comparable : top >= stored[k].threshold

WouldAuth(l, top) == top >= stored[l].threshold

TestResult(label, sim, would) ==
    [kind |-> "test", reason |-> "ok", label |-> label, sim |-> sim, success |-> would]

\* The first face ends the loop of handle_test; r.confidence is the detector's then.
JudgeTest ==
    /\ Judging("test")
    /\ LET top == Greatest({-100} \cup { Likeness(l, Probe) : l \in Comparable })
       IN  IF top > 0
           THEN \E l \in Comparable :
                   /\ Likeness(l, Probe) = top
                   /\ Reply(TestResult(l, top, WouldAuth(l, top)))
           ELSE Reply(TestResult(None, Front.score, FALSE))
    /\ UNCHANGED <<session, faces_seen, captures_seen, best>>

\* The size limits take the frame to be 360 rows high, whatever cfg.height is.
Hint ==
    CASE Front.box.height * 100 < 15 * 360 -> "too_far"
      [] Front.box.height * 100 > 80 * 360 -> "too_close"
      [] /\ Front.box.height * 100 \in 15 * 360 .. 80 * 360
         /\ frame_quality(Front) < cfg.enroll_quality_min -> "blurry_hold_still"
      [] OTHER -> "ok"

JudgeEnroll ==
    /\ Judging("enroll_frame")
    /\ session' = IF Hint = "ok" THEN [session EXCEPT !.embeddings = Append(@, Probe)]
                                 ELSE session
    /\ Reply(Progress(Hint))
    /\ UNCHANGED <<faces_seen, captures_seen, best>>

\* Mutant of FinalReason: a frame that came is asked for first.
FinalReason_CapturesFirst ==
    IF captures_seen THEN "no_face" ELSE IF faces_seen THEN "low_confidence" ELSE "timeout"

FinalReason ==
    IF faces_seen THEN "low_confidence" ELSE IF captures_seen THEN "no_face" ELSE "timeout"

\* The deadline of handle_auth or handle_test passes.
Deadline ==
    /\ stage = "frame" /\ req \in {"auth", "test"}
    /\ Reply(Refusal(IF req = "test" THEN "no_face" ELSE FinalReason))
    /\ UNCHANGED <<cfg, stored, session, req, faces_seen, captures_seen, best, seen, nmsVars>>

\* Nothing of the request is left.
Clear ==
    /\ req' = None /\ answer' = None /\ seen' = {}
    /\ faces_seen' = FALSE /\ captures_seen' = FALSE
    /\ best' = [sim |-> -100, label |-> None]
    /\ Forget

\* The answer is out and the connection ends.
End == stage = "reply" /\ stage' = "idle" /\ Clear /\ UNCHANGED <<cfg, stored, session>>

-----------------------------------------------------------------------------
(* Requests that do not capture, and restarts *)

Quiet == UNCHANGED <<stage, req, faces_seen, captures_seen, best, answer, seen, nmsVars>>

handle_start(l) ==
    /\ stage = "idle"
    /\ session' = [label |-> l, embeddings |-> <<>>]
    /\ UNCHANGED <<cfg, stored>> /\ Quiet

handle_finish ==
    /\ stage = "idle" /\ session # None
    /\ Len(session.embeddings) >= MinFrames
    /\ stored' = [stored EXCEPT ![session.label] =
                    [embedder_id |-> ModelId[cfg.embedder_model],
                     embeddings |-> session.embeddings,
                     threshold |-> pick_threshold(session.embeddings)]]
    /\ session' = None
    /\ UNCHANGED cfg /\ Quiet

handle_remove(S) ==
    /\ stage = "idle" /\ S # {}
    /\ stored' = [l \in Labels |-> IF l \in S THEN None ELSE stored[l]]
    /\ UNCHANGED <<cfg, session>> /\ Quiet

\* The process ends, whatever it is doing; its sessions were only in memory.
Stop ==
    /\ stage # "down" /\ stage' = "down" /\ Clear
    /\ session' = None
    /\ UNCHANGED <<cfg, stored>>

\* main with a file that parses; with one that does not, the process exits and stays down.
Start(file, option) ==
    /\ stage = "down" /\ stage' = "idle"
    /\ cfg' = Settings(file, option)
    /\ UNCHANGED <<stored, session, req, faces_seen, captures_seen, best, answer, seen, nmsVars>>

-----------------------------------------------------------------------------
Init ==
    /\ NmsInit
    /\ cfg = Default /\ stage = "down" /\ session = None
    /\ stored = [l \in Labels |-> None]
    /\ req = None /\ answer = None /\ seen = {}
    /\ faces_seen = FALSE /\ captures_seen = FALSE
    /\ best = [sim |-> -100, label |-> None]

Next ==
    \/ \E file \in Files, option \in Models \cup {None} : Start(file, option)
    \/ \E kind \in {"auth", "test", "enroll_frame"} : Begin(kind)
    \/ \E l \in Labels : handle_start(l)
    \/ \E S \in SUBSET Labels : handle_remove(S)
    \/ handle_finish
    \/ FrameThrows \/ NoFrame \/ DarkFrame \/ LitFrame \/ Suppressing \/ Empty
    \/ JudgeAuth \/ JudgeTest \/ JudgeEnroll
    \/ Deadline \/ End \/ Stop

Spec == Init /\ [][Next]_vars

-----------------------------------------------------------------------------
(* Properties *)

Embeddings == [face : Faces, model : Models]

TypeOK ==
    /\ stage \in {"down", "idle", "frame", "nms", "reply"}
    /\ req \in {"auth", "test", "enroll_frame", None}
    /\ session = None \/ (session.label \in Labels /\ session.embeddings \in Seq(Embeddings))
    /\ \A l \in Labels : stored[l] = None \/
          /\ stored[l].embeddings \in Seq(Embeddings)
          /\ Len(stored[l].embeddings) \in MinFrames .. MaxFrames
          /\ stored[l].threshold \in Nat
    /\ best.sim \in -100 .. 100 /\ best.label \in Labels \cup {None}
    /\ seen \subseteq Faces

\* Who is let in looks like the owner of the credential: the face judged resembles a picture
\* that the running embedder made of an enrolled face, at least by the floor, and no worse
\* (but for the margin) than some two enrolled pictures resemble each other.  Whatever
\* enrollments, removals, restarts with other models and settings came before.  The floor
\* is the one of pick_threshold's declaration, which is the one the code has: the floor of
\* the configuration is read and not used, see NoneBelowFloor.
GrantMeansLikeness ==
    stage = "reply" /\ answer.kind = "auth" /\ answer.success =>
       LET embs == stored[answer.label].embeddings IN
       /\ stored[answer.label] # None
       /\ \E i \in 1 .. Len(embs) :
             /\ embs[i].model = cfg.embedder_model
             /\ Sim[Front.face][embs[i].face] = answer.sim
       /\ answer.sim >= 40
       /\ Len(embs) = 1 \/ \E p \in Pairs(embs) :
                              Sim[embs[p[1]].face][embs[p[2]].face] <= answer.sim + 5

\* How alike the faces judged for this request are to the credentials.
Likenesses == { Likeness(l, [face |-> f]) : f \in seen, l \in Comparable }

\* Whoever is turned away is told why: low_confidence means that faces were seen and that
\* each was too unlike every credential, no_face that frames came and none had a face, and
\* timeout that not even a frame came.  The confidence reported is that of the best face.
RefusalIsRight ==
    stage = "reply" /\ answer.kind = "auth" /\ ~answer.success =>
       /\ \A f \in seen, l \in Comparable :
             Likeness(l, [face |-> f]) < stored[l].threshold
       /\ answer.reason = "low_confidence" =>
             /\ seen # {}
             /\ answer.sim = Upper(0, Greatest(Likenesses))
       /\ answer.reason \in {"no_face", "timeout"} => seen = {}
       /\ answer.reason = "no_face" <=> seen = {} /\ captures_seen /\ answer.reason # "camera_error"
       /\ answer.reason = "embedder_mismatch" => Comparable = {}
       /\ answer.reason = "not_enrolled" => \A l \in Labels : stored[l] = None

\* A credential recognises every face it was made from, unless that embedded as nothing: its
\* threshold is never out of reach, and its pictures are all of the model the file names.
EnrolledAreRecognised ==
    \A l \in Labels : stored[l] # None =>
       \A i \in 1 .. Len(stored[l].embeddings) :
          LET e == stored[l].embeddings[i] IN
          /\ ModelId[e.model] = stored[l].embedder_id
          /\ e.face \in Blank \/ Likeness(l, e) >= stored[l].threshold

\* When test says would_auth, an auth request that saw the same face would have matched.
WouldAuthSound ==
    stage = "reply" /\ answer.kind = "test" /\ answer.success =>
       \E l \in Comparable : Likeness(l, Probe) >= stored[l].threshold /\ l = answer.label

-----------------------------------------------------------------------------
(* What the design says, and the code does not do. *)

\* DESIGN.md:355, where similarity_floor is the absolute minimum, below which nobody is
\* authenticated: a grant is at least as good as the floor of the configuration.
NoneBelowFloor ==
    stage = "reply" /\ answer.kind = "auth" /\ answer.success => answer.sim >= cfg.similarity_floor
=============================================================================
