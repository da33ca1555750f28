-------------------------- MODULE RecognitionProofs --------------------------
(***************************************************************************)
(* Proofs about Recognition and Nms, for every set of candidates, scenes,  *)
(* models and configuration files and every table of similarities.         *)
(*                                                                         *)
(* NmsInv is what the outer loop of nms keeps: every position behind it is *)
(* kept or dropped, everything that overlaps a kept box is dropped, and    *)
(* everything dropped overlaps a kept box before it.  SessionInv and       *)
(* StoredInv say whose pictures sessions and files hold, Grown how many,   *)
(* and Searching is what the loop of handle_auth keeps.                    *)
(***************************************************************************)
EXTENDS Recognition, FiniteSetTheorems, WellFoundedInduction, TLAPS

NmsTyped ==
    /\ dets \in Seq(Candidates) /\ Sorted(dets)
    /\ at \in 1 .. Len(dets) + 1
    /\ keep \subseteq 1 .. at - 1
    /\ dropped \subseteq 1 .. Len(dets)

Decided == \A j \in 1 .. at - 1 : j \in keep \/ j \in dropped

Apart == \A i \in keep, j \in 1 .. Len(dets) :
            i < j /\ Overlap(dets[i].box, dets[j].box) => j \in dropped

Covered == \A j \in dropped : \E i \in keep : i < j /\ Overlap(dets[i].box, dets[j].box)

Disjoint == keep \cap dropped = {}

NmsInv == NmsTyped /\ Decided /\ Apart /\ Covered /\ Disjoint

\* What std::sort is given and returns.
LEMMA DecodedIsSeq ==
    ASSUME NEW frame \in SUBSET Candidates, NEW conf,
           NEW s \in Decoded(frame, conf)
    PROVE  s \in Seq(Candidates) /\ Sorted(s)
  <1> DEFINE C == { c \in frame : c.score >= conf }
  <1>1. IsFiniteSet(C)
    BY NmsAssumption, FS_Subset, C \subseteq Candidates DEF NmsAssumption
  <1>2. Cardinality(C) \in Nat
    BY <1>1, FS_CardinalityType
  <1>3. s \in [1 .. Cardinality(C) -> C] /\ Sorted(s) /\ C \subseteq Candidates
    BY DEF Decoded
  <1> HIDE DEF C
  <1>4. s \in Seq(Candidates)
    BY <1>2, <1>3
  <1> QED  BY <1>3, <1>4

LEMMA NmsInitInv == NmsInit => NmsInv
  <1> SUFFICES ASSUME NmsInit PROVE NmsInv
    OBVIOUS
  <1>1. <<>> \in Seq(Candidates) /\ Len(<<>>) = 0
    OBVIOUS
  <1> QED
    BY <1>1 DEF NmsInit, NmsInv, NmsTyped, Decided, Apart, Covered, Disjoint, Sorted

LEMMA DetectInv ==
    ASSUME NEW frame \in SUBSET Candidates, NEW conf, Detect(frame, conf)
    PROVE  NmsInv'
  <1>1. dets' \in Seq(Candidates) /\ Sorted(dets')
    BY DecodedIsSeq DEF Detect
  <1>2. Len(dets') \in Nat
    BY <1>1
  <1> QED
    BY <1>1, <1>2 DEF Detect, NmsInv, NmsTyped, Decided, Apart, Covered, Disjoint, Sorted

LEMMA NmsStepInv ==
    ASSUME NmsInv, NmsStep
    PROVE  NmsInv'
  <1> USE DEF NmsInv
  <1>1. dets' = dets /\ at' = at + 1 /\ at \in 1 .. Len(dets) /\ Len(dets) \in Nat
    BY DEF NmsStep, NmsTyped
  <1>2. CASE at \in dropped
    <2>1. keep' = keep /\ dropped' = dropped
      BY <1>2 DEF NmsStep
    <2> QED
      BY <1>1, <1>2, <2>1 DEF NmsTyped, Decided, Apart, Covered, Disjoint, Sorted
  <1>3. CASE at \notin dropped
    <2>1. keep' = keep \cup {at} /\ dropped' = dropped \cup Suppress(at)
      BY <1>3 DEF NmsStep
    <2>2. Suppress(at) = { j \in at + 1 .. Len(dets) : Overlap(dets[at].box, dets[j].box) }
      BY DEF Suppress
    <2>3. NmsTyped'
      BY <1>1, <2>1, <2>2 DEF NmsTyped, Sorted
    <2>4. Decided'
      BY <1>1, <2>1 DEF NmsTyped, Decided
    <2>5. Apart'
      BY <1>1, <2>1, <2>2 DEF NmsTyped, Apart
    <2>6. Covered'
      <3> SUFFICES ASSUME NEW j \in dropped'
                   PROVE  \E i \in keep' : i < j /\ Overlap(dets'[i].box, dets'[j].box)
        BY DEF Covered
      <3>1. CASE j \in dropped
        BY <1>1, <2>1, <3>1 DEF Covered
      <3>2. CASE j \in Suppress(at)
        BY <1>1, <2>1, <2>2, <3>2 DEF NmsTyped
      <3> QED  BY <2>1, <3>1, <3>2
    <2>7. Disjoint'
      <3>1. \A j \in Suppress(at) : j \notin keep /\ j # at
        BY <1>1, <2>2 DEF NmsTyped
      <3> QED  BY <1>3, <2>1, <3>1 DEF Disjoint
    <2> QED  BY <2>3, <2>4, <2>5, <2>6, <2>7
  <1> QED  BY <1>2, <1>3

\* The first candidate is always kept, so it is the front one.
LEMMA FrontIsFirst ==
    ASSUME NmsInv, NmsDone, dets # <<>>
    PROVE  1 \in keep /\ Front = dets[1] /\ 1 \in 1 .. Len(dets)
  <1> USE DEF NmsInv
  <1>1. Len(dets) \in Nat \ {0} /\ at = Len(dets) + 1
    BY DEF NmsTyped, NmsDone
  <1>2. 1 \in keep
    <2>1. 1 \notin dropped
      BY DEF Covered, NmsTyped
    <2> QED  BY <1>1, <2>1 DEF Decided
  <1>3. (CHOOSE i \in keep : \A j \in keep : i <= j) = 1
    <2>1. \A j \in keep : j \in Int /\ 1 <= j
      BY <1>1 DEF NmsTyped
    <2>2. \E i \in keep : \A j \in keep : i <= j
      BY <1>2, <2>1
    <2>3. \A i \in keep : (\A j \in keep : i <= j) => i = 1
      BY <1>2, <2>1
    <2> HIDE DEF NmsInv
    <2> QED  BY <2>2, <2>3
  <1>4. Front = dets[1]
    BY <1>3, Zenon DEF Front
  <1> QED  BY <1>1, <1>2, <1>4

LEMMA NmsInvIsRight == NmsInv => FrontIsBest /\ NmsIsRight
  <1> SUFFICES ASSUME NmsInv, NmsDone PROVE (dets # <<>> => keep # {} /\ \A i \in 1 .. Len(dets) : Front.score >= dets[i].score)
                                  /\ NmsIsRight
    BY DEF FrontIsBest, NmsIsRight
  <1>1. at = Len(dets) + 1 /\ Len(dets) \in Nat
    BY DEF NmsInv, NmsTyped, NmsDone
  <1>2. ASSUME dets # <<>>
        PROVE  keep # {} /\ \A i \in 1 .. Len(dets) : Front.score >= dets[i].score
    <2>1. 1 \in keep /\ Front = dets[1] /\ 1 \in 1 .. Len(dets)
      BY <1>2, FrontIsFirst
    <2>2. ASSUME NEW i \in 1 .. Len(dets) PROVE Front.score >= dets[i].score
      <3>1. CASE i = 1
        <4>1. dets[1] \in Candidates /\ dets[1].score \in Int
          BY <2>1, NmsAssumption DEF NmsInv, NmsTyped, NmsAssumption
        <4> QED  BY <2>1, <3>1, <4>1
      <3>2. CASE i # 1
        BY <2>1, <3>2, <1>1 DEF NmsInv, NmsTyped, Sorted
      <3> QED  BY <3>1, <3>2
    <2> QED  BY <2>1, <2>2
  <1>3. NmsIsRight
    <2>1. \A i, j \in keep : i < j => ~Overlap(dets[i].box, dets[j].box)
      BY <1>1 DEF NmsInv, NmsTyped, Apart, Disjoint
    <2>2. ASSUME NEW j \in 1 .. Len(dets), j \notin keep
          PROVE  \E i \in keep : Overlap(dets[i].box, dets[j].box) /\ dets[i].score >= dets[j].score
      <3>1. j \in dropped
        BY <1>1, <2>2 DEF NmsInv, Decided
      <3>2. PICK i \in keep : i < j /\ Overlap(dets[i].box, dets[j].box)
        BY <3>1 DEF NmsInv, Covered
      <3>3. dets[i].score >= dets[j].score
        BY <1>1, <3>2 DEF NmsInv, NmsTyped, Sorted
      <3> QED  BY <3>2, <3>3
    <2> QED  BY <2>1, <2>2 DEF NmsIsRight
  <1> QED  BY <1>2, <1>3

\* What a step of the daemon does to the vectors of nms.
LEMMA StepMoves ==
    ASSUME Next, RecognitionAssumption
    PROVE  \/ UNCHANGED nmsVars
           \/ NmsStep
           \/ NmsInit'
           \/ \E frame \in SUBSET Candidates : Detect(frame, cfg.detector_conf_threshold)
  <1>1. ASSUME NEW file \in Files, NEW option \in Models \cup {None}, Start(file, option)
        PROVE  UNCHANGED nmsVars
    BY <1>1 DEF Start
  <1>2. ASSUME NEW kind, Begin(kind) PROVE UNCHANGED nmsVars
    BY <1>2 DEF Begin
  <1>3. ASSUME NEW l \in Labels, handle_start(l) PROVE UNCHANGED nmsVars
    BY <1>3 DEF handle_start, Quiet
  <1>4. ASSUME NEW S \in SUBSET Labels, handle_remove(S) PROVE UNCHANGED nmsVars
    BY <1>4 DEF handle_remove, Quiet
  <1>5. CASE handle_finish
    BY <1>5 DEF handle_finish, Quiet
  <1>6. CASE FrameThrows \/ NoFrame \/ DarkFrame \/ Empty \/ Deadline
    BY <1>6 DEF FrameThrows, NoFrame, DarkFrame, Empty, Deadline
  <1>7. CASE LitFrame
    BY <1>7 DEF LitFrame, RecognitionAssumption
  <1>8. CASE Suppressing
    BY <1>8 DEF Suppressing
  <1>9. CASE JudgeAuth \/ JudgeTest \/ JudgeEnroll
    BY <1>9 DEF JudgeAuth, JudgeTest, JudgeEnroll, Judging
  <1>10. CASE End \/ Stop
    BY <1>10 DEF End, Stop, Clear, Forget, NmsInit
  <1> QED
    BY <1>1, <1>2, <1>3, <1>4, <1>5, <1>6, <1>7, <1>8, <1>9, <1>10 DEF Next

LEMMA NmsAlways == Spec => []NmsInv
  <1>1. Init => NmsInv
    BY NmsInitInv DEF Init
  <1>2. NmsInv /\ [Next]_vars => NmsInv'
    <2> SUFFICES ASSUME NmsInv, [Next]_vars PROVE NmsInv'
      OBVIOUS
    <2>1. CASE UNCHANGED nmsVars
      BY <2>1 DEF nmsVars, NmsInv, NmsTyped, Decided, Apart, Covered, Disjoint, Sorted, Overlap
    <2>2. CASE NmsStep
      BY <2>2, NmsStepInv
    <2>3. CASE NmsInit'
      BY <2>3, NmsInitInv, PTL
    <2>4. ASSUME NEW frame \in SUBSET Candidates, Detect(frame, cfg.detector_conf_threshold)
          PROVE  NmsInv'
      BY <2>4, DetectInv
    <2> QED
      BY <2>1, <2>2, <2>3, <2>4, StepMoves, RecognitionAssumption DEF vars, nmsVars
  <1> QED  BY <1>1, <1>2, PTL DEF Spec

\* For every detector output and every order the sort may give equal scores, the face a frame
\* is judged by (dets.front() after nms) is the most confident one.
THEOREM FrontAlwaysBest == Spec => []FrontIsBest
  <1>1. NmsInv => FrontIsBest
    BY NmsInvIsRight
  <1> QED  BY <1>1, NmsAlways, PTL

\* For every detector output nms reports no two overlapping faces and drops none without a
\* better one in its place.
THEOREM NmsAlwaysRight == Spec => []NmsIsRight
  <1>1. NmsInv => NmsIsRight
    BY NmsInvIsRight
  <1> QED  BY <1>1, NmsAlways, PTL

-----------------------------------------------------------------------------
(* Likenesses and thresholds *)

LEMMA NatLeast ==
    ASSUME NEW T \in SUBSET Nat, T # {}
    PROVE  \E x \in T : \A y \in T : x <= y
  <1>1. PICK x \in T : \A y \in T : ~(<<y, x>> \in OpToRel(<, Nat))
    BY NatLessThanWellFounded, WFMin, Zenon
  <1>2. \A y \in T : ~(y < x)
    BY <1>1 DEF OpToRel
  <1> QED  BY <1>2

LEMMA GreatestIs ==
    ASSUME NEW S \in SUBSET (-100 .. 100), S # {}
    PROVE  Greatest(S) \in S /\ \A y \in S : Greatest(S) >= y
  <1> DEFINE T == { 100 - x : x \in S }
  <1>1. T \in SUBSET Nat /\ T # {}
    <2>1. \A x \in S : x \in -100 .. 100 /\ 100 - x \in Nat
      OBVIOUS
    <2>2. PICK x \in S : TRUE
      OBVIOUS
    <2>3. 100 - x \in T
      BY <2>2
    <2> QED  BY <2>1, <2>3
  <1>2. PICK t \in T : \A u \in T : t <= u
    BY <1>1, NatLeast, Zenon
  <1>3. PICK x \in S : t = 100 - x
    OBVIOUS
  <1>4. \A y \in S : 100 - y \in T
    OBVIOUS
  <1>5. \A y \in S : x >= y
    <2> HIDE DEF T
    <2>1. \A y \in S : 100 - x <= 100 - y
      BY <1>2, <1>3, <1>4
    <2>2. x \in Int /\ \A y \in S : y \in Int
      OBVIOUS
    <2> QED  BY <2>1, <2>2
  <1> QED  BY <1>5, Zenon DEF Greatest

LEMMA LeastIs ==
    ASSUME NEW S \in SUBSET (-100 .. 100), S # {}
    PROVE  Least(S) \in S /\ \A y \in S : Least(S) <= y
  <1> DEFINE T == { 100 + x : x \in S }
  <1>1. T \in SUBSET Nat /\ T # {}
    <2>1. \A x \in S : x \in -100 .. 100 /\ 100 + x \in Nat
      OBVIOUS
    <2>2. PICK x \in S : TRUE
      OBVIOUS
    <2>3. 100 + x \in T
      BY <2>2
    <2> QED  BY <2>1, <2>3
  <1>2. PICK t \in T : \A u \in T : t <= u
    BY <1>1, NatLeast, Zenon
  <1>3. PICK x \in S : t = 100 + x
    OBVIOUS
  <1>4. \A y \in S : 100 + y \in T
    OBVIOUS
  <1>5. \A y \in S : x <= y
    <2> HIDE DEF T
    <2>1. \A y \in S : 100 + x <= 100 + y
      BY <1>2, <1>3, <1>4
    <2>2. x \in Int /\ \A y \in S : y \in Int
      OBVIOUS
    <2> QED  BY <2>1, <2>2
  <1> QED  BY <1>5, Zenon DEF Least

LEMMA ElementType ==
    ASSUME NEW S, NEW s \in Seq(S), NEW i \in 1 .. Len(s)
    PROVE  s[i] \in S
  OBVIOUS

LEMMA OneOrMore ==
    ASSUME NEW S, NEW s \in Seq(S), Len(s) > 0
    PROVE  Len(s) = 1 \/ Len(s) >= 2
  <1>1. Len(s) \in Nat
    OBVIOUS
  <1>2. \A n \in Nat : n > 0 => n = 1 \/ n >= 2
    OBVIOUS
  <1> QED  BY <1>1, <1>2, Zenon

LEMMA EmbeddingFields ==
    ASSUME NEW e \in Embeddings
    PROVE  e.face \in Faces /\ e.model \in Models
  BY DEF Embeddings

LEMMA CosineType ==
    ASSUME NEW a \in Embeddings, NEW b \in Embeddings
    PROVE  cosine_sim_normed(a, b) \in -100 .. 100
  BY RecognitionAssumption DEF RecognitionAssumption, Embeddings, cosine_sim_normed

\* A threshold is within reach of the face itself, never below the floor, and within the
\* margin of some two pictures.
LEMMA ThresholdIs ==
    ASSUME NEW embs \in Seq(Embeddings)
    PROVE  /\ pick_threshold(embs) \in 40 .. 95
           /\ Len(embs) >= 2 => \E p \in Pairs(embs) :
                 cosine_sim_normed(embs[p[1]], embs[p[2]]) <= pick_threshold(embs) + 5
  <1>1. CASE Len(embs) < 2
    BY <1>1 DEF pick_threshold
  <1>2. CASE Len(embs) >= 2
    <2> DEFINE C == { cosine_sim_normed(embs[p[1]], embs[p[2]]) : p \in Pairs(embs) }
               mn == Least({100} \cup C)
    <2>1. C \subseteq -100 .. 100
      <3>1. ASSUME NEW p \in Pairs(embs)
            PROVE  cosine_sim_normed(embs[p[1]], embs[p[2]]) \in -100 .. 100
        <4>1. p[1] \in 1 .. Len(embs) /\ p[2] \in 1 .. Len(embs)
          BY DEF Pairs
        <4>2. embs[p[1]] \in Embeddings /\ embs[p[2]] \in Embeddings
          BY <4>1
        <4> QED  BY <4>2, CosineType, Zenon
      <3> QED  BY <3>1
    <2>2. {100} \cup C \in SUBSET (-100 .. 100) /\ {100} \cup C # {}
      <3> HIDE DEF C
      <3> QED  BY <2>1
    <2>3. mn \in {100} \cup C /\ \A y \in {100} \cup C : mn <= y
      <3> HIDE DEF C
      <3> QED  BY <2>2, LeastIs
    <2>4. <<1, 2>> \in Pairs(embs)
      BY <1>2 DEF Pairs
    <2>5. \E p \in Pairs(embs) : cosine_sim_normed(embs[p[1]], embs[p[2]]) <= mn
      <3>1. CASE mn \in C
        <4>1. PICK p \in Pairs(embs) : mn = cosine_sim_normed(embs[p[1]], embs[p[2]])
          BY <3>1, Zenon
        <4> QED  BY <2>1, <2>3, <4>1
      <3>2. CASE mn = 100
        <4>1. PICK p \in Pairs(embs) : TRUE
          BY <2>4
        <4>2. cosine_sim_normed(embs[p[1]], embs[p[2]]) \in C
          BY <4>1
        <4> HIDE DEF C, mn
        <4>3. \A c \in C : c <= 100
          BY <2>1
        <4> QED  BY <3>2, <4>2, <4>3, Zenon
      <3> QED  BY <2>3, <3>1, <3>2
    <2>6. pick_threshold(embs) = Upper(40, mn - 5)
      BY <1>2 DEF pick_threshold
    <2>7. mn \in -100 .. 100
      BY <2>2, <2>3
    <2>8. pick_threshold(embs) \in 40 .. 95 /\ mn <= pick_threshold(embs) + 5
      <3> HIDE DEF mn
      <3> QED  BY <2>6, <2>7 DEF Upper
    <2>9. ASSUME NEW p \in Pairs(embs), cosine_sim_normed(embs[p[1]], embs[p[2]]) <= mn
          PROVE  cosine_sim_normed(embs[p[1]], embs[p[2]]) <= pick_threshold(embs) + 5
      <3>1. cosine_sim_normed(embs[p[1]], embs[p[2]]) \in -100 .. 100
        BY <2>1
      <3>2. \A c, m, t \in Int : c <= m /\ m <= t + 5 => c <= t + 5
        OBVIOUS
      <3>3. /\ cosine_sim_normed(embs[p[1]], embs[p[2]]) \in Int
            /\ mn \in Int /\ pick_threshold(embs) \in Int
        <4>1. (-100 .. 100) \subseteq Int /\ (40 .. 95) \subseteq Int
          OBVIOUS
        <4> HIDE DEF mn, C
        <4> QED  BY <2>7, <2>8, <3>1, <4>1, Zenon
      <3> HIDE DEF mn, C
      <3> QED  BY <2>8, <2>9, <3>2, <3>3, Zenon
    <2> QED  BY <2>5, <2>8, <2>9
  <1> QED  BY <1>1, <1>2

\* Of a file that handle_finish has written.
Made(file) ==
    /\ file.embeddings \in Seq(Embeddings)
    /\ Len(file.embeddings) > 0
    /\ file.threshold = pick_threshold(file.embeddings)
    /\ \A i \in 1 .. Len(file.embeddings) : ModelId[file.embeddings[i].model] = file.embedder_id

\* Likeness is that of one of the pictures, and no picture is more alike.
LEMMA LikenessIs ==
    ASSUME NEW l, Made(stored[l]), NEW e, e.face \in Faces
    PROVE  LET embs == stored[l].embeddings IN
           /\ Likeness(l, e) \in -100 .. 100
           /\ \A i \in 1 .. Len(embs) : Likeness(l, e) >= Sim[e.face][embs[i].face]
           /\ Likeness(l, e) > -100 => \E i \in 1 .. Len(embs) : Likeness(l, e) = Sim[e.face][embs[i].face]
  <1> DEFINE embs == stored[l].embeddings
             C == { cosine_sim_normed(e, embs[i]) : i \in 1 .. Len(embs) }
  <1>1. ASSUME NEW i \in 1 .. Len(embs)
        PROVE  /\ cosine_sim_normed(e, embs[i]) = Sim[e.face][embs[i].face]
               /\ cosine_sim_normed(e, embs[i]) \in -100 .. 100
    <2>1. embs[i] \in Embeddings
      BY DEF Made
    <2>2. embs[i].face \in Faces
      BY <2>1 DEF Embeddings
    <2> HIDE DEF embs
    <2>3. \A f, g \in Faces : Sim[f][g] \in -100 .. 100
      BY RecognitionAssumption DEF RecognitionAssumption
    <2>4. Sim[e.face][embs[i].face] \in -100 .. 100
      BY <2>2, <2>3, Zenon
    <2> QED  BY <2>4, Zenon DEF cosine_sim_normed
  <1>2. {-100} \cup C \in SUBSET (-100 .. 100) /\ {-100} \cup C # {}
    <2>1. C \subseteq -100 .. 100
      BY <1>1
    <2> HIDE DEF C
    <2> QED  BY <2>1
  <1>3. Likeness(l, e) = Greatest({-100} \cup C)
    BY DEF Likeness
  <1>4. Likeness(l, e) \in {-100} \cup C /\ \A y \in {-100} \cup C : Likeness(l, e) >= y
    <2> HIDE DEF C
    <2> QED  BY <1>2, <1>3, GreatestIs
  <1>5. \A i \in 1 .. Len(embs) : cosine_sim_normed(e, embs[i]) \in C
    OBVIOUS
  <1>6. Likeness(l, e) > -100 => \E i \in 1 .. Len(embs) : Likeness(l, e) = cosine_sim_normed(e, embs[i])
    BY <1>4
  <1> QED
    BY <1>1, <1>2, <1>4, <1>5, <1>6

-----------------------------------------------------------------------------
(* Sessions, files and answers *)

Sessions == [label : Labels, embeddings : Seq(Embeddings)]

\* The pictures of a session are all of the running model: a session ends with the process.
SessionInv ==
    /\ cfg.embedder_model \in Models
    /\ session # None => session \in Sessions
    /\ session # None => \A i \in 1 .. Len(session.embeddings) :
                            session.embeddings[i].model = cfg.embedder_model
    /\ stage = "down" => session = None
    /\ req = "enroll_frame" /\ stage \in {"frame", "nms"} => session # None

StoredInv == stored = [l \in Labels |-> stored[l]] /\ \A l \in Labels : stored[l] # None => Made(stored[l])

LEMMA SettingsModel ==
    ASSUME NEW file \in Files, NEW option \in Models \cup {None}
    PROVE  Settings(file, option).embedder_model \in Models
  <1>1. load(file).embedder_model \in Models
    BY RecognitionAssumption DEF RecognitionAssumption, load, Default
  <1>2. CASE option = None
    BY <1>1, <1>2 DEF Settings
  <1>3. CASE option # None
    BY <1>3 DEF Settings, load, Default
  <1> QED  BY <1>2, <1>3

LEMMA ProbeType ==
    ASSUME NmsInv, NmsDone, dets # <<>>, cfg.embedder_model \in Models
    PROVE  Probe \in Embeddings /\ Probe.model = cfg.embedder_model /\ Probe.face = Front.face
  <1>1. Front = dets[1] /\ 1 \in 1 .. Len(dets)
    BY FrontIsFirst
  <1>2. Front \in Candidates
    BY <1>1 DEF NmsInv, NmsTyped
  <1>3. Front.face \in Faces
    BY <1>2, RecognitionAssumption DEF RecognitionAssumption
  <1> QED  BY <1>3 DEF Probe, Embeddings

LEMMA SessionStep ==
    ASSUME SessionInv, NmsInv, [Next]_vars
    PROVE  SessionInv'
  <1> USE DEF SessionInv
  <1>1. ASSUME NEW file \in Files, NEW option \in Models \cup {None}, Start(file, option)
        PROVE  SessionInv'
    BY <1>1, SettingsModel DEF Start
  <1>2. ASSUME NEW kind \in {"auth", "test", "enroll_frame"}, Begin(kind) PROVE SessionInv'
    BY <1>2 DEF Begin, Reply, Again
  <1>3. ASSUME NEW l \in Labels, handle_start(l) PROVE SessionInv'
    <2>1. session' \in Sessions /\ Len(session'.embeddings) = 0
      BY <1>3 DEF handle_start, Sessions
    <2> QED  BY <1>3, <2>1 DEF handle_start, Quiet
  <1>4. ASSUME NEW S \in SUBSET Labels, handle_remove(S) PROVE SessionInv'
    BY <1>4 DEF handle_remove, Quiet
  <1>5. CASE handle_finish
    BY <1>5 DEF handle_finish, Quiet
  <1>6. CASE FrameThrows \/ Deadline
    BY <1>6 DEF FrameThrows, Deadline, Reply
  <1>7. CASE NoFrame \/ DarkFrame \/ Empty
    BY <1>7 DEF NoFrame, DarkFrame, Empty, Faceless, Reply, Again
  <1>8. CASE LitFrame \/ Suppressing
    BY <1>8 DEF LitFrame, Suppressing
  <1>9. CASE JudgeAuth \/ JudgeTest
    BY <1>9 DEF JudgeAuth, JudgeTest, Judging, Reply, Again
  <1>10. CASE JudgeEnroll
    <2>1. Probe \in Embeddings /\ Probe.model = cfg.embedder_model
      BY <1>10, ProbeType DEF JudgeEnroll, Judging
    <2>2. session \in Sessions /\ cfg' = cfg /\ stage' = "reply"
      BY <1>10 DEF JudgeEnroll, Judging, Reply
    <2>3. CASE Hint = "ok"
      <3>1. session' = [session EXCEPT !.embeddings = Append(session.embeddings, Probe)]
        BY <1>10, <2>3 DEF JudgeEnroll
      <3>2. /\ session' \in Sessions
            /\ session'.embeddings = Append(session.embeddings, Probe)
        BY <2>1, <2>2, <3>1 DEF Sessions
      <3>3. session.embeddings \in Seq(Embeddings)
        BY <2>2 DEF Sessions
      <3>4. \A i \in 1 .. Len(session'.embeddings) :
               session'.embeddings[i].model = cfg.embedder_model
        <4> DEFINE old == session.embeddings
        <4>1. \A i \in 1 .. Len(old) : old[i].model = cfg.embedder_model
          BY <1>10 DEF JudgeEnroll, Judging
        <4>2. ASSUME NEW i \in 1 .. Len(old) + 1
              PROVE  Append(old, Probe)[i].model = cfg.embedder_model
          <5> HIDE DEF old
          <5>1. CASE i = Len(old) + 1
            BY <2>1, <3>3, <5>1 DEF old
          <5>2. CASE i # Len(old) + 1
            <6>1. old \in Seq(Embeddings) /\ i \in 1 .. Len(old)
              BY <3>3, <5>2 DEF old
            <6>2. Append(old, Probe)[i] = old[i]
              BY <6>1
            <6> QED  BY <4>1, <6>1, <6>2
          <5> QED  BY <5>1, <5>2
        <4>3. Len(Append(old, Probe)) = Len(old) + 1
          BY <3>3
        <4> HIDE DEF old
        <4> QED  BY <3>2, <4>2, <4>3 DEF old
      <3> QED  BY <2>2, <3>2, <3>4
    <2>4. CASE Hint # "ok"
      BY <1>10, <2>2, <2>4 DEF JudgeEnroll
    <2> QED  BY <2>3, <2>4
  <1>11. CASE End \/ Stop
    BY <1>11 DEF End, Stop, Clear
  <1>12. CASE UNCHANGED vars
    BY <1>12 DEF vars
  <1> QED
    BY <1>1, <1>2, <1>3, <1>4, <1>5, <1>6, <1>7, <1>8, <1>9, <1>10, <1>11, <1>12 DEF Next

LEMMA StoredStep ==
    ASSUME SessionInv, StoredInv, [Next]_vars
    PROVE  StoredInv'
  <1>1. CASE stored' = stored
    BY <1>1 DEF StoredInv, Made
  <1>2. CASE handle_finish
    <2> DEFINE file == [embedder_id |-> ModelId[cfg.embedder_model],
                        embeddings |-> session.embeddings,
                        threshold |-> pick_threshold(session.embeddings)]
    <2>1. session \in Sessions /\ Len(session.embeddings) >= MinFrames
      BY <1>2 DEF handle_finish, SessionInv
    <2>2. Made(file)
      <3>1. session.embeddings \in Seq(Embeddings)
        BY <2>1 DEF Sessions
      <3>2. Len(session.embeddings) > 0
        BY <2>1, <3>1, RecognitionAssumption DEF RecognitionAssumption
      <3>3. \A i \in 1 .. Len(session.embeddings) :
               session.embeddings[i].model = cfg.embedder_model
        BY <1>2 DEF handle_finish, SessionInv
      <3> QED  BY <3>1, <3>2, <3>3 DEF Made
    <2>3. stored' = [stored EXCEPT ![session.label] = file]
      BY <1>2 DEF handle_finish
    <2> HIDE DEF file
    <2>4. \A l \in Labels : stored'[l] = file \/ stored'[l] = stored[l]
      BY <2>3 DEF StoredInv
    <2>5. stored' = [l \in Labels |-> stored'[l]]
      BY <2>3 DEF StoredInv
    <2>6. \A l \in Labels : stored'[l] # None => Made(stored'[l])
      BY <2>2, <2>4 DEF StoredInv
    <2> QED  BY <2>5, <2>6 DEF StoredInv, Made
  <1>3. ASSUME NEW S \in SUBSET Labels, handle_remove(S) PROVE StoredInv'
    <2>1. stored' = [l \in Labels |-> IF l \in S THEN None ELSE stored[l]]
      BY <1>3 DEF handle_remove
    <2>2. \A l \in Labels : stored'[l] = None \/ stored'[l] = stored[l]
      BY <2>1
    <2>3. \A l \in Labels : stored'[l] # None => Made(stored'[l])
      BY <2>2 DEF StoredInv
    <2> QED  BY <2>1, <2>3 DEF StoredInv, Made
  <1>4. \/ stored' = stored \/ handle_finish \/ \E S \in SUBSET Labels : handle_remove(S)
    BY DEF Next, Start, Begin, handle_start, FrameThrows, Deadline, NoFrame, DarkFrame, Empty, Faceless,
           LitFrame, Suppressing, JudgeAuth, JudgeTest, JudgeEnroll, Judging, End, Stop, vars
  <1> QED  BY <1>1, <1>2, <1>3, <1>4

LEMMA RecognitionAlways == Spec => [](NmsInv /\ SessionInv /\ StoredInv)
  <1>1. Init => SessionInv /\ StoredInv
    <2> SUFFICES ASSUME Init PROVE SessionInv /\ StoredInv
      OBVIOUS
    <2>1. SessionInv
      BY RecognitionAssumption DEF RecognitionAssumption, Init, SessionInv, Default
    <2>2. StoredInv
      BY DEF Init, StoredInv
    <2> QED  BY <2>1, <2>2
  <1>2. SessionInv /\ StoredInv /\ NmsInv /\ [Next]_vars => SessionInv' /\ StoredInv'
    BY SessionStep, StoredStep
  <1> QED  BY <1>1, <1>2, NmsAlways, PTL DEF Spec

\* For every table of similarities a credential, however its pictures were mixed, recognises
\* each face it was made from that did not embed as the zero vector.
THEOREM EnrolledAlwaysRecognised == Spec => []EnrolledAreRecognised
  <1>1. StoredInv => EnrolledAreRecognised
    <2> SUFFICES ASSUME StoredInv, NEW l \in Labels, stored[l] # None,
                        NEW i \in 1 .. Len(stored[l].embeddings)
                 PROVE  LET e == stored[l].embeddings[i] IN
                        /\ ModelId[e.model] = stored[l].embedder_id
                        /\ e.face \in Blank \/ Likeness(l, e) >= stored[l].threshold
      BY DEF EnrolledAreRecognised
    <2> DEFINE e == stored[l].embeddings[i]
    <2>1. Made(stored[l])
      BY DEF StoredInv
    <2>2. e \in Embeddings /\ e.face \in Faces
      <3>1. e \in Embeddings
        BY <2>1, ElementType, Zenon DEF Made
      <3> QED  BY <3>1, EmbeddingFields, Zenon
    <2>3. Likeness(l, e) \in -100 .. 100 /\ Likeness(l, e) >= Sim[e.face][e.face]
      <3> HIDE DEF e
      <3>1. \A k \in 1 .. Len(stored[l].embeddings) :
               Likeness(l, e) >= Sim[e.face][stored[l].embeddings[k].face]
        BY <2>1, <2>2, LikenessIs
      <3>2. Likeness(l, e) \in -100 .. 100
        BY <2>1, <2>2, LikenessIs
      <3> QED  BY <3>1, <3>2 DEF e
    <2>4. stored[l].threshold \in 40 .. 95
      BY <2>1, ThresholdIs DEF Made
    <2>5. e.face \in Blank \/ Sim[e.face][e.face] = 100
      BY <2>2, RecognitionAssumption DEF RecognitionAssumption
    <2>6. e.face \in Blank \/ Likeness(l, e) >= stored[l].threshold
      <3>1. \A k \in -100 .. 100, t \in 40 .. 95 : k >= 100 => k >= t
        OBVIOUS
      <3> HIDE DEF e
      <3>2. e.face \in Blank \/ Likeness(l, e) >= 100
        BY <2>3, <2>5, Zenon
      <3> QED  BY <2>3, <2>4, <3>1, <3>2, Zenon
    <2> QED  BY <2>1, <2>6 DEF Made
  <1> QED  BY <1>1, RecognitionAlways, PTL

\* The answer that is being sent is a grant.
Granting == stage = "reply" /\ answer.kind = "auth" /\ answer.success

Vouched == stage = "reply" /\ answer.kind = "test" /\ answer.success

\* Only JudgeAuth grants and only JudgeTest vouches, and nothing changes until the answer is out.
LEMMA WhoGrants ==
    ASSUME [Next]_vars
    PROVE  /\ Granting' => JudgeAuth \/ UNCHANGED vars
           /\ Vouched' => JudgeTest \/ UNCHANGED vars
  <1> USE DEF Granting, Vouched
  <1>1. ASSUME NEW file \in Files, NEW option \in Models \cup {None}, Start(file, option)
        PROVE  ~Granting' /\ ~Vouched'
    BY <1>1 DEF Start
  <1>2. ASSUME NEW kind \in {"auth", "test", "enroll_frame"}, Begin(kind)
        PROVE  ~Granting' /\ ~Vouched'
    BY <1>2 DEF Begin, Reply, Again, Progress
  <1>3. ASSUME NEW l \in Labels, handle_start(l) PROVE ~Granting' /\ ~Vouched'
    BY <1>3 DEF handle_start, Quiet
  <1>4. ASSUME NEW S \in SUBSET Labels, handle_remove(S) PROVE ~Granting' /\ ~Vouched'
    BY <1>4 DEF handle_remove, Quiet
  <1>5. CASE handle_finish
    BY <1>5 DEF handle_finish, Quiet
  <1>6. CASE FrameThrows \/ Deadline
    <2>1. \A reason : Refusal(reason).success = FALSE
      BY DEF Refusal
    <2>2. [Refusal("camera_error") EXCEPT !.label = None, !.sim = 0].success = FALSE
      BY DEF Refusal
    <2>3. CASE FrameThrows
      <3>1. answer'.kind = "enroll_frame" \/ answer'.success = FALSE
        BY <2>2, <2>3 DEF FrameThrows, Reply, Progress
      <3> QED  BY <3>1
    <2>4. CASE Deadline
      <3>1. answer'.success = FALSE
        BY <2>1, <2>4 DEF Deadline, Reply
      <3> QED  BY <3>1
    <2> QED  BY <1>6, <2>3, <2>4
  <1>7. CASE NoFrame \/ DarkFrame \/ Empty
    BY <1>7 DEF NoFrame, DarkFrame, Empty, Faceless, Reply, Again, Progress
  <1>8. CASE LitFrame \/ Suppressing
    BY <1>8 DEF LitFrame, Suppressing
  <1>9. CASE JudgeAuth
    BY <1>9 DEF JudgeAuth, Reply, Again
  <1>10. CASE JudgeTest
    BY <1>10 DEF JudgeTest, Reply, TestResult
  <1>11. CASE JudgeEnroll
    BY <1>11 DEF JudgeEnroll, Reply, Progress
  <1>12. CASE End \/ Stop
    BY <1>12 DEF End, Stop
  <1> QED
    BY <1>1, <1>2, <1>3, <1>4, <1>5, <1>6, <1>7, <1>8, <1>9, <1>10, <1>11, <1>12 DEF Next

LEMMA GrantStep ==
    ASSUME NmsInv, SessionInv, StoredInv, JudgeAuth, Granting'
    PROVE  GrantMeansLikeness'
  <1>1. PICK l \in Comparable :
           /\ Likeness(l, Probe) >= stored[l].threshold
           /\ answer'.label = l /\ answer'.sim = Likeness(l, Probe)
    BY DEF JudgeAuth, Granting, Reply, Again
  <1>2. UNCHANGED <<cfg, stored, dets, keep>> /\ Front' = Front
    BY DEF JudgeAuth, Judging, nmsVars, Front
  <1>3. Probe \in Embeddings /\ Probe.model = cfg.embedder_model /\ Probe.face = Front.face
    BY ProbeType DEF JudgeAuth, Judging, SessionInv
  <1>4. Made(stored[l]) /\ stored[l] # None /\ stored[l].embedder_id = ModelId[cfg.embedder_model]
    BY DEF Comparable, StoredInv
  <1> DEFINE embs == stored[l].embeddings
             like == Likeness(l, Probe)
  <1>5. stored[l].threshold = pick_threshold(embs) /\ embs \in Seq(Embeddings) /\ Len(embs) > 0
    BY <1>4 DEF Made
  <1>6. Probe.face \in Faces
    BY <1>3 DEF Embeddings
  <1>7. /\ like \in -100 .. 100
        /\ like > -100 => \E i \in 1 .. Len(embs) : like = Sim[Probe.face][embs[i].face]
    BY <1>4, <1>6, LikenessIs
  <1>8. /\ pick_threshold(embs) \in 40 .. 95
        /\ Len(embs) >= 2 => \E p \in Pairs(embs) :
              cosine_sim_normed(embs[p[1]], embs[p[2]]) <= pick_threshold(embs) + 5
    BY <1>5, ThresholdIs
  <1>9. like >= pick_threshold(embs)
    BY <1>1, <1>5
  <1>10. like >= 40 /\ like > -100
    <2>1. \A k \in -100 .. 100, t \in 40 .. 95 : k >= t => k >= 40 /\ k > -100
      OBVIOUS
    <2> HIDE DEF like, embs
    <2> QED  BY <1>7, <1>8, <1>9, <2>1, Zenon
  <1>11. PICK i \in 1 .. Len(embs) : like = Sim[Probe.face][embs[i].face]
    BY <1>7, <1>10
  <1>12. embs[i].model = cfg.embedder_model
    <2>1. embs[i].model \in Models /\ ModelId[embs[i].model] = ModelId[cfg.embedder_model]
      <3>1. embs[i] \in Embeddings
        BY <1>5, ElementType, Zenon
      <3>2. embs[i].model \in Models
        BY <3>1, EmbeddingFields, Zenon
      <3> QED  BY <1>4, <3>2, Zenon DEF Made
    <2> QED  BY <2>1, RecognitionAssumption DEF RecognitionAssumption, SessionInv
  <1>13. Len(embs) = 1 \/ \E p \in Pairs(embs) : Sim[embs[p[1]].face][embs[p[2]].face] <= like + 5
    <2>1. CASE Len(embs) = 1
      BY <2>1
    <2>2. CASE Len(embs) >= 2
      <3>1. PICK p \in Pairs(embs) :
               cosine_sim_normed(embs[p[1]], embs[p[2]]) <= pick_threshold(embs) + 5
        BY <1>8, <2>2
      <3>2. cosine_sim_normed(embs[p[1]], embs[p[2]]) \in -100 .. 100
        <4>1. p[1] \in 1 .. Len(embs) /\ p[2] \in 1 .. Len(embs)
          BY DEF Pairs
        <4>2. embs[p[1]] \in Embeddings /\ embs[p[2]] \in Embeddings
          BY <1>5, <4>1, ElementType, Zenon
        <4> QED  BY <4>2, CosineType, Zenon
      <3>3. \A c \in -100 .. 100, t \in 40 .. 95, k \in -100 .. 100 : c <= t + 5 /\ k >= t => c <= k + 5
        OBVIOUS
      <3>4. cosine_sim_normed(embs[p[1]], embs[p[2]]) <= like + 5
        <4> HIDE DEF like, embs
        <4> QED  BY <1>7, <1>8, <1>9, <3>1, <3>2, <3>3, Zenon
      <3> QED  BY <3>4 DEF cosine_sim_normed
    <2>3. Len(embs) = 1 \/ Len(embs) >= 2
      BY <1>5, OneOrMore, Zenon
    <2> QED  BY <2>1, <2>2, <2>3
  <1>14. /\ stored'[answer'.label] = stored[l] /\ answer'.sim = like /\ cfg' = cfg
    BY <1>1, <1>2
  <1>15. Sim[Front'.face][embs[i].face] = answer'.sim /\ embs[i].model = cfg'.embedder_model
    BY <1>2, <1>3, <1>11, <1>12, <1>14
  <1> QED
    BY <1>4, <1>10, <1>13, <1>14, <1>15 DEF GrantMeansLikeness, Pairs

\* For every table of similarities, every sequence of enrollments, removals and restarts: a
\* login is granted only to a face that resembles a picture of the credential as made by the
\* running embedder, by the floor at least and by the credential's own spread less the margin.
THEOREM GrantsAreAlike == Spec => []GrantMeansLikeness
  <1>1. Init => GrantMeansLikeness
    BY DEF Init, GrantMeansLikeness
  <1>2. GrantMeansLikeness /\ NmsInv /\ SessionInv /\ StoredInv /\ [Next]_vars => GrantMeansLikeness'
    <2> SUFFICES ASSUME GrantMeansLikeness, NmsInv, SessionInv, StoredInv, [Next]_vars
                 PROVE  GrantMeansLikeness'
      OBVIOUS
    <2>1. CASE ~Granting'
      BY <2>1 DEF Granting, GrantMeansLikeness
    <2>2. CASE Granting' /\ JudgeAuth
      BY <2>2, GrantStep
    <2>3. CASE UNCHANGED vars
      BY <2>3 DEF vars, GrantMeansLikeness, Front, Pairs
    <2> QED  BY <2>1, <2>2, <2>3, WhoGrants
  <1> QED  BY <1>1, <1>2, RecognitionAlways, PTL DEF Spec

LEMMA SameJudgement ==
    ASSUME UNCHANGED <<cfg, stored, dets, keep>>
    PROVE  /\ Comparable' = Comparable
           /\ \A l : Likeness(l, Probe)' = Likeness(l, Probe) /\ stored'[l] = stored[l]
  <1>1. cfg' = cfg /\ stored' = stored /\ dets' = dets /\ keep' = keep
    OBVIOUS
  <1>2. Comparable' = Comparable
    BY <1>1 DEF Comparable
  <1>3. Probe' = Probe
    BY <1>1 DEF Probe, Front
  <1>4. \A l : Likeness(l, Probe)' = Likeness(l, Probe)
    BY <1>1, <1>3 DEF Likeness
  <1> QED  BY <1>1, <1>2, <1>4

\* For every table of similarities, would_auth is only said of a face auth would match.
THEOREM WouldAuthAlwaysSound == Spec => []WouldAuthSound
  <1>1. Init => WouldAuthSound
    BY DEF Init, WouldAuthSound
  <1>2. WouldAuthSound /\ [Next]_vars => WouldAuthSound'
    <2> SUFFICES ASSUME WouldAuthSound, [Next]_vars PROVE WouldAuthSound'
      OBVIOUS
    <2>1. CASE ~Vouched'
      BY <2>1 DEF Vouched, WouldAuthSound
    <2>2. CASE Vouched' /\ JudgeTest
      <3> DEFINE top == Greatest({-100} \cup { Likeness(l, Probe) : l \in Comparable })
      <3>1. answer'.success
        BY <2>2 DEF Vouched
      <3>2. \/ answer' = TestResult(None, Front.score, FALSE)
            \/ \E l \in Comparable : Likeness(l, Probe) = top /\ answer' = TestResult(l, top, WouldAuth(l, top))
        BY <2>2, Zenon DEF JudgeTest, Reply
      <3> HIDE DEF top
      <3>3. answer' # TestResult(None, Front.score, FALSE)
        BY <3>1 DEF TestResult
      <3>4. PICK l \in Comparable : Likeness(l, Probe) = top /\ answer' = TestResult(l, top, WouldAuth(l, top))
        BY <3>2, <3>3, Zenon
      <3>5. answer'.success = WouldAuth(l, top) /\ answer'.label = l
        BY <3>4 DEF TestResult
      <3>6. Likeness(l, Probe) >= stored[l].threshold
        BY <3>1, <3>4, <3>5, Zenon DEF WouldAuth
      <3>7. UNCHANGED <<cfg, stored, dets, keep>>
        BY <2>2 DEF JudgeTest, Judging, nmsVars
      <3> QED  BY <3>5, <3>6, <3>7, SameJudgement, Zenon DEF WouldAuthSound
    <2>3. CASE UNCHANGED vars
      <3>1. UNCHANGED <<cfg, stored, dets, keep, stage, answer>>
        BY <2>3 DEF vars
      <3> QED  BY <3>1, SameJudgement, Zenon DEF WouldAuthSound
    <2> QED  BY <2>1, <2>2, <2>3, WhoGrants
  <1> QED  BY <1>1, <1>2, PTL DEF Spec

-----------------------------------------------------------------------------
(* Sizes, types and refusals *)

\* A session never outgrows its limit, and what is stored came from such a session.
Grown ==
    /\ session # None => Len(session.embeddings) <= MaxFrames
    /\ session # None /\ req = "enroll_frame" /\ stage \in {"frame", "nms"} => ~Full
    /\ \A l \in Labels : stored[l] # None => Len(stored[l].embeddings) \in MinFrames .. MaxFrames

\* The rest of the state has its types.
Shaped ==
    /\ stage \in {"down", "idle", "frame", "nms", "reply"}
    /\ req \in {"auth", "test", "enroll_frame", None}
    /\ best.sim \in -100 .. 100 /\ best.label \in Labels \cup {None}
    /\ seen \subseteq Faces
    /\ faces_seen \in BOOLEAN /\ captures_seen \in BOOLEAN

Alike(l, f) == Likeness(l, [face |-> f])

\* handle_auth is in its loop.
Looping == req = "auth" /\ stage \in {"frame", "nms"}

\* What the loop of handle_auth knows when it goes round: no face seen so far was alike, the
\* counters tell whether there was one, and best is the likeness of the best of them.
Searching ==
    /\ Comparable # {}
    /\ faces_seen <=> seen # {}
    /\ faces_seen => captures_seen
    /\ \A f \in seen, l \in Comparable : Alike(l, f) < stored[l].threshold
    /\ \A f \in seen, l \in Comparable : Alike(l, f) <= best.sim
    /\ seen # {} => \E f \in seen, l \in Comparable : best.sim = Alike(l, f)
    /\ seen = {} => best.sim = -100

LEMMA SessionType ==
    ASSUME SessionInv, session # None
    PROVE  /\ session.label \in Labels
           /\ session.embeddings \in Seq(Embeddings)
           /\ Len(session.embeddings) \in Nat
  BY DEF SessionInv, Sessions

LEMMA GrownStep ==
    ASSUME Grown, SessionInv, StoredInv, [Next]_vars
    PROVE  Grown'
  <1>0. MinFrames \in Nat /\ MaxFrames \in Nat /\ MinFrames > 0
    BY RecognitionAssumption DEF RecognitionAssumption
  <1>1. ASSUME NEW file \in Files, NEW option \in Models \cup {None}, Start(file, option)
        PROVE  Grown'
    BY <1>1 DEF Start, Grown
  <1>2. ASSUME NEW kind \in {"auth", "test", "enroll_frame"}, Begin(kind) PROVE Grown'
    <2>1. UNCHANGED <<stored, session>> /\ Full' = Full
      BY <1>2 DEF Begin, Full
    <2>2. session # None /\ kind = "enroll_frame" /\ Full => stage' = "reply"
      BY <1>2 DEF Begin, Reply
    <2>3. req' = kind
      BY <1>2 DEF Begin
    <2> QED  BY <2>1, <2>2, <2>3 DEF Grown
  <1>3. ASSUME NEW l \in Labels, handle_start(l) PROVE Grown'
    <2>1. Len(session'.embeddings) = 0 /\ stage' = "idle" /\ stored' = stored
      BY <1>3 DEF handle_start, Quiet
    <2> QED  BY <1>0, <2>1 DEF Grown
  <1>4. ASSUME NEW S \in SUBSET Labels, handle_remove(S) PROVE Grown'
    <2>1. stored' = [l \in Labels |-> IF l \in S THEN None ELSE stored[l]]
      BY <1>4 DEF handle_remove
    <2>2. \A l \in Labels : stored'[l] = None \/ stored'[l] = stored[l]
      BY <2>1
    <2>3. UNCHANGED <<stage, session>> /\ stage' = "idle"
      BY <1>4 DEF handle_remove, Quiet
    <2> QED  BY <2>2, <2>3 DEF Grown
  <1>5. CASE handle_finish
    <2> DEFINE file == [embedder_id |-> ModelId[cfg.embedder_model],
                        embeddings |-> session.embeddings,
                        threshold |-> pick_threshold(session.embeddings)]
    <2>1. file.embeddings = session.embeddings
      OBVIOUS
    <2>2. /\ session # None /\ Len(session.embeddings) >= MinFrames
          /\ stored' = [stored EXCEPT ![session.label] = file]
          /\ session' = None /\ stage' = "idle"
      BY <1>5 DEF handle_finish, Quiet
    <2> HIDE DEF file
    <2>3. Len(file.embeddings) \in MinFrames .. MaxFrames
      BY <1>0, <2>1, <2>2, SessionType DEF Grown
    <2>4. \A l \in Labels : stored'[l] = file \/ stored'[l] = stored[l]
      BY <2>2 DEF StoredInv
    <2> QED  BY <2>2, <2>3, <2>4 DEF Grown
  <1>6. CASE FrameThrows \/ Deadline
    BY <1>6 DEF FrameThrows, Deadline, Reply, Grown
  <1>7. CASE NoFrame \/ DarkFrame \/ Empty
    <2>1. UNCHANGED <<stored, session, req>> /\ (req # "enroll_frame" \/ stage' = "reply")
      BY <1>7 DEF NoFrame, DarkFrame, Empty, Faceless, Reply
    <2> QED  BY <2>1 DEF Grown
  <1>8. CASE LitFrame \/ Suppressing
    <2>1. UNCHANGED <<stored, session, req>> /\ stage \in {"frame", "nms"} /\ Full' = Full
      BY <1>8 DEF LitFrame, Suppressing, Full
    <2> QED  BY <2>1 DEF Grown
  <1>9. CASE JudgeAuth \/ JudgeTest
    <2>1. UNCHANGED <<stored, session, req>> /\ req # "enroll_frame"
      BY <1>9 DEF JudgeAuth, JudgeTest, Judging
    <2> QED  BY <2>1 DEF Grown
  <1>10. CASE JudgeEnroll
    <2>1. stored' = stored /\ stage' = "reply" /\ session # None /\ ~Full
      BY <1>10 DEF JudgeEnroll, Judging, Reply, SessionInv, Grown
    <2>2. Len(session.embeddings) \in Nat /\ session.embeddings \in Seq(Embeddings) /\ session \in Sessions
      BY <2>1, SessionType DEF SessionInv
    <2>3. Len(session.embeddings) + 1 <= MaxFrames
      BY <1>0, <2>1, <2>2 DEF Full
    <2>4. CASE Hint = "ok"
      <3>1. session' = [session EXCEPT !.embeddings = Append(session.embeddings, Probe)]
        BY <1>10, <2>4 DEF JudgeEnroll
      <3>2. session'.embeddings = Append(session.embeddings, Probe)
        BY <2>2, <3>1 DEF Sessions
      <3>3. Len(session'.embeddings) = Len(session.embeddings) + 1
        BY <2>2, <3>2
      <3> QED  BY <2>1, <2>3, <3>3 DEF Grown
    <2>5. CASE Hint # "ok"
      <3>1. session' = session
        BY <1>10, <2>5 DEF JudgeEnroll
      <3> QED  BY <2>1, <3>1 DEF Grown
    <2> QED  BY <2>4, <2>5
  <1>11. CASE End \/ Stop
    BY <1>11 DEF End, Stop, Grown
  <1>12. CASE UNCHANGED vars
    BY <1>12 DEF vars, Grown, Full
  <1> QED
    BY <1>1, <1>2, <1>3, <1>4, <1>5, <1>6, <1>7, <1>8, <1>9, <1>10, <1>11, <1>12 DEF Next

\* The greatest likeness of a face to the comparable credentials, and the face itself.
LEMMA FrontFace ==
    ASSUME NmsInv, SessionInv, NmsDone, dets # <<>>
    PROVE  Front.face \in Faces /\ Probe.face = Front.face
  <1>1. Probe \in Embeddings /\ Probe.face = Front.face
    BY ProbeType DEF SessionInv
  <1> QED  BY <1>1, EmbeddingFields

LEMMA AlikeType ==
    ASSUME StoredInv, NEW l \in Comparable, NEW f \in Faces
    PROVE  Alike(l, f) \in -100 .. 100 /\ stored[l].threshold \in 40 .. 95 /\ l \in Labels
  <1>1. l \in Labels /\ Made(stored[l])
    BY DEF StoredInv, Comparable
  <1>2. Alike(l, f) \in -100 .. 100
    <2> DEFINE e == [face |-> f]
    <2>1. e.face \in Faces
      OBVIOUS
    <2> HIDE DEF e
    <2>2. Likeness(l, e) \in -100 .. 100
      BY <1>1, <2>1, LikenessIs
    <2> QED  BY <2>2 DEF Alike, e
  <1>3. stored[l].threshold \in 40 .. 95
    BY <1>1, ThresholdIs DEF Made
  <1> QED  BY <1>1, <1>2, <1>3

LEMMA ProbeAlike ==
    ASSUME NmsInv, SessionInv, NmsDone, dets # <<>>, NEW l
    PROVE  Likeness(l, Probe) = Alike(l, Front.face)
  <1>1. Probe.face = Front.face
    BY FrontFace
  <1>2. [face |-> Front.face].face = Front.face
    OBVIOUS
  <1> QED  BY <1>1, <1>2 DEF Likeness, Alike, cosine_sim_normed

\* What the best of the labels is, for the face in front.
LEMMA TopIs ==
    ASSUME StoredInv, NEW f \in Faces, Comparable # {}
    PROVE  LET top == Greatest({ Alike(l, f) : l \in Comparable }) IN
           /\ top \in -100 .. 100
           /\ \A l \in Comparable : Alike(l, f) <= top
           /\ \E l \in Comparable : Alike(l, f) = top
  <1> DEFINE A == { Alike(l, f) : l \in Comparable }
             top == Greatest(A)
  <1>1. A \in SUBSET (-100 .. 100)
    BY AlikeType
  <1>2. A # {} /\ \A l \in Comparable : Alike(l, f) \in A
    OBVIOUS
  <1>3. top \in A /\ \A y \in A : top >= y
    <2> HIDE DEF A
    <2> QED  BY <1>1, <1>2, GreatestIs
  <1>4. PICK l \in Comparable : Alike(l, f) = top
    <2> HIDE DEF top
    <2> QED  BY <1>3
  <1>5. \A k \in Comparable : Alike(k, f) <= top
    <2>1. \A y \in A : y \in Int /\ top \in Int
      <3> HIDE DEF A, top
      <3> QED  BY <1>1, <1>3
    <2> HIDE DEF A, top
    <2> QED  BY <1>2, <1>3, <2>1
  <1>6. top \in -100 .. 100
    <2> HIDE DEF A, top
    <2> QED  BY <1>1, <1>3
  <1> QED  BY <1>4, <1>5, <1>6
LEMMA ShapedStep ==
    ASSUME Shaped, NmsInv, SessionInv, StoredInv, [Next]_vars
    PROVE  Shaped'
  <1>0. [sim |-> -100, label |-> None].sim \in -100 .. 100 /\ [sim |-> -100, label |-> None].label = None
    OBVIOUS
  <1>1. ASSUME NEW file \in Files, NEW option \in Models \cup {None}, Start(file, option)
        PROVE  Shaped'
    BY <1>1 DEF Start, Shaped
  <1>2. ASSUME NEW kind \in {"auth", "test", "enroll_frame"}, Begin(kind) PROVE Shaped'
    <2>1. /\ req' = kind /\ faces_seen' = FALSE /\ captures_seen' = FALSE /\ seen' = {}
          /\ best' = [sim |-> -100, label |-> None] /\ stage' \in {"frame", "reply"}
      BY <1>2 DEF Begin, Reply, Again
    <2> QED  BY <1>0, <2>1 DEF Shaped
  <1>3. ASSUME NEW l \in Labels, handle_start(l) PROVE Shaped'
    BY <1>3 DEF handle_start, Quiet, Shaped
  <1>4. ASSUME NEW S \in SUBSET Labels, handle_remove(S) PROVE Shaped'
    BY <1>4 DEF handle_remove, Quiet, Shaped
  <1>5. CASE handle_finish
    BY <1>5 DEF handle_finish, Quiet, Shaped
  <1>6. CASE FrameThrows \/ Deadline
    BY <1>6 DEF FrameThrows, Deadline, Reply, Shaped
  <1>7. ASSUME NEW captured \in BOOLEAN, NEW hint, Faceless(captured, hint) PROVE Shaped'
    BY <1>7 DEF Faceless, Reply, Again, Shaped
  <1>8. CASE LitFrame \/ Suppressing
    BY <1>8 DEF LitFrame, Suppressing, Shaped
  <1>9. CASE JudgeAuth
    <2>1. /\ req' = req /\ faces_seen' = TRUE /\ captures_seen' = TRUE
          /\ seen' = seen \cup {Front.face} /\ NmsDone /\ dets # <<>>
      BY <1>9 DEF JudgeAuth, Judging
    <2>2. Front.face \in Faces
      BY <2>1, FrontFace
    <2>3. stage' \in {"frame", "reply"}
      BY <1>9 DEF JudgeAuth, Reply, Again
    <2>4. \/ best' = best
          \/ \E l \in Comparable : best' = [sim |-> Likeness(l, Probe), label |-> l]
      BY <1>9 DEF JudgeAuth
    <2>5. ASSUME NEW l \in Comparable, best' = [sim |-> Likeness(l, Probe), label |-> l]
          PROVE  best'.sim \in -100 .. 100 /\ best'.label \in Labels
      <3>1. Likeness(l, Probe) = Alike(l, Front.face)
        BY <2>1, ProbeAlike
      <3>2. Alike(l, Front.face) \in -100 .. 100 /\ l \in Labels
        BY <2>2, AlikeType
      <3> QED  BY <2>5, <3>1, <3>2
    <2>6. best'.sim \in -100 .. 100 /\ best'.label \in Labels \cup {None}
      BY <2>4, <2>5 DEF Shaped
    <2> QED  BY <2>1, <2>2, <2>3, <2>6 DEF Shaped
  <1>10. CASE JudgeTest \/ JudgeEnroll
    <2>1. /\ UNCHANGED <<req, faces_seen, captures_seen, best>>
          /\ seen' = seen \cup {Front.face} /\ NmsDone /\ dets # <<>>
      BY <1>10 DEF JudgeTest, JudgeEnroll, Judging
    <2>2. Front.face \in Faces
      BY <2>1, FrontFace
    <2>3. stage' = "reply"
      BY <1>10 DEF JudgeTest, JudgeEnroll, Reply
    <2> QED  BY <2>1, <2>2, <2>3 DEF Shaped
  <1>11. CASE End \/ Stop
    BY <1>0, <1>11 DEF End, Stop, Clear, Shaped
  <1>12. CASE UNCHANGED vars
    BY <1>12 DEF vars, Shaped
  <1> QED
    BY <1>1, <1>2, <1>3, <1>4, <1>5, <1>6, <1>7, <1>8, <1>9, <1>10, <1>11, <1>12
       DEF Next, NoFrame, DarkFrame, Empty

LEMMA ShapesAlways == Spec => [](Grown /\ Shaped)
  <1>1. Init => Grown /\ Shaped
    <2> SUFFICES ASSUME Init PROVE Grown /\ Shaped
      OBVIOUS
    <2>1. best = [sim |-> -100, label |-> None] /\ stage = "down" /\ session = None
      BY DEF Init
    <2>2. \A l \in Labels : stored[l] = None
      BY DEF Init
    <2>3. best.sim \in -100 .. 100 /\ best.label = None
      BY <2>1
    <2> QED  BY <2>1, <2>2, <2>3 DEF Init, Grown, Shaped
  <1>2. /\ Grown /\ Shaped /\ NmsInv /\ SessionInv /\ StoredInv /\ [Next]_vars
        => Grown' /\ Shaped'
    BY GrownStep, ShapedStep
  <1> QED  BY <1>1, <1>2, RecognitionAlways, PTL DEF Spec

\* For every table of similarities and every sequence of requests and restarts, the state has
\* its types: in particular no session and no stored credential has more than MaxFrames
\* pictures, and none is stored with fewer than MinFrames.
THEOREM RecognitionTypeCorrect == Spec => []TypeOK
  <1>1. SessionInv /\ StoredInv /\ Grown /\ Shaped => TypeOK
    <2> SUFFICES ASSUME SessionInv, StoredInv, Grown, Shaped PROVE TypeOK
      OBVIOUS
    <2>1. session = None \/ (session.label \in Labels /\ session.embeddings \in Seq(Embeddings))
      BY SessionType
    <2>2. ASSUME NEW l \in Labels, stored[l] # None
          PROVE  /\ stored[l].embeddings \in Seq(Embeddings)
                 /\ Len(stored[l].embeddings) \in MinFrames .. MaxFrames
                 /\ stored[l].threshold \in Nat
      <3>1. Made(stored[l]) /\ Len(stored[l].embeddings) \in MinFrames .. MaxFrames
        BY <2>2 DEF StoredInv, Grown
      <3>2. stored[l].threshold \in 40 .. 95
        BY <3>1, ThresholdIs DEF Made
      <3>3. stored[l].threshold \in Nat
        BY <3>2
      <3>4. stored[l].embeddings \in Seq(Embeddings)
        BY <3>1 DEF Made
      <3> QED  BY <3>1, <3>3, <3>4
    <2> QED  BY <2>1, <2>2 DEF TypeOK, Shaped
  <1> QED  BY <1>1, RecognitionAlways, ShapesAlways, PTL
\* Searching and RefusalIsRight are about the credentials through Comparable and Alike only.
LEMMA SameAlike ==
    ASSUME UNCHANGED <<cfg, stored>>
    PROVE  /\ Comparable' = Comparable
           /\ \A l, f : Alike(l, f)' = Alike(l, f)
           /\ \A l : stored'[l] = stored[l]
  BY DEF Comparable, Alike, Likeness

LEMMA SearchingUnchanged ==
    ASSUME Searching, UNCHANGED <<cfg, stored, seen, best, faces_seen>>,
           captures_seen => captures_seen'
    PROVE  Searching'
  BY SameAlike DEF Searching

\* A face that no credential takes.
LEMMA Missed ==
    ASSUME NmsInv, SessionInv, StoredInv, Shaped, Searching, JudgeAuth, stage' = "frame"
    PROVE  Searching'
  <1> DEFINE face == Front.face
             top == Greatest({ Alike(l, face) : l \in Comparable })
  <1>1. /\ UNCHANGED <<cfg, stored>> /\ seen' = seen \cup {face} /\ NmsDone /\ dets # <<>>
        /\ faces_seen' = TRUE /\ captures_seen' = TRUE /\ Comparable # {}
    BY DEF JudgeAuth, Judging, Searching
  <1>2. face \in Faces
    BY <1>1, FrontFace
  <1>3. \A l : Likeness(l, Probe) = Alike(l, face)
    BY <1>1, ProbeAlike
  <1>4. { Likeness(l, Probe) : l \in Comparable } = { Alike(l, face) : l \in Comparable }
    BY <1>3
  <1>5. /\ top \in -100 .. 100
        /\ \A l \in Comparable : Alike(l, face) <= top
        /\ \E l \in Comparable : Alike(l, face) = top
    BY <1>1, <1>2, TopIs
  <1>6. /\ \A l \in Comparable : Likeness(l, Probe) < stored[l].threshold
        /\ IF Greatest({ Likeness(l, Probe) : l \in Comparable }) > best.sim
           THEN \E l \in Comparable : best' = [sim |-> Greatest({ Likeness(k, Probe) : k \in Comparable }), label |-> l]
           ELSE best' = best
    BY DEF JudgeAuth, Reply
  <1>7. IF top > best.sim THEN best'.sim = top ELSE best'.sim = best.sim
    <2>1. IF top > best.sim
          THEN \E l \in Comparable : best' = [sim |-> top, label |-> l]
          ELSE best' = best
      BY <1>4, <1>6
    <2> HIDE DEF top
    <2> QED  BY <2>1
  <1>8. \A f \in seen', l \in Comparable : Alike(l, f) < stored[l].threshold
    BY <1>1, <1>3, <1>6 DEF Searching
  <1>9. best.sim \in -100 .. 100 /\ seen \subseteq Faces
    BY DEF Shaped
  <1>10. \A f \in Faces, l \in Comparable : Alike(l, f) \in -100 .. 100
    BY AlikeType
  <1> HIDE DEF top, face
  <1>11. \A f \in seen', l \in Comparable : Alike(l, f) <= best'.sim
    <2>0. \A a, u, b \in -100 .. 100 :
             /\ a <= u /\ ~(u > b) => a <= b
             /\ a <= b /\ u > b => a <= u
      OBVIOUS
    <2>1. ASSUME NEW l \in Comparable PROVE Alike(l, face) <= best'.sim
      <3>1. Alike(l, face) \in -100 .. 100 /\ Alike(l, face) <= top
        BY <1>2, <1>5, <1>10
      <3> QED  BY <1>5, <1>7, <1>9, <2>0, <3>1, Zenon
    <2>2. ASSUME NEW f \in seen, NEW l \in Comparable PROVE Alike(l, f) <= best'.sim
      <3>1. Alike(l, f) <= best.sim /\ Alike(l, f) \in -100 .. 100
        BY <1>9, <1>10 DEF Searching
      <3> QED  BY <1>5, <1>7, <1>9, <2>0, <3>1, Zenon
    <2> QED  BY <1>1, <2>1, <2>2
  <1>12. \E f \in seen', l \in Comparable : best'.sim = Alike(l, f)
    <2>1. CASE top > best.sim
      BY <1>1, <1>5, <1>7, <2>1
    <2>2. CASE ~(top > best.sim) /\ seen # {}
      BY <1>1, <1>7, <2>2 DEF Searching
    <2>3. CASE ~(top > best.sim) /\ seen = {}
      <3>1. best.sim = -100
        BY <2>3 DEF Searching
      <3>2. top = best.sim
        BY <1>5, <2>3, <3>1
      <3> QED  BY <1>1, <1>5, <1>7, <2>3, <3>2
    <2> QED  BY <2>1, <2>2, <2>3
  <1>13. face \in seen'
    BY <1>1
  <1> QED  BY <1>1, <1>8, <1>11, <1>12, <1>13, SameAlike DEF Searching

\* best.sim is the greatest likeness that RefusalIsRight speaks of.
LEMMA BestIsGreatest ==
    ASSUME StoredInv, Shaped, Searching, seen # {}
    PROVE  best.sim = Greatest(Likenesses)
  <1> DEFINE A == Likenesses
  <1>1. A = { Alike(l, f) : f \in seen, l \in Comparable }
    BY DEF Alike, Likenesses
  <1>2. A \in SUBSET (-100 .. 100)
    <2>1. \A f \in seen, l \in Comparable : Alike(l, f) \in -100 .. 100
      BY AlikeType DEF Shaped
    <2> HIDE DEF A
    <2> QED  BY <1>1, <2>1
  <1>3. best.sim \in A
    <2> HIDE DEF A
    <2> QED  BY <1>1 DEF Searching
  <1>4. \A y \in A : y <= best.sim
    <2> HIDE DEF A
    <2> QED  BY <1>1 DEF Searching
  <1> HIDE DEF A
  <1>5. Greatest(A) \in A /\ \A y \in A : Greatest(A) >= y
    BY <1>2, <1>3, GreatestIs
  <1>6. best.sim \in Int /\ Greatest(A) \in Int
    <2>1. (-100 .. 100) \subseteq Int
      OBVIOUS
    <2> QED  BY <1>2, <1>3, <1>5, <2>1, Zenon
  <1>7. best.sim = Greatest(A)
    BY <1>3, <1>4, <1>5, <1>6
  <1> QED  BY <1>7 DEF A
LEMMA SearchStep ==
    ASSUME Looping => Searching, NmsInv, SessionInv, StoredInv, Shaped, [Next]_vars, Looping'
    PROVE  Searching'
  <1>1. ASSUME NEW file \in Files, NEW option \in Models \cup {None}, Start(file, option)
        PROVE  FALSE
    BY <1>1 DEF Start, Looping
  <1>2. ASSUME NEW kind \in {"auth", "test", "enroll_frame"}, Begin(kind) PROVE Searching'
    <2>1. /\ UNCHANGED <<cfg, stored>> /\ faces_seen' = FALSE /\ seen' = {}
          /\ best' = [sim |-> -100, label |-> None] /\ kind = "auth" /\ stage' # "reply"
      BY <1>2 DEF Begin, Looping
    <2>2. Comparable # {}
      <3>1. \E l \in Labels : stored[l] # None
        BY <1>2, <2>1 DEF Begin, Reply
      <3> QED  BY <1>2, <2>1, <3>1 DEF Begin, Reply
    <2>3. best'.sim = -100
      BY <2>1
    <2> QED  BY <2>1, <2>2, <2>3, SameAlike DEF Searching
  <1>3. ASSUME NEW l \in Labels, handle_start(l) PROVE FALSE
    BY <1>3 DEF handle_start, Quiet, Looping
  <1>4. ASSUME NEW S \in SUBSET Labels, handle_remove(S) PROVE FALSE
    BY <1>4 DEF handle_remove, Quiet, Looping
  <1>5. CASE handle_finish
    BY <1>5 DEF handle_finish, Quiet, Looping
  <1>6. CASE FrameThrows \/ Deadline
    BY <1>6 DEF FrameThrows, Deadline, Reply, Looping
  <1>7. CASE NoFrame \/ DarkFrame \/ Empty
    <2>1. UNCHANGED <<cfg, stored, seen, best, faces_seen, req>> /\ stage \in {"frame", "nms"}
      BY <1>7 DEF NoFrame, DarkFrame, Empty, Faceless
    <2>2. captures_seen => captures_seen'
      BY <1>7, Zenon DEF NoFrame, DarkFrame, Empty, Faceless
    <2>3. Looping
      BY <2>1 DEF Looping
    <2> QED  BY <2>1, <2>2, <2>3, SearchingUnchanged
  <1>8. CASE LitFrame \/ Suppressing
    <2>1. UNCHANGED <<cfg, stored, seen, best, faces_seen, captures_seen, req>> /\ stage \in {"frame", "nms"}
      BY <1>8 DEF LitFrame, Suppressing
    <2>2. Looping
      BY <2>1 DEF Looping
    <2> QED  BY <2>1, <2>2, SearchingUnchanged
  <1>9. CASE JudgeAuth
    <2>1. Looping /\ stage' = "frame"
      BY <1>9 DEF JudgeAuth, Judging, Looping, Reply, Again
    <2> QED  BY <1>9, <2>1, Missed
  <1>10. CASE JudgeTest \/ JudgeEnroll
    BY <1>10 DEF JudgeTest, JudgeEnroll, Reply, Looping
  <1>11. CASE End \/ Stop
    BY <1>11 DEF End, Stop, Looping
  <1>12. CASE UNCHANGED vars
    <2>1. UNCHANGED <<cfg, stored, seen, best, faces_seen, captures_seen>> /\ Looping
      BY <1>12 DEF vars, Looping
    <2> QED  BY <2>1, SearchingUnchanged
  <1> QED
    BY <1>1, <1>2, <1>3, <1>4, <1>5, <1>6, <1>7, <1>8, <1>9, <1>10, <1>11, <1>12
       DEF Next

\* The answer that is being sent is a refusal.
Refusing == stage = "reply" /\ answer.kind = "auth" /\ ~answer.success

\* Only these refuse, and nothing changes until the answer is out.
LEMMA WhoRefuses ==
    ASSUME [Next]_vars, Shaped, Refusing'
    PROVE  \/ Begin("auth")
           \/ (FrameThrows \/ Deadline) /\ Looping
           \/ UNCHANGED vars
  <1> USE DEF Refusing
  <1>1. ASSUME NEW file \in Files, NEW option \in Models \cup {None}, Start(file, option)
        PROVE  FALSE
    BY <1>1 DEF Start
  <1>2. ASSUME NEW kind \in {"auth", "test", "enroll_frame"}, Begin(kind)
        PROVE  Begin("auth")
    <2>1. CASE kind = "auth"
      BY <1>2, <2>1
    <2>2. CASE kind # "auth"
      BY <1>2, <2>2 DEF Begin, Reply, Again, Progress
    <2> QED  BY <2>1, <2>2
  <1>3. ASSUME NEW l \in Labels, handle_start(l) PROVE FALSE
    BY <1>3 DEF handle_start, Quiet
  <1>4. ASSUME NEW S \in SUBSET Labels, handle_remove(S) PROVE FALSE
    BY <1>4 DEF handle_remove, Quiet
  <1>5. CASE handle_finish
    BY <1>5 DEF handle_finish, Quiet
  <1>6. CASE FrameThrows
    <2>1. [Refusal("camera_error") EXCEPT !.label = None, !.sim = 0].kind = req
      BY DEF Refusal
    <2>2. req = "auth"
      BY <1>6, <2>1 DEF FrameThrows, Reply, Progress
    <2> QED  BY <1>6, <2>2 DEF FrameThrows, Looping
  <1>7. CASE Deadline
    <2>1. \A reason : Refusal(reason).kind = req
      BY DEF Refusal
    <2>2. req = "auth"
      BY <1>7, <2>1 DEF Deadline, Reply
    <2> QED  BY <1>7, <2>2 DEF Deadline, Looping
  <1>8. CASE NoFrame \/ DarkFrame \/ Empty
    BY <1>8 DEF NoFrame, DarkFrame, Empty, Faceless, Reply, Again, Progress
  <1>9. CASE LitFrame \/ Suppressing
    BY <1>9 DEF LitFrame, Suppressing
  <1>10. CASE JudgeAuth
    BY <1>10 DEF JudgeAuth, Reply, Again
  <1>11. CASE JudgeTest
    BY <1>11 DEF JudgeTest, Reply, TestResult
  <1>12. CASE JudgeEnroll
    BY <1>12 DEF JudgeEnroll, Reply, Progress
  <1>13. CASE End \/ Stop
    BY <1>13 DEF End, Stop
  <1> QED
    BY <1>1, <1>2, <1>3, <1>4, <1>5, <1>6, <1>7, <1>8, <1>9, <1>10, <1>11, <1>12, <1>13 DEF Next
LEMMA RefusalStep ==
    ASSUME Looping => Searching, RefusalIsRight, StoredInv, Shaped, [Next]_vars
    PROVE  RefusalIsRight'
  <1>1. CASE ~Refusing'
    BY <1>1 DEF Refusing, RefusalIsRight
  <1>2. CASE Refusing' /\ Begin("auth")
    <2>1. UNCHANGED <<cfg, stored>> /\ seen' = {} /\ captures_seen' = FALSE
      BY <1>2 DEF Begin
    <2>2. \/ answer'.reason = "not_enrolled" /\ \A l \in Labels : stored[l] = None
          \/ answer'.reason = "embedder_mismatch" /\ Comparable = {}
      BY <1>2 DEF Begin, Reply, Again, Refusing
    <2> QED  BY <2>1, <2>2, SameAlike DEF RefusalIsRight
  <1>3. CASE Refusing' /\ (FrameThrows \/ Deadline) /\ Looping
    <2>1. UNCHANGED <<cfg, stored, seen, captures_seen, best>> /\ Searching /\ req = "auth"
      BY <1>3 DEF FrameThrows, Deadline, Looping
    <2>2. \A f \in seen, l \in Comparable : Likeness(l, [face |-> f]) < stored[l].threshold
      BY <2>1 DEF Searching, Alike
    <2>3. /\ Comparable' = Comparable
          /\ \A f \in seen', l \in Comparable' :
                Likeness(l, [face |-> f])' < stored'[l].threshold
      BY <2>1, <2>2, SameAlike DEF Alike
    <2>4. CASE FrameThrows
      <3>1. [Refusal("camera_error") EXCEPT !.label = None, !.sim = 0].reason = "camera_error"
        BY DEF Refusal
      <3>2. answer'.reason = "camera_error"
        BY <2>1, <2>4, <3>1 DEF FrameThrows, Reply
      <3> QED  BY <2>3, <3>2 DEF RefusalIsRight
    <2>5. CASE Deadline
      <3>1. \A reason : Refusal(reason).reason = reason /\ Refusal(reason).sim = Upper(0, best.sim)
        BY DEF Refusal
      <3>2. answer'.reason = FinalReason /\ answer'.sim = Upper(0, best.sim)
        BY <2>1, <2>5, <3>1 DEF Deadline, Reply
      <3>3. CASE seen # {}
        <4>1. answer'.reason = "low_confidence"
          BY <2>1, <3>2, <3>3 DEF FinalReason, Searching
        <4>2. best.sim = Greatest(Likenesses)
          BY <2>1, <3>3, BestIsGreatest
        <4>3. Likenesses' = Likenesses
          BY <2>1, SameAlike DEF Alike, Likenesses
        <4>4. answer'.sim = Upper(0, Greatest(Likenesses'))
          BY <3>2, <4>2, <4>3
        <4> QED  BY <2>1, <2>3, <3>3, <4>1, <4>4 DEF RefusalIsRight
      <3>4. CASE seen = {}
        <4>1. answer'.reason = IF captures_seen THEN "no_face" ELSE "timeout"
          BY <2>1, <3>2, <3>4 DEF FinalReason, Searching
        <4> QED  BY <2>1, <2>3, <3>4, <4>1 DEF RefusalIsRight
      <3> QED  BY <3>3, <3>4
    <2> QED  BY <1>3, <2>4, <2>5
  <1>4. CASE UNCHANGED vars
    <2>1. UNCHANGED <<cfg, stored, stage, answer, seen, captures_seen>>
      BY <1>4 DEF vars
    <2>2. /\ Comparable' = Comparable
          /\ \A l, f : Likeness(l, [face |-> f])' = Likeness(l, [face |-> f])
      BY <2>1, SameAlike DEF Alike
    <2>3. Likenesses' = Likenesses
      BY <2>1, <2>2 DEF Likenesses
    <2> QED  BY <2>1, <2>2, <2>3 DEF RefusalIsRight
  <1> QED  BY <1>1, <1>2, <1>3, <1>4, WhoRefuses

\* For every table of similarities, every set of credentials and every run of frames: whoever
\* is turned away was unlike every credential the running embedder can compare, and the reason
\* and the confidence of the answer are those of the faces and frames of this very request.
THEOREM RefusalsAreRight == Spec => []RefusalIsRight
  <1>1. Init => (Looping => Searching) /\ RefusalIsRight
    BY DEF Init, Looping, RefusalIsRight
  <1>2. /\ (Looping => Searching) /\ RefusalIsRight
        /\ NmsInv /\ SessionInv /\ StoredInv /\ Shaped /\ [Next]_vars
        => (Looping => Searching)' /\ RefusalIsRight'
    BY SearchStep, RefusalStep
  <1> QED  BY <1>1, <1>2, RecognitionAlways, ShapesAlways, PTL DEF Spec
=============================================================================
