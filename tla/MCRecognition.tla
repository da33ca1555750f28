---------------------------- MODULE MCRecognition ----------------------------
(* A small instance of Recognition for TLC: one user with two labels, two pictures of the
   owner's face that are not very alike, somebody else, and a face that embeds as zero. *)
EXTENDS Recognition, TLC

CONSTANTS l1, l2, m1, m2

MCFaces == {"own", "side", "other", "blank"}

\* The side view is close to the other person's face, as a bad picture would be.
Row(own, side, other) == [own |-> own, side |-> side, other |-> other, blank |-> 0]

MCSim == [own   |-> Row(100, 70, 20),
          side  |-> Row(70, 100, 66),
          other |-> Row(20, 66, 100),
          blank |-> Row(0, 0, 0)]

Box(x, y, size) == [x |-> x, y |-> y, width |-> size, height |-> size]

Cand(face, score, box, sharp) == [face |-> face, score |-> score, box |-> box, sharp |-> sharp]

OwnNear    == Cand("own",   90, Box(100, 100, 200), 80)
OwnShifted == Cand("own",   70, Box(120, 110, 200), 80)
SideNear   == Cand("side",  90, Box(100, 100, 200), 80)
OtherFar   == Cand("other", 90, Box(400, 100, 40), 80)
OtherDim   == Cand("other", 40, Box(400, 100, 200), 80)
BlankNear  == Cand("blank", 80, Box(130, 120, 200), 80)
OwnClose   == Cand("own",   95, Box(50, 20, 300), 80)
OwnBlurred == Cand("own",   60, Box(100, 100, 200), 10)

MCCandidates == {OwnNear, OwnShifted, SideNear, OtherFar, OtherDim, BlankNear, OwnClose, OwnBlurred}

Shown(bright, faces) == [bright |-> bright, faces |-> faces]

\* Among them: a dark frame, an empty one, the owner with a second person who is as
\* confident, candidates that overlap in a chain, and faces too far, too close or blurred.
MCScenes ==
    { Shown(10, {OwnNear}), Shown(60, {}), Shown(28, {OwnNear, OwnShifted, OtherFar}),
      Shown(60, {OtherFar, OtherDim}), Shown(60, {SideNear, OwnShifted, BlankNear}),
      Shown(60, {BlankNear}), Shown(60, {OwnClose, OwnShifted}), Shown(60, {OwnBlurred}) }

\* A file with a key of the wrong type, and one with every key set.
MCFiles ==
    { [dark_threshold |-> None, detector_conf_threshold |-> 30],
      [dark_threshold |-> 30, enroll_quality_min |-> 5, similarity_floor |-> 80,
       height |-> 720, embedder_model |-> m2] }

Symmetry == Permutations({l1, l2})

MCModelId == m1 :> 1 @@ m2 :> 2
=============================================================================
