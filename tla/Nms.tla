--------------------------------- MODULE Nms ---------------------------------
(***************************************************************************)
(* From the outputs of the face detector to the faces of a frame: decode   *)
(* keeps the candidates that are confident enough, nms sorts them by score *)
(* and drops every candidate that overlaps a better one (models.cpp).      *)
(*                                                                         *)
(* A candidate is a record with a score and a box (and whatever else its   *)
(* user wants to know of it); scores and thresholds are in per cent, boxes *)
(* in whole pixels.  The sort is not stable, so candidates of equal score  *)
(* come in any order.  keep and dropped hold positions in dets.            *)
(***************************************************************************)
EXTENDS Integers, Sequences, FiniteSets

CONSTANTS
    Candidates,   \* what the detector may put out
    IouThr        \* nms_iou

ASSUME NmsAssumption ==
    /\ IsFiniteSet(Candidates)
    /\ \A c \in Candidates : c.score \in Int
    /\ IouThr \in Nat

VARIABLES
    dets,         \* the sorted candidates
    at,           \* the loop variable i
    keep,         \* positions pushed to keep
    dropped       \* positions marked as dropped

nmsVars == <<dets, at, keep, dropped>>

Lower(a, b) == IF a < b THEN a ELSE b

Upper(a, b) == IF a > b THEN a ELSE b

\* How far the intervals [from1, from1 + size1] and [from2, from2 + size2] overlap.
Shared(from1, size1, from2, size2) ==
    Upper(0, Lower(from1 + size1, from2 + size2) - Upper(from1, from2))

\* iou(a, b) > iou_thr, without the division.
Overlap(a, b) ==
    LET inter == Shared(a.x, a.width, b.x, b.width) * Shared(a.y, a.height, b.y, b.height)
        uni   == a.width * a.height + b.width * b.height - inter
    IN  uni > 0 /\ inter * 100 > IouThr * uni

\* Mutant of Sorted: the comparison is the wrong way round.
Sorted_Ascending(s) == \A i, j \in 1 .. Len(s) : i < j => s[i].score <= s[j].score

Sorted(s) == \A i, j \in 1 .. Len(s) : i < j => s[i].score >= s[j].score

\* Every vector that decode and std::sort can make of the candidates of a frame.
Decoded(frame, conf) ==
    LET found == { c \in frame : c.score >= conf }
        D == 1 .. Cardinality(found)
    IN  { s \in [D -> found] : Sorted(s) /\ \A i, j \in D : s[i] = s[j] => i = j }

NmsInit == dets = <<>> /\ at = 1 /\ keep = {} /\ dropped = {}

\* The vectors of a request go with it.
Forget == dets' = <<>> /\ at' = 1 /\ keep' = {} /\ dropped' = {}

\* Detector::detect begins on a frame.
Detect(frame, conf) ==
    /\ dets' \in Decoded(frame, conf)
    /\ at' = 1 /\ keep' = {} /\ dropped' = {}

\* Mutant of Suppress: only the next candidate is looked at.
Suppress_Next(i) ==
    { j \in i + 1 .. Len(dets) : j = i + 1 /\ Overlap(dets[i].box, dets[j].box) }

\* The inner loop.
Suppress(i) == { j \in i + 1 .. Len(dets) : Overlap(dets[i].box, dets[j].box) }

\* One turn of the outer loop.
NmsStep ==
    /\ at <= Len(dets)
    /\ IF at \in dropped
       THEN UNCHANGED <<keep, dropped>>
       ELSE /\ keep' = keep \cup {at}
            /\ dropped' = dropped \cup Suppress(at)
    /\ at' = at + 1
    /\ UNCHANGED dets

NmsDone == at > Len(dets)

\* dets.front() of the result.
Front == dets[CHOOSE i \in keep : \A j \in keep : i <= j]

-----------------------------------------------------------------------------
\* The face a frame is judged by is the most confident one in it, whatever the order in
\* which candidates of equal score come out of the sort.
FrontIsBest ==
    NmsDone /\ dets # <<>> =>
       /\ keep # {}
       /\ \A i \in 1 .. Len(dets) : Front.score >= dets[i].score

\* No face is reported twice and none is lost: two kept boxes do not overlap, and a box
\* that is not kept overlaps a kept one of at least its score.
NmsIsRight ==
    NmsDone =>
       /\ \A i, j \in keep : i < j => ~Overlap(dets[i].box, dets[j].box)
       /\ \A j \in 1 .. Len(dets) : j \in keep \/
             \E i \in keep : /\ Overlap(dets[i].box, dets[j].box)
                             /\ dets[i].score >= dets[j].score
=============================================================================
