---------------------------- MODULE TargetTracker ----------------------------
(***************************************************************************)
(* raspi/src/sancak/target_tracker.cpp: detections of successive frames    *)
(* become tracks with an identity, an age and a voted affiliation.         *)
(* Coordinates are integers, the IoU threshold a percentage; the smoothed  *)
(* velocity, which only the aim solver reads, is left out.                 *)
(***************************************************************************)
EXTENDS Integers, Sequences, FiniteSets, SequencesExt, FiniteSetsExt, Subsequences

Affiliations == {"Friend", "Foe", "Unknown"}
Detections ==
    [bbox : [x : Int, y : Int, w : Nat, h : Nat], cls : STRING, affiliation : Affiliations]

CONSTANTS
    iou_threshold,            \* in percent
    max_center_distance_px,
    max_lost_frames,
    min_confirm_frames,
    Scenes,                   \* what a frame may show: sequences of detections
    MaxTrackIds,              \* bound on the tracks between two resets
    MaxAge                    \* age is only compared, with less than this

ASSUME TrackerAssumption ==
    /\ iou_threshold \in 1..100 /\ max_center_distance_px \in Nat
    /\ max_lost_frames \in Nat /\ min_confirm_frames \in Nat
    /\ MaxTrackIds \in Nat /\ MaxAge \in Nat /\ MaxAge > min_confirm_frames /\ MaxAge > 1
    /\ \A scene \in Scenes : scene \in Seq(Detections)

VARIABLES tracks_, next_id_

tracker_vars == <<tracks_, next_id_>>

IsEnemy(cls) == cls \notin {"kFriendly", "kUnknown"}
kAffiliationHistoryMax == 5

-----------------------------------------------------------------------------
(* Geometry: a box is [x, y, w, h].                                        *)

Overlap(a, al, b, bl) == Max({0, Min({a + al, b + bl}) - Max({a, b})})
Inter(p, q) == Overlap(p.x, p.w, q.x, q.w) * Overlap(p.y, p.h, q.y, q.h)
Cover(p, q) == p.w * p.h + q.w * q.h - Inter(p, q)

\* The square of twice the distance of the centres.
centerDistance(p, q) ==
    LET dx == 2 * p.x + p.w - 2 * q.x - q.w
        dy == 2 * p.y + p.h - 2 * q.y - q.h
    IN  dx * dx + dy * dy

Overlapping(p, q) == Cover(p, q) > 0 /\ 100 * Inter(p, q) >= iou_threshold * Cover(p, q)
Near(p, q) == centerDistance(p, q) <= 4 * max_center_distance_px * max_center_distance_px

Box(pair, dets) == <<tracks_[pair[1]].bbox, dets[pair[2]].bbox>>
Clash(p, q) == p[1] = q[1] \/ p[2] = q[2]

\* What taking the pairs in the order of a sort can leave, the order of equals
\* being the sort's: who is left out clashes with one taken that is as good.
Greedy(pairs, asGood) ==
    {m \in SUBSET pairs :
        /\ \A p, q \in m : p # q => ~Clash(p, q)
        /\ \A p \in pairs \ m : \E q \in m : Clash(p, q) /\ <<q, p>> \in asGood}

candidates(dets) ==
    {p \in (DOMAIN tracks_) \X (DOMAIN dets) :
        Overlapping(tracks_[p[1]].bbox, dets[p[2]].bbox)}

\* Those that overlap most first.
matchDetections(dets) ==
    Greedy(candidates(dets),
           {qp \in candidates(dets) \X candidates(dets) :
               LET q == Box(qp[1], dets)
                   p == Box(qp[2], dets)
               IN  Inter(q[1], q[2]) * Cover(p[1], p[2])
                     >= Inter(p[1], p[2]) * Cover(q[1], q[2])})

\* Faulty variant: only what had no candidate in the first pass gets a second.
LeftoversOutsiders(dets, matches) ==
    {p \in (DOMAIN tracks_) \X (DOMAIN dets) :
        /\ \A q \in candidates(dets) : ~Clash(p, q)
        /\ Near(tracks_[p[1]].bbox, dets[p[2]].bbox)}

\* What the first pass has left, near enough.
Leftovers(dets, matches) ==
    {p \in (DOMAIN tracks_) \X (DOMAIN dets) :
        /\ \A q \in matches : ~Clash(p, q)
        /\ Near(tracks_[p[1]].bbox, dets[p[2]].bbox)}

\* The second pass: the nearest first.
SecondPass(dets, matches) ==
    LET pairs == Leftovers(dets, matches)
    IN  Greedy(pairs, {qp \in pairs \X pairs :
                          LET q == Box(qp[1], dets)
                              p == Box(qp[2], dets)
                          IN  centerDistance(q[1], q[2]) <= centerDistance(p[1], p[2])})

-----------------------------------------------------------------------------
Votes(history, a) == Cardinality({i \in DOMAIN history : history[i] = a})

\* Faulty variant: a tie goes to the newcomer.
majorityTieFlips(history, fallback) ==
    LET a == Last(history)
    IN  IF \A b \in Affiliations : Votes(history, a) >= Votes(history, b) THEN a ELSE fallback

\* A strict plurality wins; without one the affiliation stays.
majorityAffiliation(history, fallback) ==
    LET ahead == {a \in Affiliations : \A b \in Affiliations \ {a} :
                                          Votes(history, a) > Votes(history, b)}
    IN  IF ahead = {} THEN fallback ELSE CHOOSE a \in ahead : TRUE

Follow(t, det) ==
    LET all  == Append(t.affiliation_history, det.affiliation)
        over == Max({0, Len(all) - kAffiliationHistoryMax})
        hist == SubSeq(all, over + 1, Len(all))
    IN  [t EXCEPT !.bbox = det.bbox, !.cls = det.cls, !.affiliation_history = hist,
                  !.affiliation = majorityAffiliation(hist, @),
                  !.age = Min({@ + 1, MaxAge}), !.lost_frames = 0]

Born(det, id) ==
    [id |-> id, bbox |-> det.bbox, cls |-> det.cls, affiliation |-> det.affiliation,
     affiliation_history |-> <<det.affiliation>>, age |-> 1, lost_frames |-> 0,
     is_priority |-> FALSE]

Lost(t) == [t EXCEPT !.lost_frames = @ + 1]

Ranked(t) == [t EXCEPT !.is_priority =
                 IsEnemy(t.cls) /\ t.age >= min_confirm_frames /\ t.lost_frames = 0]

TrackerInit == tracks_ = <<>> /\ next_id_ = 0

\* The tracks after the passes: followed or lost.
Followed(dets, matches) ==
    [t \in DOMAIN tracks_ |->
       LET of == {d \in DOMAIN dets : <<t, d>> \in matches}
       IN  IF of = {} THEN Lost(tracks_[t]) ELSE Follow(tracks_[t], dets[CHOOSE d \in of : TRUE])]

\* The detections no track took, each a new track.
Unseen(dets, matches) ==
    Only([d \in DOMAIN dets |-> d],
         {d \in DOMAIN dets : \A t \in DOMAIN tracks_ : <<t, d>> \notin matches})
NewTracks(dets, unseen) == [i \in DOMAIN unseen |-> Born(dets[unseen[i]], next_id_ + i - 1)]

\* Without those lost too long.
Living(ts) == Only(ts, {t \in ToSet(ts) : t.lost_frames <= max_lost_frames})

trackerUpdate(dets) ==
    \E first \in matchDetections(dets) : \E second \in SecondPass(dets, first) :
        LET matches == first \cup second
            unseen  == Unseen(dets, matches)
            living  == Living(Followed(dets, matches) \o NewTracks(dets, unseen))
        IN  /\ next_id_' = next_id_ + Len(unseen) /\ next_id_' <= MaxTrackIds
            /\ tracks_' = [i \in DOMAIN living |-> Ranked(living[i])]

\* Faulty variant: the ids start again while the tracks live on.
trackerResetIds == next_id_' = 0 /\ UNCHANGED tracks_

trackerReset == tracks_' = <<>> /\ next_id_' = 0

\* The pipeline asks only for frames that show something.
TrackerNext ==
    \/ \E scene \in Scenes : scene # <<>> /\ trackerUpdate(scene)
    \/ trackerReset

TrackerSpec == TrackerInit /\ [][TrackerNext]_tracker_vars

-----------------------------------------------------------------------------
\* A track's history ends with its newest vote and never grows beyond the limit;
\* ids rise along the vector and stay below the next one.
TracksOK ==
    /\ next_id_ \in 0..MaxTrackIds
    /\ \A i \in DOMAIN tracks_ :
         LET t == tracks_[i]
         IN  /\ t.id < next_id_ /\ (i > 1 => tracks_[i - 1].id < t.id)
             /\ t.lost_frames \in 0..max_lost_frames /\ t.age \in 1..MaxAge
             /\ Len(t.affiliation_history) \in 1..kAffiliationHistoryMax
             /\ Votes(t.affiliation_history, t.affiliation) > 0

(***************************************************************************)
(* The two greedy passes leave nothing to pair: no track is declared lost  *)
(* in a frame that opens a new track within its reach, by overlap or by    *)
(* distance.  An object alone within a track's reach thus keeps its id,    *)
(* however its box changes.                                                *)
(***************************************************************************)
JustBorn(t) == t.age = 1 /\ t.lost_frames = 0

NothingLeftToPair ==
    \A i, j \in DOMAIN tracks_ :
        tracks_[i].lost_frames > 0 /\ JustBorn(tracks_[j]) =>
            /\ ~Overlapping(tracks_[i].bbox, tracks_[j].bbox)
            /\ ~Near(tracks_[i].bbox, tracks_[j].bbox)

(***************************************************************************)
(* One misread frame never turns friend into foe or back: a track changes  *)
(* its affiliation only to one read at least twice in its last five        *)
(* frames, and more often than the one it had.                             *)
(***************************************************************************)
OneFrameNeverFlips ==
    [][\A i \in DOMAIN tracks_, j \in DOMAIN tracks_' :
          LET t == tracks_[i]
              u == tracks_'[j]
          IN  t.id = u.id /\ t.affiliation # u.affiliation =>
                /\ Votes(u.affiliation_history, u.affiliation) >= 2
                /\ Votes(u.affiliation_history, u.affiliation)
                     > Votes(u.affiliation_history, t.affiliation)]_tracker_vars
=============================================================================
