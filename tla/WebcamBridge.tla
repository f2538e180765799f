------------------------------ MODULE WebcamBridge ------------------------------
(***************************************************************************)
(* The webcam bridge: detections of each frame are matched to tracks; an   *)
(* object that stays while nobody is near is reported as litter, people as *)
(* people.  Positions have one coordinate.  Frames come at any distance in *)
(* time, further apart than a track lives when the camera stalls.          *)
(***************************************************************************)
EXTENDS Integers, Sequences, SequencesExt, FiniteSets, FiniteSetsExt

CONSTANTS
  Scenes,            \* [litter, persons]: sequences of [label, x], and positions
  Gaps,               \* times between frames
  MaxDist, PersonNear,
  StaleAfter, Linger, PersonAway, FlushEvery, PersonEvery,
  MaxFrames           \* bound

ASSUME WebcamAssumption ==
  /\ \A f \in Scenes : f.litter \in Seq([label : STRING, x : Int]) /\ f.persons \subseteq Int
  /\ Gaps \subseteq Nat \ {0}
  /\ {MaxDist, PersonNear, StaleAfter, Linger, PersonAway, FlushEvery, PersonEvery} \subseteq Nat

VARIABLES
  webcamClock,
  tracks,             \* id -> [label, first_seen, last_seen, x, near, emitted, trail]
  next_track_id, last_person_event, last_webcam_flush,
  outbox,             \* the files of the output directory: time -> event
  reported,           \* history: the events, each with its track
  frame_times         \* history

webcamVars == <<webcamClock, tracks, next_track_id, last_person_event, last_webcam_flush, outbox, reported, frame_times>>

-----------------------------------------------------------------------------
distance(x, y) == IF x < y THEN y - x ELSE x - y

\* One detection: the nearest track of its label within reach (of equals the oldest), or a new one.
\* "acc" is the dictionary of tracks and the next id.
Match(acc, det, now) ==
  LET near == {t \in DOMAIN acc.tracks : acc.tracks[t].label = det.label /\ distance(det.x, acc.tracks[t].x) <= MaxDist}
      best == CHOOSE t \in near : \A u \in near :
                LET dt == distance(det.x, acc.tracks[t].x)
                    du == distance(det.x, acc.tracks[u].x)
                IN  dt < du \/ (dt = du /\ t <= u)
      new  == [label |-> det.label, first_seen |-> now, last_seen |-> now, x |-> det.x, near |-> 0,
               emitted |-> FALSE, trail |-> {}]
  IN  IF near # {}
        THEN [acc EXCEPT !.tracks[best].last_seen = now, !.tracks[best].x = det.x]
        ELSE [tracks |-> [t \in DOMAIN acc.tracks \cup {acc.next} |-> IF t = acc.next THEN new ELSE acc.tracks[t]],
              next |-> acc.next + 1]

update_tracks(dets, now) ==
  LET matched == FoldLeft(LAMBDA acc, det : Match(acc, det, now), [tracks |-> tracks, next |-> next_track_id], dets)
      fresh == {t \in DOMAIN matched.tracks : now - matched.tracks[t].last_seen <= StaleAfter}
  IN  [matched EXCEPT !.tracks = [t \in fresh |-> matched.tracks[t]]]

\* Mutant of mark_person_proximity: tracks that the frame did not show are passed over.
mark_seen_only(trs, persons, now) ==
  [t \in DOMAIN trs |->
     IF trs[t].last_seen = now /\ \E p \in persons : distance(trs[t].x, p) <= PersonNear
       THEN [trs[t] EXCEPT !.near = now] ELSE trs[t]]

mark_person_proximity(trs, persons, now) ==
  [t \in DOMAIN trs |->
     IF \E p \in persons : distance(trs[t].x, p) <= PersonNear THEN [trs[t] EXCEPT !.near = now] ELSE trs[t]]

\* History: where the track was, whether it was detected, and who was near.
Remember(trs, persons, now) ==
  [t \in DOMAIN trs |-> [trs[t] EXCEPT !.trail = @ \cup
     {[ts |-> now, seen |-> trs[t].last_seen = now, crowd |-> {p \in persons : distance(trs[t].x, p) <= PersonNear}]}]]

away(tr, now) == IF tr.near > 0 THEN now - tr.near ELSE now - tr.first_seen
IsLitter(tr, now) == ~tr.emitted /\ now - tr.first_seen >= Linger /\ away(tr, now) >= PersonAway

\* The event of a track, and the files of one frame: all have the name of the second, so of
\* several events only the last is left.
build_litter_event(t, now, trail) == [type |-> "possible_littering", track |-> t, at |-> now, trail |-> trail]
build_person_event(now) == [type |-> "person_detected", track |-> 0, at |-> now, trail |-> {}]
write_event_txt(events, now) ==
  outbox' = IF events = <<>> THEN outbox
            ELSE [s \in DOMAIN outbox \cup {now} |-> IF s = now THEN Last(events).type ELSE outbox[s]]

\* run_webcam, for one frame.
run_webcam(gap, frame) ==
  LET now == webcamClock + gap
      updated == update_tracks(frame.litter, now)
      marked == Remember(mark_person_proximity(updated.tracks, frame.persons, now), frame.persons, now)
      flush == now - last_webcam_flush >= FlushEvery
      litter == {t \in DOMAIN marked : flush /\ IsLitter(marked[t], now)}
      people == frame.persons # {} /\ now - last_person_event >= PersonEvery
      events == (IF people THEN <<build_person_event(now)>> ELSE <<>>)
                \o SetToSeq({build_litter_event(t, now, marked[t].trail) : t \in litter})
  IN  /\ Len(frame_times) < MaxFrames
      /\ webcamClock' = now
      /\ tracks' = [t \in DOMAIN marked |-> [marked[t] EXCEPT !.emitted = @ \/ t \in litter]]
      /\ next_track_id' = updated.next
      /\ last_person_event' = IF people THEN now ELSE last_person_event
      /\ last_webcam_flush' = IF flush THEN now ELSE last_webcam_flush
      /\ write_event_txt(events, now)
      /\ reported' = reported \o events
      /\ frame_times' = Append(frame_times, now)

\* The clock starts long after zero, the time that stands for never.
WebcamInit ==
  /\ webcamClock = 100 /\ tracks = [t \in {} |-> <<>>] /\ next_track_id = 1
  /\ last_person_event = 0 /\ last_webcam_flush = 100
  /\ outbox = [t \in {} |-> <<>>] /\ reported = <<>> /\ frame_times = <<>>

WebcamNext == \E g \in Gaps, f \in Scenes : run_webcam(g, f)
WebcamSpec == WebcamInit /\ [][WebcamNext]_webcamVars

-----------------------------------------------------------------------------
\* An object is reported as litter once; nobody was near it in any frame of the last seconds that
\* count as away; and it was detected over the whole time it has to linger, never missing longer
\* than a track lives, except while the camera itself delivered no frame (update_tracks,
\* mark_person_proximity and the flush of run_webcam).
LitterJustified ==
  \A i \in DOMAIN reported :
    LET e == reported[i]
        sightings == {s.ts : s \in {s \in e.trail : s.seen}}
        gap(a, b) == a < b /\ \A c \in sightings : c <= a \/ b <= c
    IN  e.type = "possible_littering" =>
          /\ \A j \in DOMAIN reported : (reported[j].type = e.type /\ reported[j].track = e.track) => i = j
          /\ \A s \in e.trail : s.ts > e.at - PersonAway => s.crowd = {}
          /\ \E a \in sightings : a <= e.at - Linger
          /\ \E b \in sightings : b + StaleAfter >= e.at
          /\ \A a, b \in sightings :
               (gap(a, b) /\ b - a > StaleAfter) => ~\E c \in Range(frame_times) : a + StaleAfter < c /\ c < b
=================================================================================
