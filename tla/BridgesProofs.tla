--------------------------- MODULE BridgesProofs ---------------------------
(***************************************************************************)
(* Proofs about HuskylensBridge and WebcamBridge, for any frames, labels,  *)
(* times of a write, intervals, thresholds and bounds.                     *)
(*                                                                         *)
(* Both bridges compute with lists of any length: the webcam matches one   *)
(* detection after another to its tracks, the sensor's bridge writes a     *)
(* buffer per interval and its consumer reads the files in the order of    *)
(* their names.  What such a computation keeps is shown of the function    *)
(* that takes one element at a time: a least number at which it fails      *)
(* would come after one at which it holds.                                 *)
(***************************************************************************)
EXTENDS HuskylensBridge, WebcamBridge, SequenceTheorems, FiniteSetTheorems, WellFoundedInduction, TLAPS

(***************************************************************************)
(* Sets of numbers.                                                        *)
(***************************************************************************)
\* A set of natural numbers that is not empty has a least one: what the inductions below rest on.
LEMMA LeastNumber ==
  ASSUME NEW T, T \subseteq Nat, T # {}
  PROVE  \E m \in T : \A k \in T : m <= k
<1>1. PICK m \in T : \A k \in T : ~ (<<k, m>> \in OpToRel(<, Nat))
  BY WFMin, NatLessThanWellFounded, Zenon
<1>2. \A k \in T : ~ (k < m)
  BY <1>1, Zenon DEF OpToRel
<1> QED  BY <1>2

\* Of numbers up to n there is a greatest, the one Max gives.
LEMMA MaxOfSome ==
  ASSUME NEW n \in Nat, NEW s \in SUBSET (1 .. n), s # {}
  PROVE  Max(s) \in s /\ \A y \in s : y <= Max(s)
<1> DEFINE T == {m \in Nat : \A y \in s : y <= m}
<1>1. n \in T  OBVIOUS
<1>2. PICK m \in T : \A k \in T : m <= k
  BY <1>1, LeastNumber
<1>3. m \in s
  <2>1. SUFFICES ASSUME m \notin s PROVE FALSE  OBVIOUS
  <2>2. PICK y \in s : TRUE  OBVIOUS
  <2>3. m \in Nat /\ y <= m /\ y \in 1 .. n  BY <1>2
  <2>4. m - 1 \in Nat  BY <2>3, <2>1
  <2>5. \A z \in s : z <= m - 1  BY <1>2, <2>1
  <2> QED  BY <2>4, <2>5, <1>2
<1>4. \E x \in s : \A y \in s : x >= y  BY <1>2, <1>3
<1>5. Max(s) \in s /\ \A y \in s : Max(s) >= y  BY <1>4 DEF Max
<1>6. \A y \in s : y \in Nat  OBVIOUS
<1> QED  BY <1>5, <1>6

(***************************************************************************)
(* The detections of a frame, matched one after another.                   *)
(***************************************************************************)
MatchedBy(it, base, dets, now, m) ==
  it = [s \in SUBSET (1 .. m) |->
          IF s = {} THEN base ELSE Match(it[s \ {Max(s)}], dets[Max(s)], now)]

\* The fold of update_tracks is the value of a function that takes one detection at a time.
LEMMA MatchedExists ==
  ASSUME NEW base, NEW dets, NEW now, NEW n \in Nat
  PROVE  \E it : MatchedBy(it, base, dets, now, n)
<1> DEFINE T == {m \in Nat : ~ \E it : MatchedBy(it, base, dets, now, m)}
<1>1. SUFFICES ASSUME T # {} PROVE FALSE  OBVIOUS
<1>2. PICK m \in T : \A k \in T : m <= k
  BY <1>1, LeastNumber
<1>3. m # 0
  <2>1. \E it : MatchedBy(it, base, dets, now, 0)
    <3> DEFINE it == [s \in SUBSET (1 .. 0) |-> base]
    <3>1. \A s \in SUBSET (1 .. 0) : s = {}  OBVIOUS
    <3>2. it = [s \in SUBSET (1 .. 0) |->
          IF s = {} THEN base ELSE Match(it[s \ {Max(s)}], dets[Max(s)], now)]
      BY <3>1
    <3>3. MatchedBy(it, base, dets, now, 0)  BY <3>2 DEF MatchedBy
    <3> HIDE DEF it
    <3> QED  BY <3>3
  <2> QED  BY <2>1, <1>2
<1>4. m - 1 \in Nat /\ m - 1 \notin T  BY <1>2, <1>3
<1>5. PICK g : MatchedBy(g, base, dets, now, m - 1)  BY <1>4
<1> DEFINE it == [s \in SUBSET (1 .. m) |->
          IF s = {} THEN base ELSE Match(g[s \ {Max(s)}], dets[Max(s)], now)]
<1>6. \A s \in SUBSET (1 .. m) : s # {} => s \ {Max(s)} \in SUBSET (1 .. m - 1)
  <2>1. TAKE s \in SUBSET (1 .. m)
  <2>2. HAVE s # {}
  <2>3. Max(s) \in s /\ \A y \in s : y <= Max(s)  BY <2>2, MaxOfSome
  <2>4. ASSUME NEW y \in s \ {Max(s)} PROVE y \in 1 .. m - 1
    <3>1. m \in Nat /\ y \in 1 .. m /\ Max(s) \in 1 .. m  BY <2>3, <2>4, <1>2
    <3>2. y <= Max(s) /\ y # Max(s)  BY <2>3, <2>4
    <3> QED  BY <3>1, <3>2
  <2> QED  BY <2>4
<1>7. \A s \in SUBSET (1 .. m - 1) : it[s] = g[s]
  <2>1. TAKE s \in SUBSET (1 .. m - 1)
  <2>2. s \in SUBSET (1 .. m)  OBVIOUS
  <2>3. it[s] = IF s = {} THEN base ELSE Match(g[s \ {Max(s)}], dets[Max(s)], now)
    BY <2>2
  <2>4. g[s] = IF s = {} THEN base ELSE Match(g[s \ {Max(s)}], dets[Max(s)], now)
    BY <1>5 DEF MatchedBy
  <2> QED  BY <2>3, <2>4
<1>8. it = [s \in SUBSET (1 .. m) |->
          IF s = {} THEN base ELSE Match(it[s \ {Max(s)}], dets[Max(s)], now)]
  <2>1. \A s \in SUBSET (1 .. m) : s # {} => it[s \ {Max(s)}] = g[s \ {Max(s)}]
    BY <1>6, <1>7
  <2> HIDE DEF T
  <2> QED  BY <2>1
<1>9. MatchedBy(it, base, dets, now, m)
  <2> HIDE DEF it
  <2> QED  BY <1>8 DEF MatchedBy
<1> HIDE DEF it
<1> QED  BY <1>9, <1>2

MatchAll(base, dets, now) == FoldLeft(LAMBDA acc, det : Match(acc, det, now), base, dets)

\* The tracks after the first k detections: k steps of Match, whose last is the fold of update_tracks.
LEMMA MatchedFold ==
  ASSUME NEW base, NEW dets, NEW now, NEW n \in Nat, DOMAIN dets = 1 .. n
  PROVE  \E acc : /\ acc[0] = base
                  /\ \A k \in 1 .. n : acc[k] = Match(acc[k - 1], dets[k], now)
                  /\ acc[n] = MatchAll(base, dets, now)
<1> DEFINE it == CHOOSE it : MatchedBy(it, base, dets, now, n)
<1>1. MatchedBy(it, base, dets, now, n)  BY MatchedExists
<1>2. MatchAll(base, dets, now) = it[1 .. n]
  BY DEF MatchAll, FoldLeft, MapThenFoldSet, MatchedBy
<1> HIDE DEF it
<1> DEFINE acc == [k \in 0 .. n |-> it[1 .. k]]
<1>3. acc[0] = base
  <2>1. 1 .. 0 = {} /\ {} \in SUBSET (1 .. n) /\ 0 \in 0 .. n  OBVIOUS
  <2>2. it[{}] = base  BY <1>1, <2>1 DEF MatchedBy
  <2> QED  BY <2>1, <2>2
<1>4. \A k \in 1 .. n : acc[k] = Match(acc[k - 1], dets[k], now)
  <2>1. TAKE k \in 1 .. n
  <2>2. 1 .. k \in SUBSET (1 .. n) /\ k \in 1 .. k /\ k \in Nat  OBVIOUS
  <2>3. Max(1 .. k) \in 1 .. k /\ k <= Max(1 .. k)
    <3>1. 1 .. k \in SUBSET (1 .. k) /\ 1 .. k # {}  BY <2>2
    <3> QED  BY <3>1, <2>2, MaxOfSome
  <2>4. Max(1 .. k) = k  BY <2>2, <2>3
  <2>5. (1 .. k) \ {k} = 1 .. k - 1  OBVIOUS
  <2>6. it[1 .. k] = Match(it[(1 .. k) \ {k}], dets[k], now)
    BY <1>1, <2>2, <2>4 DEF MatchedBy
  <2>7. k \in 0 .. n /\ k - 1 \in 0 .. n  OBVIOUS
  <2> QED  BY <2>5, <2>6, <2>7
<1>5. acc[n] = it[1 .. n]  OBVIOUS
<1> HIDE DEF acc
<1> QED  BY <1>2, <1>3, <1>4, <1>5
(***************************************************************************)
(* Sequences.                                                              *)
(***************************************************************************)
IsList(s) == s \in Seq(Range(s))

\* What stands where in one list after another.
LEMMA ListConcat ==
  ASSUME NEW s, NEW t, IsList(s), IsList(t)
  PROVE  /\ IsList(s \o t) /\ Len(s \o t) = Len(s) + Len(t)
         /\ Len(s) \in Nat /\ Len(t) \in Nat
         /\ DOMAIN s = 1 .. Len(s) /\ DOMAIN t = 1 .. Len(t) /\ DOMAIN (s \o t) = 1 .. Len(s) + Len(t)
         /\ \A i \in DOMAIN s : (s \o t)[i] = s[i]
         /\ \A i \in DOMAIN t : (s \o t)[Len(s) + i] = t[i]
         /\ \A i \in DOMAIN (s \o t) : i \in DOMAIN s \/ (i > Len(s) /\ i - Len(s) \in DOMAIN t)
         /\ Range(s \o t) = Range(s) \cup Range(t)
<1> DEFINE A == Range(s) \cup Range(t)
           u == s \o t
<1>1. s \in Seq(Range(s)) /\ t \in Seq(Range(t))  BY DEF IsList
<1>2. s \in Seq(A) /\ t \in Seq(A)
  <2> HIDE DEF A
  <2>1. Range(s) \subseteq A /\ Range(t) \subseteq A  BY DEF A
  <2> QED  BY <2>1, <1>1
<1> HIDE DEF A
<1>3. /\ u \in Seq(A) /\ Len(u) = Len(s) + Len(t)
      /\ Len(s) \in Nat /\ Len(t) \in Nat
      /\ DOMAIN s = 1 .. Len(s) /\ DOMAIN t = 1 .. Len(t) /\ DOMAIN u = 1 .. Len(s) + Len(t)
      /\ \A i \in DOMAIN s : u[i] = s[i]
  BY <1>2
<1>4. \A i \in DOMAIN t : u[Len(s) + i] = t[i]  BY <1>2
<1> HIDE DEF u
<1>5. \A i \in DOMAIN u : i \in DOMAIN s \/ (i > Len(s) /\ i - Len(s) \in DOMAIN t)  BY <1>3
<1>6. Range(u) = Range(s) \cup Range(t)
  <2>1. ASSUME NEW i \in DOMAIN u PROVE u[i] \in Range(s) \cup Range(t)
    <3>1. CASE i \in DOMAIN s  BY <3>1, <1>3 DEF Range
    <3>2. CASE i > Len(s) /\ i - Len(s) \in DOMAIN t
      <4>1. i \in Nat /\ Len(s) + (i - Len(s)) = i  BY <1>3
      <4>2. u[i] = t[i - Len(s)]  BY <4>1, <3>2, <1>4
      <4> QED  BY <4>2, <3>2 DEF Range
    <3> QED  BY <3>1, <3>2, <1>5
  <2>2. ASSUME NEW i \in DOMAIN s PROVE s[i] \in Range(u)
    <3>1. i \in DOMAIN u  BY <1>3
    <3> QED  BY <3>1, <1>3 DEF Range
  <2>3. ASSUME NEW i \in DOMAIN t PROVE t[i] \in Range(u)
    <3>1. Len(s) + i \in DOMAIN u  BY <1>3
    <3> QED  BY <3>1, <1>4 DEF Range
  <2> QED  BY <2>1, <2>2, <2>3 DEF Range
<1>7. IsList(u)
  <2>1. A = Range(u)  BY <1>6 DEF A
  <2> QED  BY <2>1, <1>3 DEF IsList
<1> QED  BY <1>3, <1>4, <1>5, <1>6, <1>7 DEF u

\* A finite set as a list: each element once.
LEMMA SetAsList ==
  ASSUME NEW S, IsFiniteSet(S)
  PROVE  /\ IsList(SetToSeq(S)) /\ Range(SetToSeq(S)) = S
         /\ Len(SetToSeq(S)) = Cardinality(S) /\ Cardinality(S) \in Nat
         /\ \A i, j \in DOMAIN SetToSeq(S) : SetToSeq(S)[i] = SetToSeq(S)[j] => i = j
<1> DEFINE n == Cardinality(S)
           q == SetToSeq(S)
<1>1. n \in Nat /\ ExistsBijection(1 .. n, S)  BY FS_CardinalityType
<1> HIDE DEF n
<1>2. PICK f \in [1 .. n -> S] : \A a, b \in 1 .. n : f[a] = f[b] => a = b
  BY <1>1 DEF ExistsBijection, Bijection, Injection, IsInjective
<1>3. IsInjective(f)  BY <1>2 DEF IsInjective
<1>4. q \in [1 .. n -> S] /\ IsInjective(q)
  BY <1>3 DEF SetToSeq, n
<1> HIDE DEF q
<1>5. q \in Injection(1 .. n, S)  BY <1>4 DEF Injection
<1>6. Cardinality(1 .. n) = n /\ IsFiniteSet(1 .. n)
  BY <1>1, FS_Interval
<1>7. q \in Surjection(1 .. n, S)
  <2>1. Cardinality(1 .. n) = Cardinality(S)  BY <1>6 DEF n
  <2> QED  BY <1>5, <2>1, FS_Injection
<1>8. Range(q) = S  BY <1>7, <1>4 DEF Range, Surjection
<1>9. q \in Seq(S) /\ Len(q) = n  BY <1>4, <1>1
<1>10. IsList(q)  BY <1>8, <1>9 DEF IsList
<1>11. \A i, j \in DOMAIN q : q[i] = q[j] => i = j  BY <1>4 DEF IsInjective
<1> QED  BY <1>1, <1>8, <1>9, <1>10, <1>11 DEF q, n
(***************************************************************************)
(* The webcam bridge.                                                      *)
(***************************************************************************)
IsTrack(tr) ==
  tr = [label |-> tr.label, first_seen |-> tr.first_seen, last_seen |-> tr.last_seen, x |-> tr.x,
        near |-> tr.near, emitted |-> tr.emitted, trail |-> tr.trail]

\* What the detections of a frame leave of the tracks "old" and the next id "nxt" before it.
Matched(acc, old, nxt, now) ==
  /\ acc = [tracks |-> acc.tracks, next |-> acc.next]
  /\ acc.next \in Nat /\ nxt <= acc.next
  /\ acc.tracks = [t \in DOMAIN acc.tracks |-> acc.tracks[t]]
  /\ DOMAIN acc.tracks \subseteq {t \in Nat : 1 <= t /\ t < acc.next}
  /\ \A t \in DOMAIN acc.tracks :
       LET tr == acc.tracks[t]
       IN  /\ IsTrack(tr)
           /\ t \in DOMAIN old => /\ tr.first_seen = old[t].first_seen /\ tr.near = old[t].near
                                  /\ tr.emitted = old[t].emitted /\ tr.trail = old[t].trail
                                  /\ tr.last_seen \in {old[t].last_seen, now}
           /\ t \notin DOMAIN old => /\ nxt <= t /\ tr.first_seen = now /\ tr.last_seen = now
                                     /\ tr.near = 0 /\ tr.emitted = FALSE /\ tr.trail = {}

\* One detection keeps that, whichever track it is matched to.
LEMMA MatchKeepsMatched ==
  ASSUME NEW old, NEW nxt \in Nat \ {0}, NEW now, NEW acc, NEW det, Matched(acc, old, nxt, now),
         DOMAIN old \subseteq {t \in Nat : t < nxt}
  PROVE  Matched(Match(acc, det, now), old, nxt, now)
<1> DEFINE near == {t \in DOMAIN acc.tracks : acc.tracks[t].label = det.label /\ distance(det.x, acc.tracks[t].x) <= MaxDist}
           best == CHOOSE t \in near : \A u \in near :
                     LET dt == distance(det.x, acc.tracks[t].x)
                         du == distance(det.x, acc.tracks[u].x)
                     IN  dt < du \/ (dt = du /\ t <= u)
           new  == [label |-> det.label, first_seen |-> now, last_seen |-> now, x |-> det.x, near |-> 0,
                    emitted |-> FALSE, trail |-> {}]
           r == Match(acc, det, now)
<1>1. r = IF near # {}
            THEN [acc EXCEPT !.tracks[best].last_seen = now, !.tracks[best].x = det.x]
            ELSE [tracks |-> [t \in DOMAIN acc.tracks \cup {acc.next} |-> IF t = acc.next THEN new ELSE acc.tracks[t]],
                  next |-> acc.next + 1]
  BY DEF Match
<1>2. CASE near # {}
  <2> HIDE DEF near, best
  <2>1. r = [acc EXCEPT !.tracks[best].last_seen = now, !.tracks[best].x = det.x]  BY <1>1, <1>2
  <2> HIDE DEF r
  <2>2. acc = [tracks |-> acc.tracks, next |-> acc.next]  BY DEF Matched
  <2>3. r = [tracks |-> r.tracks, next |-> acc.next]  BY <2>1, <2>2
  <2>4. r.next = acc.next  BY <2>3
  <2>5. r.tracks = [t \in DOMAIN acc.tracks |->
                     IF t = best THEN [acc.tracks[t] EXCEPT !.last_seen = now, !.x = det.x] ELSE acc.tracks[t]]
    <3>1. r.tracks = [acc.tracks EXCEPT ![best].last_seen = now, ![best].x = det.x]  BY <2>1, <2>2
    <3>2. acc.tracks = [t \in DOMAIN acc.tracks |-> acc.tracks[t]]  BY DEF Matched
    <3> QED  BY <3>1, <3>2
  <2>6. DOMAIN r.tracks = DOMAIN acc.tracks  BY <2>5
  <2>7. ASSUME NEW t \in DOMAIN acc.tracks
        PROVE  /\ IsTrack(r.tracks[t]) /\ r.tracks[t].first_seen = acc.tracks[t].first_seen
               /\ r.tracks[t].near = acc.tracks[t].near /\ r.tracks[t].emitted = acc.tracks[t].emitted
               /\ r.tracks[t].trail = acc.tracks[t].trail
               /\ r.tracks[t].last_seen \in {acc.tracks[t].last_seen, now}
    <3>1. IsTrack(acc.tracks[t])  BY DEF Matched
    <3>2. CASE t = best
      <4>1. r.tracks[t] = [acc.tracks[t] EXCEPT !.last_seen = now, !.x = det.x]  BY <2>5, <3>2
      <4> QED  BY <4>1, <3>1 DEF IsTrack
    <3>3. CASE t # best
      <4>1. r.tracks[t] = acc.tracks[t]  BY <2>5, <3>3
      <4> QED  BY <4>1, <3>1
    <3> QED  BY <3>2, <3>3
  <2>8. r.tracks = [t \in DOMAIN r.tracks |-> r.tracks[t]]  BY <2>5
  <2>9. \A t \in DOMAIN r.tracks :
          /\ IsTrack(r.tracks[t])
          /\ t \in DOMAIN old => /\ r.tracks[t].first_seen = old[t].first_seen /\ r.tracks[t].near = old[t].near
                                 /\ r.tracks[t].emitted = old[t].emitted /\ r.tracks[t].trail = old[t].trail
                                 /\ r.tracks[t].last_seen \in {old[t].last_seen, now}
          /\ t \notin DOMAIN old => /\ nxt <= t /\ r.tracks[t].first_seen = now /\ r.tracks[t].last_seen = now
                                    /\ r.tracks[t].near = 0 /\ r.tracks[t].emitted = FALSE /\ r.tracks[t].trail = {}
    BY <2>6, <2>7 DEF Matched
  <2>10. r.next \in Nat /\ nxt <= r.next /\ DOMAIN r.tracks \subseteq {t \in Nat : 1 <= t /\ t < r.next}
    BY <2>4, <2>6 DEF Matched
  <2>11. Matched(r, old, nxt, now)
    BY <2>3, <2>4, <2>8, <2>9, <2>10 DEF Matched
  <2> QED  BY <2>11 DEF r
<1>3. CASE near = {}
  <2>1. r = [tracks |-> [t \in DOMAIN acc.tracks \cup {acc.next} |-> IF t = acc.next THEN new ELSE acc.tracks[t]],
             next |-> acc.next + 1]
    BY <1>1, <1>3
  <2> HIDE DEF r, near
  <2>2. acc.next \in Nat /\ nxt <= acc.next /\ acc.next \notin DOMAIN acc.tracks /\ acc.next \notin DOMAIN old
    BY DEF Matched
  <2>3. r.next = acc.next + 1 /\ DOMAIN r.tracks = DOMAIN acc.tracks \cup {acc.next}
        /\ r.tracks[acc.next] = new /\ \A t \in DOMAIN acc.tracks : r.tracks[t] = acc.tracks[t]
    BY <2>1, <2>2
  <2>4. r = [tracks |-> r.tracks, next |-> r.next] /\ r.tracks = [t \in DOMAIN r.tracks |-> r.tracks[t]]
    BY <2>1
  <2>5. DOMAIN r.tracks \subseteq {t \in Nat : 1 <= t /\ t < r.next}  BY <2>2, <2>3 DEF Matched
  <2>6. IsTrack(new)  BY DEF IsTrack
  <2>7. ASSUME NEW t \in DOMAIN r.tracks
        PROVE  /\ IsTrack(r.tracks[t])
               /\ t \in DOMAIN old => /\ r.tracks[t].first_seen = old[t].first_seen /\ r.tracks[t].near = old[t].near
                                      /\ r.tracks[t].emitted = old[t].emitted /\ r.tracks[t].trail = old[t].trail
                                      /\ r.tracks[t].last_seen \in {old[t].last_seen, now}
               /\ t \notin DOMAIN old => /\ nxt <= t /\ r.tracks[t].first_seen = now /\ r.tracks[t].last_seen = now
                                         /\ r.tracks[t].near = 0 /\ r.tracks[t].emitted = FALSE /\ r.tracks[t].trail = {}
    <3>1. CASE t = acc.next
      <4>1. r.tracks[t] = new /\ t \notin DOMAIN old  BY <3>1, <2>2, <2>3
      <4>2. IsTrack(r.tracks[t])
        <5> HIDE DEF new
        <5> QED  BY <4>1, <2>6
      <4>3. new.first_seen = now /\ new.last_seen = now /\ new.near = 0 /\ new.emitted = FALSE /\ new.trail = {}
        OBVIOUS
      <4> HIDE DEF new
      <4> QED  BY <4>1, <4>2, <4>3, <3>1, <2>2
    <3>2. CASE t \in DOMAIN acc.tracks
      <4>1. r.tracks[t] = acc.tracks[t]  BY <3>2, <2>3
      <4> QED  BY <4>1, <3>2 DEF Matched
    <3> QED  BY <3>1, <3>2, <2>3
  <2>8. r.next \in Nat /\ nxt <= r.next  BY <2>2, <2>3
  <2>9. Matched(r, old, nxt, now)
    <3> HIDE DEF new
    <3> QED  BY <2>4, <2>5, <2>7, <2>8 DEF Matched
  <2> QED  BY <2>9 DEF r
<1> QED  BY <1>2, <1>3
Lasting(m, now) ==
  [m EXCEPT !.tracks = [t \in {u \in DOMAIN m.tracks : now - m.tracks[u].last_seen <= StaleAfter} |-> m.tracks[t]]]

\* update_tracks: the tracks after a frame, those not seen for too long dropped.
LEMMA UpdateMatches ==
  ASSUME NEW dets, NEW n \in Nat, DOMAIN dets = 1 .. n, NEW now,
         next_track_id \in Nat \ {0}, tracks = [t \in DOMAIN tracks |-> tracks[t]],
         DOMAIN tracks \subseteq {t \in Nat : 1 <= t /\ t < next_track_id},
         \A t \in DOMAIN tracks : IsTrack(tracks[t])
  PROVE  \E m : /\ Matched(m, tracks, next_track_id, now)
                /\ update_tracks(dets, now) =
                     Lasting(m, now)
<1> DEFINE base == [tracks |-> tracks, next |-> next_track_id]
           m == MatchAll(base, dets, now)
<1>1. Matched(base, tracks, next_track_id, now)
  <2> USE DEF Matched
  <2>1. base.tracks = tracks /\ base.next = next_track_id  OBVIOUS
  <2> HIDE DEF base
  <2>2. base = [tracks |-> base.tracks, next |-> base.next]  BY <2>1 DEF base
  <2> QED  BY <2>1, <2>2
<1> HIDE DEF base
<1>2. PICK acc : /\ acc[0] = base
                 /\ \A k \in 1 .. n : acc[k] = Match(acc[k - 1], dets[k], now)
                 /\ acc[n] = m
  BY MatchedFold
<1> DEFINE T == {k \in Nat : k <= n /\ ~ Matched(acc[k], tracks, next_track_id, now)}
<1>3. T = {}
  <2>1. SUFFICES ASSUME T # {} PROVE FALSE  OBVIOUS
  <2>2. PICK k \in T : \A j \in T : k <= j  BY <2>1, LeastNumber
  <2>3. k # 0  BY <2>2, <1>1, <1>2
  <2>4. k - 1 \in Nat /\ k \in 1 .. n /\ k - 1 \notin T  BY <2>2, <2>3
  <2>5. Matched(acc[k - 1], tracks, next_track_id, now)  BY <2>4
  <2>6. DOMAIN tracks \subseteq {t \in Nat : t < next_track_id}  OBVIOUS
  <2>7. Matched(Match(acc[k - 1], dets[k], now), tracks, next_track_id, now)
    BY <2>5, <2>6, MatchKeepsMatched
  <2> QED  BY <2>2, <2>4, <2>7, <1>2
<1>4. Matched(m, tracks, next_track_id, now)  BY <1>2, <1>3
<1>5. update_tracks(dets, now) = Lasting(m, now)
  BY DEF update_tracks, base, MatchAll, Lasting
<1> HIDE DEF m
<1> QED  BY <1>4, <1>5
\* When a track was detected; and that it was not missed longer than it lives while frames came.
Sightings(trail) == {s.ts : s \in {s \in trail : s.seen}}
Unbroken(S, frames) ==
  \A a, b \in S : (a < b /\ (\A c \in S : c <= a \/ b <= c) /\ b - a > StaleAfter)
                    => ~ \E c \in Range(frames) : a + StaleAfter < c /\ c < b

Entry(now, last_seen, crowd) == [ts |-> now, seen |-> last_seen = now, crowd |-> crowd]

\* What the history of a track says of its times.
TrackTrue(tr, clock, frames) ==
  /\ IsTrack(tr)
  /\ tr.first_seen \in Nat /\ tr.last_seen \in Nat /\ tr.near \in Nat /\ tr.emitted \in BOOLEAN
  /\ tr.last_seen <= clock /\ clock - tr.last_seen <= StaleAfter
  /\ \A s \in tr.trail : s.ts \in Nat /\ 0 < s.ts /\ s.ts <= clock /\ (s.crowd # {} => s.ts <= tr.near)
  /\ tr.first_seen \in Sightings(tr.trail) /\ tr.last_seen \in Sightings(tr.trail)
  /\ \A a \in Sightings(tr.trail) : a <= tr.last_seen
  /\ Unbroken(Sightings(tr.trail), frames)

Crowd(tr, persons) == {p \in persons : distance(tr.x, p) <= PersonNear}
Marks(trs, persons, now) == Remember(mark_person_proximity(trs, persons, now), persons, now)

\* mark_person_proximity and the history: a track keeps the rest, and gets one entry, with a time of
\* a person near it if there was one.
LEMMA MarkedTrack ==
  ASSUME NEW trs, NEW persons, NEW now, NEW t \in DOMAIN trs, IsTrack(trs[t]),
         NEW v, v = Marks(trs, persons, now)
  PROVE  /\ DOMAIN v = DOMAIN trs /\ IsTrack(v[t])
         /\ v[t].first_seen = trs[t].first_seen /\ v[t].last_seen = trs[t].last_seen
         /\ v[t].emitted = trs[t].emitted
         /\ v[t].trail = trs[t].trail \cup {Entry(now, trs[t].last_seen, Crowd(trs[t], persons))}
         /\ v[t].near = IF Crowd(trs[t], persons) = {} THEN trs[t].near ELSE now
<1> DEFINE w == mark_person_proximity(trs, persons, now)
           crowd == Crowd(trs[t], persons)
<1>0. crowd = {p \in persons : distance(trs[t].x, p) <= PersonNear}  BY DEF Crowd
<1>v. v = Remember(w, persons, now)  BY DEF Marks
<1>1. trs[t] = [label |-> trs[t].label, first_seen |-> trs[t].first_seen, last_seen |-> trs[t].last_seen, x |-> trs[t].x,
        near |-> trs[t].near, emitted |-> trs[t].emitted, trail |-> trs[t].trail]
  BY DEF IsTrack
<1>2. DOMAIN w = DOMAIN trs /\ w[t] = IF crowd # {} THEN [trs[t] EXCEPT !.near = now] ELSE trs[t]
  BY <1>0 DEF mark_person_proximity
<1>3. w[t] = [label |-> trs[t].label, first_seen |-> trs[t].first_seen, last_seen |-> trs[t].last_seen, x |-> trs[t].x,
        near |-> IF crowd = {} THEN trs[t].near ELSE now, emitted |-> trs[t].emitted, trail |-> trs[t].trail]
  <2> HIDE DEF crowd
  <2> QED  BY <1>1, <1>2
<1> HIDE DEF w
<1>4. w[t].x = trs[t].x /\ w[t].last_seen = trs[t].last_seen /\ w[t].trail = trs[t].trail
  <2> HIDE DEF crowd
  <2> QED  BY <1>3
<1>5. DOMAIN v = DOMAIN trs
  BY <1>2, <1>v DEF Remember
<1>6. v[t] = [w[t] EXCEPT !.trail = @ \cup
         {[ts |-> now, seen |-> w[t].last_seen = now, crowd |-> {p \in persons : distance(w[t].x, p) <= PersonNear}]}]
  BY <1>2, <1>v DEF Remember
<1>7. v[t] = [w[t] EXCEPT !.trail = trs[t].trail \cup
         {Entry(now, trs[t].last_seen, crowd)}]
  BY <1>0, <1>4, <1>6 DEF Entry
<1> HIDE DEF crowd
<1>8. v[t] = [label |-> trs[t].label, first_seen |-> trs[t].first_seen, last_seen |-> trs[t].last_seen, x |-> trs[t].x,
        near |-> IF crowd = {} THEN trs[t].near ELSE now, emitted |-> trs[t].emitted,
        trail |-> trs[t].trail \cup {Entry(now, trs[t].last_seen, crowd)}]
  BY <1>3, <1>7
<1>9. IsTrack(v[t])  BY <1>8 DEF IsTrack
<1>10. /\ v[t].first_seen = trs[t].first_seen /\ v[t].last_seen = trs[t].last_seen
       /\ v[t].emitted = trs[t].emitted
       /\ v[t].trail = trs[t].trail \cup {Entry(now, trs[t].last_seen, crowd)}
       /\ v[t].near = IF crowd = {} THEN trs[t].near ELSE now
  BY <1>8
<1> QED  BY <1>5, <1>9, <1>10 DEF crowd

\* A frame appends to the times of the frames.
LEMMA AppendRange ==
  ASSUME NEW frames \in Seq(Nat), NEW now \in Nat
  PROVE  /\ Append(frames, now) \in Seq(Nat)
         /\ Range(Append(frames, now)) = Range(frames) \cup {now}
<1> DEFINE u == Append(frames, now)
<1>1. u \in Seq(Nat) /\ DOMAIN u = 1 .. Len(frames) + 1 /\ Len(frames) \in Nat /\ DOMAIN frames = 1 .. Len(frames)
      /\ u[Len(frames) + 1] = now /\ \A i \in 1 .. Len(frames) : u[i] = frames[i]
  OBVIOUS
<1> HIDE DEF u
<1>2. ASSUME NEW c \in Range(u) PROVE c \in Range(frames) \cup {now}
  <2>1. PICK i \in DOMAIN u : c = u[i]  BY DEF Range
  <2>2. i = Len(frames) + 1 \/ i \in 1 .. Len(frames)  BY <1>1
  <2> QED  BY <2>1, <2>2, <1>1 DEF Range
<1>3. now \in Range(u) /\ Range(frames) \subseteq Range(u)
  <2>1. Len(frames) + 1 \in DOMAIN u /\ \A i \in 1 .. Len(frames) : i \in DOMAIN u  BY <1>1
  <2> QED  BY <2>1, <1>1 DEF Range
<1> QED  BY <1>1, <1>2, <1>3 DEF u
\* A track that lives on through a frame, seen or not, keeps the truth of its times.
LEMMA TrackStays ==
  ASSUME NEW old, NEW v, NEW crowd, NEW clock \in Nat, NEW now \in Nat, clock < now,
         NEW frames \in Seq(Nat), \A c \in Range(frames) : c <= clock,
         TrackTrue(old, clock, frames), IsTrack(v), v.emitted \in BOOLEAN,
         v.first_seen = old.first_seen, v.last_seen \in {old.last_seen, now},
         v.trail = old.trail \cup {Entry(now, v.last_seen, crowd)},
         v.near = IF crowd = {} THEN old.near ELSE now,
         now - v.last_seen <= StaleAfter
  PROVE  TrackTrue(v, now, Append(frames, now))
<1> DEFINE e == Entry(now, v.last_seen, crowd)
           S == Sightings(old.trail)
           R == Sightings(v.trail)
<1>a. StaleAfter \in Nat  BY WebcamAssumption
<1>1. /\ old.first_seen \in Nat /\ old.last_seen \in Nat /\ old.near \in Nat
      /\ old.last_seen <= clock /\ clock - old.last_seen <= StaleAfter
      /\ \A s \in old.trail : s.ts \in Nat /\ 0 < s.ts /\ s.ts <= clock /\ (s.crowd # {} => s.ts <= old.near)
      /\ old.first_seen \in S /\ old.last_seen \in S /\ \A a \in S : a <= old.last_seen
      /\ Unbroken(S, frames)
  BY DEF TrackTrue
<1>2. e.ts = now /\ e.seen = (v.last_seen = now) /\ e.crowd = crowd  BY DEF Entry
<1>3. v.trail = old.trail \cup {e}  OBVIOUS
<1> HIDE DEF e
<1>4. R = S \cup (IF v.last_seen = now THEN {now} ELSE {})
  <2>1. CASE v.last_seen = now
    <3>1. e.seen = TRUE  BY <2>1, <1>2
    <3>2. {s \in v.trail : s.seen} = {s \in old.trail : s.seen} \cup {e}  BY <3>1, <1>3
    <3> QED  BY <3>2, <2>1, <1>2 DEF Sightings, S, R
  <2>2. CASE v.last_seen # now
    <3>1. e.seen = FALSE  BY <2>2, <1>2
    <3>2. {s \in v.trail : s.seen} = {s \in old.trail : s.seen}  BY <3>1, <1>3
    <3> QED  BY <3>2, <2>2 DEF Sightings, S, R
  <2> QED  BY <2>1, <2>2
<1>5. \A a \in S : a \in Nat /\ a <= clock  BY <1>1 DEF Sightings
<1> HIDE DEF S, R
<1>6. \A s \in v.trail : s.ts \in Nat /\ 0 < s.ts /\ s.ts <= now /\ (s.crowd # {} => s.ts <= v.near)
  <2>1. TAKE s \in v.trail
  <2>2. CASE s = e  BY <2>2, <1>2
  <2>3. CASE s \in old.trail
    <3>1. s.ts \in Nat /\ 0 < s.ts /\ s.ts <= clock /\ (s.crowd # {} => s.ts <= old.near)  BY <2>3, <1>1
    <3>2. v.near \in {old.near, now}  OBVIOUS
    <3> QED  BY <3>1, <3>2
  <2> QED  BY <2>2, <2>3, <1>3
<1>7. v.first_seen \in R /\ v.last_seen \in R /\ \A a \in R : a <= v.last_seen
  <2>1. CASE v.last_seen = now  BY <2>1, <1>4, <1>5, <1>1
  <2>2. CASE v.last_seen # now  BY <2>2, <1>4, <1>1
  <2> QED  BY <2>1, <2>2
<1>8. Range(Append(frames, now)) = Range(frames) \cup {now} /\ \A c \in Range(frames) : c \in Nat
  <2>1. Range(Append(frames, now)) = Range(frames) \cup {now}  BY AppendRange
  <2>2. \A i \in DOMAIN frames : frames[i] \in Nat  OBVIOUS
  <2> QED  BY <2>1, <2>2 DEF Range
<1>9. Unbroken(R, Append(frames, now))
  <2>1. SUFFICES ASSUME NEW a \in R, NEW b \in R, a < b, \A c \in R : c <= a \/ b <= c, b - a > StaleAfter,
                        NEW c \in Range(Append(frames, now)), a + StaleAfter < c, c < b
                 PROVE  FALSE
    BY DEF Unbroken
  <2>2. a \in Nat /\ b \in Nat /\ b <= now  BY <1>4, <1>5
  <2>3. c \in Range(frames)  BY <2>1, <2>2, <1>8
  <2>4. c \in Nat /\ c <= clock  BY <2>3, <1>8
  <2>5. CASE b \in S
    <3>1. a \in S  BY <2>5, <2>1, <1>4, <1>5
    <3>2. \A d \in S : d <= a \/ b <= d  BY <2>1, <1>4
    <3> QED  BY <3>1, <3>2, <2>1, <2>3, <2>5, <1>1 DEF Unbroken
  <2>6. CASE b \notin S
    <3>1. b = now  BY <2>6, <1>4
    <3>2. old.last_seen <= a
      <4>1. old.last_seen \in R  BY <1>1, <1>4
      <4> QED  BY <4>1, <3>1, <2>1, <1>1
    <3> QED  BY <3>2, <2>1, <2>2, <2>4, <1>1, <1>a
  <2> QED  BY <2>5, <2>6
<1>10. v.first_seen \in Nat /\ v.last_seen \in Nat /\ v.near \in Nat /\ v.last_seen <= now  BY <1>1
<1> QED  BY <1>6, <1>7, <1>9, <1>10 DEF TrackTrue, R

\* A track that starts with a frame.
LEMMA TrackStarts ==
  ASSUME NEW v, NEW crowd, NEW now \in Nat \ {0},
         NEW frames \in Seq(Nat), IsTrack(v), v.emitted \in BOOLEAN,
         v.first_seen = now, v.last_seen = now,
         v.trail = {Entry(now, v.last_seen, crowd)},
         v.near = IF crowd = {} THEN 0 ELSE now
  PROVE  TrackTrue(v, now, frames)
<1>a. StaleAfter \in Nat  BY WebcamAssumption
<1> DEFINE e == Entry(now, v.last_seen, crowd)
<1>1. e.ts = now /\ e.seen = TRUE /\ e.crowd = crowd /\ v.trail = {e}  BY DEF Entry
<1> HIDE DEF e
<1>2. Sightings(v.trail) = {now}  BY <1>1 DEF Sightings
<1>3. Unbroken({now}, frames)  BY DEF Unbroken
<1>4. ASSUME NEW s \in v.trail
      PROVE  s.ts \in Nat /\ 0 < s.ts /\ s.ts <= now /\ (s.crowd # {} => s.ts <= v.near)
  <2>1. s.ts = now /\ s.crowd = crowd  BY <1>1
  <2>2. now \in Nat /\ 0 < now /\ now <= now  OBVIOUS
  <2> QED  BY <2>1, <2>2
<1>5. now <= now /\ now - now <= StaleAfter /\ v.near \in Nat  BY <1>a
<1>6. v.first_seen \in {now} /\ v.last_seen \in {now} /\ \A a \in {now} : a <= v.last_seen  BY <1>5
<1> QED  BY <1>2, <1>3, <1>4, <1>5, <1>6 DEF TrackTrue
\* What an event needs to be justified, with the frames so far.
Justified(e, frames) ==
  /\ e.at \in Nat
  /\ \A s \in e.trail : s.ts \in Nat /\ s.ts <= e.at /\ (s.ts > e.at - PersonAway => s.crowd = {})
  /\ \E a \in Sightings(e.trail) : a <= e.at - Linger
  /\ \E b \in Sightings(e.trail) : b + StaleAfter >= e.at
  /\ Unbroken(Sightings(e.trail), frames)

\* A track that IsLitter accepts makes a justified event.
LEMMA LitterIsJustified ==
  ASSUME NEW tr, NEW t, NEW now \in Nat, NEW frames, TrackTrue(tr, now, frames), IsLitter(tr, now)
  PROVE  Justified(build_litter_event(t, now, tr.trail), frames)
<1> DEFINE e == build_litter_event(t, now, tr.trail)
<1>a. StaleAfter \in Nat /\ PersonAway \in Nat /\ Linger \in Nat  BY WebcamAssumption
<1>1. e.at = now /\ e.trail = tr.trail  BY DEF build_litter_event
<1> HIDE DEF e
<1>2. /\ tr.first_seen \in Nat /\ tr.last_seen \in Nat /\ tr.near \in Nat
      /\ now - tr.last_seen <= StaleAfter
      /\ \A s \in tr.trail : s.ts \in Nat /\ 0 < s.ts /\ s.ts <= now /\ (s.crowd # {} => s.ts <= tr.near)
      /\ tr.first_seen \in Sightings(tr.trail) /\ tr.last_seen \in Sightings(tr.trail)
      /\ Unbroken(Sightings(tr.trail), frames)
  BY DEF TrackTrue
<1>3. now - tr.first_seen >= Linger /\ (tr.near > 0 => now - tr.near >= PersonAway)
  BY DEF IsLitter, away
<1>4. \A s \in tr.trail : s.ts > now - PersonAway => s.crowd = {}
  <2>1. TAKE s \in tr.trail
  <2>2. SUFFICES ASSUME s.ts > now - PersonAway, s.crowd # {} PROVE FALSE  OBVIOUS
  <2>3. s.ts \in Nat /\ 0 < s.ts /\ s.ts <= tr.near  BY <1>2, <2>2
  <2>4. now - tr.near >= PersonAway  BY <2>3, <1>2, <1>3
  <2> QED  BY <2>2, <2>3, <2>4, <1>2, <1>a
<1>5. tr.first_seen <= now - Linger /\ tr.last_seen + StaleAfter >= now
  BY <1>2, <1>3, <1>a
<1>6. Justified(e, frames)
  BY <1>1, <1>2, <1>4, <1>5 DEF Justified
<1> QED  BY <1>6 DEF e

\* It stays justified as frames come.
LEMMA JustifiedStays ==
  ASSUME NEW e, NEW frames \in Seq(Nat), NEW now \in Nat, Justified(e, frames), e.at < now
  PROVE  Justified(e, Append(frames, now))
<1>1. Range(Append(frames, now)) = Range(frames) \cup {now}  BY AppendRange
<1>2. \A b \in Sightings(e.trail) : b \in Nat /\ b < now
  BY DEF Justified, Sightings
<1>3. Unbroken(Sightings(e.trail), frames)  BY DEF Justified
<1>4. Unbroken(Sightings(e.trail), Append(frames, now))
  <2>1. SUFFICES ASSUME NEW a \in Sightings(e.trail), NEW b \in Sightings(e.trail), a < b,
                        \A c \in Sightings(e.trail) : c <= a \/ b <= c, b - a > StaleAfter,
                        NEW c \in Range(Append(frames, now)), a + StaleAfter < c, c < b
                 PROVE  FALSE
    BY DEF Unbroken
  <2>2. c \in Range(frames)  BY <2>1, <1>1, <1>2
  <2> QED  BY <2>1, <2>2, <1>3 DEF Unbroken
<1> QED  BY <1>4 DEF Justified

LitterEvents(litter, now, trail) == {build_litter_event(t, now, trail[t]) : t \in litter}
EventList(person, now, L) == (IF person THEN <<build_person_event(now)>> ELSE <<>>) \o SetToSeq(L)

\* The events of a frame: of a track there is one at most.
LEMMA EventsOnce ==
  ASSUME NEW litter, IsFiniteSet(litter), NEW trail, NEW now, NEW person \in BOOLEAN
  PROVE  LET L == LitterEvents(litter, now, trail)
             events == EventList(person, now, L)
         IN  /\ IsList(events)
             /\ \A i \in DOMAIN events : events[i].type = "possible_littering" => events[i] \in L
             /\ \A i, j \in DOMAIN events :
                  (/\ events[i].type = "possible_littering" /\ events[j].type = "possible_littering"
                   /\ events[i].track = events[j].track) => i = j
<1> DEFINE L == {build_litter_event(t, now, trail[t]) : t \in litter}
           P == IF person THEN <<build_person_event(now)>> ELSE <<>>
           Q == SetToSeq(L)
           events == P \o Q
<1>1. IsFiniteSet(L)
  <2> DEFINE f == [t \in litter |-> build_litter_event(t, now, trail[t])]
  <2>1. f \in Surjection(litter, L)  BY DEF Surjection
  <2> HIDE DEF f, L
  <2> QED  BY <2>1, FS_Surjection
<1>2. \A l \in L : \E t \in litter : l = build_litter_event(t, now, trail[t])  OBVIOUS
<1>3. \A l, k \in L : l.track = k.track => l = k
  BY <1>2 DEF build_litter_event
<1> HIDE DEF L
<1>4. IsList(Q) /\ Range(Q) = L /\ \A i, j \in DOMAIN Q : Q[i] = Q[j] => i = j
  BY <1>1, SetAsList
<1> HIDE DEF Q
<1>5. IsList(P) /\ \A i \in DOMAIN P : P[i].type = "person_detected"
  <2>1. CASE person
    <3>1. P = <<build_person_event(now)>>  BY <2>1
    <3>2. Range(P) = {build_person_event(now)} /\ P \in Seq({build_person_event(now)})
          /\ \A i \in DOMAIN P : P[i] = build_person_event(now)
      <4> DEFINE e == build_person_event(now)
      <4> HIDE DEF e
      <4>1. <<e>> \in Seq({e}) /\ DOMAIN <<e>> = {1} /\ <<e>>[1] = e  OBVIOUS
      <4>2. Range(<<e>>) = {e} /\ \A i \in DOMAIN <<e>> : <<e>>[i] = e  BY <4>1 DEF Range
      <4> QED  BY <3>1, <4>1, <4>2 DEF e
    <3>3. build_person_event(now).type = "person_detected"  BY DEF build_person_event
    <3> HIDE DEF P
    <3> QED  BY <3>2, <3>3 DEF IsList
  <2>2. CASE ~ person
    <3>1. P = <<>>  BY <2>2
    <3>2. Range(P) = {} /\ P \in Seq({}) /\ DOMAIN P = {}  BY <3>1 DEF Range
    <3> HIDE DEF P
    <3> QED  BY <3>2 DEF IsList
  <2> QED  BY <2>1, <2>2
<1> HIDE DEF P
<1>6. /\ IsList(events) /\ Len(P) \in Nat
      /\ \A i \in DOMAIN P : events[i] = P[i]
      /\ \A i \in DOMAIN Q : events[Len(P) + i] = Q[i]
      /\ \A i \in DOMAIN events : i \in DOMAIN P \/ (i > Len(P) /\ i - Len(P) \in DOMAIN Q)
      /\ DOMAIN events = 1 .. Len(P) + Len(Q)
  BY <1>4, <1>5, ListConcat
<1> HIDE DEF events
<1>7. ASSUME NEW i \in DOMAIN events, events[i].type = "possible_littering"
      PROVE  i \in Nat /\ i - Len(P) \in DOMAIN Q /\ events[i] = Q[i - Len(P)] /\ events[i] \in L
  <2>1. i \notin DOMAIN P  BY <1>5, <1>6, <1>7
  <2>2. i - Len(P) \in DOMAIN Q /\ i \in Nat /\ Len(P) + (i - Len(P)) = i  BY <2>1, <1>6
  <2>3. events[i] = Q[i - Len(P)]  BY <2>2, <1>6
  <2> QED  BY <2>2, <2>3, <1>4 DEF Range
<1>8. ASSUME NEW i \in DOMAIN events, NEW j \in DOMAIN events,
             events[i].type = "possible_littering", events[j].type = "possible_littering",
             events[i].track = events[j].track
      PROVE  i = j
  <2>1. i \in Nat /\ i - Len(P) \in DOMAIN Q /\ events[i] = Q[i - Len(P)] /\ events[i] \in L  BY <1>7, <1>8
  <2>2. j \in Nat /\ j - Len(P) \in DOMAIN Q /\ events[j] = Q[j - Len(P)] /\ events[j] \in L  BY <1>7, <1>8
  <2>3. Q[i - Len(P)] = Q[j - Len(P)]  BY <2>1, <2>2, <1>8, <1>3
  <2>4. i - Len(P) = j - Len(P)  BY <2>1, <2>2, <2>3, <1>4
  <2> QED  BY <2>1, <2>2, <2>4, <1>6
<1> QED  BY <1>6, <1>7, <1>8 DEF events, P, Q, L, LitterEvents, EventList
-----------------------------------------------------------------------------
\* The inductive invariant of the webcam bridge.
ClockTrue ==
  /\ webcamClock \in Nat \ {0} /\ frame_times \in Seq(Nat)
  /\ \A c \in Range(frame_times) : c <= webcamClock
TracksTrue ==
  /\ next_track_id \in Nat \ {0} /\ tracks = [t \in DOMAIN tracks |-> tracks[t]]
  /\ DOMAIN tracks \subseteq {t \in Nat : 1 <= t /\ t < next_track_id}
  /\ \A t \in DOMAIN tracks : TrackTrue(tracks[t], webcamClock, frame_times)
\* An event was justified when it came, no later, and its track is not to be reported again.
Littering(e) == e.type = "possible_littering"
ReportsTrue ==
  /\ IsList(reported)
  /\ \A i \in DOMAIN reported :
       LET e == reported[i]
       IN  Littering(e) =>
             /\ Justified(e, frame_times) /\ e.at <= webcamClock
             /\ e.track \in Nat /\ e.track < next_track_id
             /\ e.track \in DOMAIN tracks => tracks[e.track].emitted = TRUE
ReportedOnce ==
  \A i, j \in DOMAIN reported :
    (Littering(reported[i]) /\ Littering(reported[j]) /\ reported[i].track = reported[j].track) => i = j
WebcamInv == ClockTrue /\ TracksTrue /\ ReportsTrue /\ ReportedOnce

\* What a frame leaves of the tracks: each is true, those the frame adds are new ids, and one is
\* marked as emitted when it was before or is now.
LEMMA FrameTracks ==
  ASSUME ClockTrue, TracksTrue, NEW gap \in Gaps, NEW frame \in Scenes
  PROVE  LET now == webcamClock + gap
             updated == update_tracks(frame.litter, now)
             marked == Remember(mark_person_proximity(updated.tracks, frame.persons, now), frame.persons, now)
         IN  /\ updated.next \in Nat /\ next_track_id <= updated.next
             /\ DOMAIN marked \subseteq {t \in Nat : 1 <= t /\ t < updated.next}
             /\ \A t \in DOMAIN marked :
                  /\ TrackTrue(marked[t], now, Append(frame_times, now))
                  /\ t \in DOMAIN tracks => marked[t].emitted = tracks[t].emitted
                  /\ t \notin DOMAIN tracks => next_track_id <= t
<1> DEFINE now == webcamClock + gap
           updated == update_tracks(frame.litter, now)
           marked == Remember(mark_person_proximity(updated.tracks, frame.persons, now), frame.persons, now)
<1>1. now \in Nat \ {0} /\ webcamClock \in Nat /\ webcamClock < now
  BY WebcamAssumption DEF ClockTrue
<1>2. frame.litter \in Seq([label : STRING, x : Int])
  BY WebcamAssumption
<1>3. Len(frame.litter) \in Nat /\ DOMAIN frame.litter = 1 .. Len(frame.litter)  BY <1>2
<1>4. \A t \in DOMAIN tracks : IsTrack(tracks[t]) /\ TrackTrue(tracks[t], webcamClock, frame_times)
  BY DEF TracksTrue, TrackTrue
<1>5. /\ next_track_id \in Nat \ {0} /\ tracks = [t \in DOMAIN tracks |-> tracks[t]]
      /\ DOMAIN tracks \subseteq {t \in Nat : 1 <= t /\ t < next_track_id}
  BY DEF TracksTrue
<1> HIDE DEF now
<1>6. PICK m : /\ Matched(m, tracks, next_track_id, now)
               /\ updated = Lasting(m, now)
  <2> DEFINE n == Len(frame.litter)
  <2>1. n \in Nat /\ DOMAIN frame.litter = 1 .. n  BY <1>3
  <2>2. \A t \in DOMAIN tracks : IsTrack(tracks[t])  BY <1>4
  <2> HIDE DEF n
  <2>3. \E m : /\ Matched(m, tracks, next_track_id, now)
                /\ update_tracks(frame.litter, now) =
                     Lasting(m, now)
    BY <2>1, <2>2, <1>5, UpdateMatches
  <2> QED  BY <2>3
<1> HIDE DEF updated
<1>7. m = [tracks |-> m.tracks, next |-> m.next]  BY <1>6 DEF Matched
<1>8. /\ updated.next = m.next
      /\ updated.tracks = [t \in {u \in DOMAIN m.tracks : now - m.tracks[u].last_seen <= StaleAfter} |-> m.tracks[t]]
  BY <1>6, <1>7 DEF Lasting
<1>9. /\ DOMAIN updated.tracks \subseteq DOMAIN m.tracks
      /\ \A t \in DOMAIN updated.tracks : updated.tracks[t] = m.tracks[t] /\ now - m.tracks[t].last_seen <= StaleAfter
  BY <1>8
<1>10. /\ m.next \in Nat /\ next_track_id <= m.next
       /\ DOMAIN m.tracks \subseteq {t \in Nat : 1 <= t /\ t < m.next}
       /\ \A t \in DOMAIN m.tracks :
            /\ IsTrack(m.tracks[t])
            /\ t \in DOMAIN tracks =>
                 /\ m.tracks[t].first_seen = tracks[t].first_seen /\ m.tracks[t].near = tracks[t].near
                 /\ m.tracks[t].emitted = tracks[t].emitted /\ m.tracks[t].trail = tracks[t].trail
                 /\ m.tracks[t].last_seen \in {tracks[t].last_seen, now}
            /\ t \notin DOMAIN tracks =>
                 /\ next_track_id <= t /\ m.tracks[t].first_seen = now /\ m.tracks[t].last_seen = now
                 /\ m.tracks[t].near = 0 /\ m.tracks[t].emitted = FALSE /\ m.tracks[t].trail = {}
  BY <1>6 DEF Matched
<1>11. DOMAIN marked = DOMAIN updated.tracks
  BY DEF Remember, mark_person_proximity
<1>12. frame_times \in Seq(Nat) /\ \A c \in Range(frame_times) : c <= webcamClock  BY DEF ClockTrue
<1>13. Append(frame_times, now) \in Seq(Nat)  BY <1>1, <1>12
<1>14. ASSUME NEW t \in DOMAIN marked
       PROVE  /\ TrackTrue(marked[t], now, Append(frame_times, now))
              /\ t \in DOMAIN tracks => marked[t].emitted = tracks[t].emitted
              /\ t \notin DOMAIN tracks => next_track_id <= t
  <2>1. t \in DOMAIN updated.tracks /\ t \in DOMAIN m.tracks /\ updated.tracks[t] = m.tracks[t]
        /\ now - m.tracks[t].last_seen <= StaleAfter
    BY <1>9, <1>11
  <2>2. IsTrack(updated.tracks[t])  BY <2>1, <1>10
  <2>3. /\ IsTrack(marked[t])
        /\ marked[t].first_seen = m.tracks[t].first_seen /\ marked[t].last_seen = m.tracks[t].last_seen
        /\ marked[t].emitted = m.tracks[t].emitted
        /\ \E crowd :
             /\ marked[t].trail = m.tracks[t].trail \cup {Entry(now, m.tracks[t].last_seen, crowd)}
             /\ marked[t].near = IF crowd = {} THEN m.tracks[t].near ELSE now
    <3> DEFINE trs == updated.tracks
    <3>1. t \in DOMAIN trs /\ IsTrack(trs[t]) /\ trs[t] = m.tracks[t]  BY <2>1, <2>2
    <3>2. marked = Marks(trs, frame.persons, now)  BY DEF Marks
    <3> HIDE DEF trs, marked
    <3>3. /\ IsTrack(marked[t])
          /\ marked[t].first_seen = trs[t].first_seen /\ marked[t].last_seen = trs[t].last_seen
          /\ marked[t].emitted = trs[t].emitted
          /\ marked[t].trail = trs[t].trail \cup {Entry(now, trs[t].last_seen, Crowd(trs[t], frame.persons))}
          /\ marked[t].near = IF Crowd(trs[t], frame.persons) = {} THEN trs[t].near ELSE now
      BY <3>1, <3>2, MarkedTrack
    <3> QED  BY <3>1, <3>3
  <2>4. PICK crowd : /\ marked[t].trail = m.tracks[t].trail \cup {Entry(now, m.tracks[t].last_seen, crowd)}
                     /\ marked[t].near = IF crowd = {} THEN m.tracks[t].near ELSE now
    BY <2>3
  <2> HIDE DEF marked
  <2> DEFINE v == marked[t]
  <2>5. /\ IsTrack(v) /\ v.first_seen = m.tracks[t].first_seen /\ v.last_seen = m.tracks[t].last_seen
        /\ v.emitted = m.tracks[t].emitted
        /\ v.trail = m.tracks[t].trail \cup {Entry(now, v.last_seen, crowd)}
        /\ v.near = IF crowd = {} THEN m.tracks[t].near ELSE now
    BY <2>3, <2>4
  <2> HIDE DEF v
  <2>6. CASE t \in DOMAIN tracks
    <3> DEFINE old == tracks[t]
    <3>1. /\ TrackTrue(old, webcamClock, frame_times)
          /\ m.tracks[t].first_seen = old.first_seen /\ m.tracks[t].near = old.near
          /\ m.tracks[t].emitted = old.emitted /\ m.tracks[t].trail = old.trail
          /\ m.tracks[t].last_seen \in {old.last_seen, now}
      BY <2>6, <2>1, <1>4, <1>10
    <3>2. old.emitted \in BOOLEAN  BY <3>1 DEF TrackTrue
    <3> HIDE DEF old
    <3>3. /\ v.emitted \in BOOLEAN /\ v.first_seen = old.first_seen /\ v.last_seen \in {old.last_seen, now}
          /\ v.trail = old.trail \cup {Entry(now, v.last_seen, crowd)}
          /\ v.near = IF crowd = {} THEN old.near ELSE now
          /\ now - v.last_seen <= StaleAfter
      BY <2>1, <2>5, <3>1, <3>2
    <3>4. now \in Nat  BY <1>1
    <3>5. TrackTrue(v, now, Append(frame_times, now))
      BY <1>1, <1>12, <2>5, <3>1, <3>3, <3>4, TrackStays
    <3> QED  BY <2>5, <2>6, <3>1, <3>5 DEF v, old
  <2>7. CASE t \notin DOMAIN tracks
    <3>1. /\ next_track_id <= t /\ m.tracks[t].first_seen = now /\ m.tracks[t].last_seen = now
          /\ m.tracks[t].near = 0 /\ m.tracks[t].emitted = FALSE /\ m.tracks[t].trail = {}
      BY <2>7, <2>1, <1>10
    <3>2. /\ v.emitted \in BOOLEAN /\ v.first_seen = now /\ v.last_seen = now
          /\ v.trail = {Entry(now, v.last_seen, crowd)}
          /\ v.near = IF crowd = {} THEN 0 ELSE now
      BY <2>5, <3>1
    <3>3. TrackTrue(v, now, Append(frame_times, now))
      BY <1>1, <1>13, <2>5, <3>2, TrackStarts
    <3> QED  BY <2>7, <3>1, <3>3 DEF v
  <2> QED  BY <2>6, <2>7
<1>15. updated.next \in Nat /\ next_track_id <= updated.next
       /\ DOMAIN marked \subseteq {t \in Nat : 1 <= t /\ t < updated.next}
  BY <1>8, <1>9, <1>10, <1>11
<1> QED  BY <1>14, <1>15 DEF now, updated, marked
\* A frame keeps the invariant.
LEMMA FrameKeeps ==
  ASSUME WebcamInv, NEW gap \in Gaps, NEW frame \in Scenes, run_webcam(gap, frame)
  PROVE  WebcamInv'
<1> DEFINE now == webcamClock + gap
           updated == update_tracks(frame.litter, now)
           marked == Remember(mark_person_proximity(updated.tracks, frame.persons, now), frame.persons, now)
           flush == now - last_webcam_flush >= FlushEvery
           litter == {t \in DOMAIN marked : flush /\ IsLitter(marked[t], now)}
           people == frame.persons # {} /\ now - last_person_event >= PersonEvery
           trail == [t \in DOMAIN marked |-> marked[t].trail]
           L == {build_litter_event(t, now, trail[t]) : t \in litter}
           events == (IF people THEN <<build_person_event(now)>> ELSE <<>>) \o SetToSeq(L)
           frames == Append(frame_times, now)
<1>1. /\ webcamClock' = now /\ next_track_id' = updated.next /\ frame_times' = frames
      /\ tracks' = [t \in DOMAIN marked |-> [marked[t] EXCEPT !.emitted = @ \/ t \in litter]]
  BY DEF run_webcam
<1>2. reported' = reported \o events
  <2>1. L = {build_litter_event(t, now, marked[t].trail) : t \in litter}  OBVIOUS
  <2> HIDE DEF L
  <2> QED  BY <2>1 DEF run_webcam
<1>3. now \in Nat \ {0} /\ webcamClock \in Nat /\ webcamClock < now
  BY WebcamAssumption DEF WebcamInv, ClockTrue
<1>4. /\ updated.next \in Nat /\ next_track_id <= updated.next
      /\ DOMAIN marked \subseteq {t \in Nat : 1 <= t /\ t < updated.next}
      /\ \A t \in DOMAIN marked :
           /\ TrackTrue(marked[t], now, frames)
           /\ t \in DOMAIN tracks => marked[t].emitted = tracks[t].emitted
           /\ t \notin DOMAIN tracks => next_track_id <= t
  BY FrameTracks DEF WebcamInv
<1> HIDE DEF now, updated, marked, flush, people
<1>5. next_track_id \in Nat \ {0}  BY DEF WebcamInv, TracksTrue
<1>6. IsFiniteSet(litter)
  <2>1. litter \in SUBSET (1 .. updated.next)  BY <1>4
  <2>2. IsFiniteSet(1 .. updated.next)
    <3>1. updated.next \in Int /\ 1 \in Int  BY <1>4
    <3> QED  BY <3>1, FS_Interval
  <2> QED  BY <2>1, <2>2, FS_Subset
<1>7. /\ IsList(events)
      /\ \A i \in DOMAIN events : Littering(events[i]) => events[i] \in L
      /\ \A i, j \in DOMAIN events :
           (Littering(events[i]) /\ Littering(events[j]) /\ events[i].track = events[j].track) => i = j
  <2>1. people \in BOOLEAN  BY DEF people
  <2>2. L = LitterEvents(litter, now, trail) /\ events = EventList(people, now, L)  BY DEF LitterEvents, EventList
  <2> HIDE DEF trail, litter, L, events
  <2> QED  BY <2>1, <2>2, <1>6, EventsOnce DEF Littering
<1>8. frame_times \in Seq(Nat) /\ \A c \in Range(frame_times) : c <= webcamClock
  BY DEF WebcamInv, ClockTrue
<1>9. ClockTrue'
  <2>1. frames \in Seq(Nat) /\ Range(frames) = Range(frame_times) \cup {now}  BY <1>3, <1>8, AppendRange
  <2>2. \A i \in DOMAIN frame_times : frame_times[i] \in Nat  BY <1>8
  <2>3. \A c \in Range(frame_times) : c \in Nat  BY <2>2 DEF Range
  <2>4. \A c \in Range(frames) : c <= now  BY <2>1, <2>3, <1>3, <1>8
  <2> HIDE DEF frames
  <2> QED  BY <2>1, <2>4, <1>1, <1>3 DEF ClockTrue
<1> HIDE DEF frames, events, L
<1>10. /\ DOMAIN tracks' = DOMAIN marked
       /\ \A t \in DOMAIN marked : TrackTrue(tracks'[t], now, frames)
       /\ \A t \in DOMAIN marked : tracks'[t].emitted = (marked[t].emitted \/ t \in litter)
       /\ tracks' = [t \in DOMAIN tracks' |-> tracks'[t]]
  <2>1. DOMAIN tracks' = DOMAIN marked /\ tracks' = [t \in DOMAIN tracks' |-> tracks'[t]]  BY <1>1
  <2>2. ASSUME NEW t \in DOMAIN marked
        PROVE  TrackTrue(tracks'[t], now, frames) /\ tracks'[t].emitted = (marked[t].emitted \/ t \in litter)
    <3> DEFINE tr == marked[t]
               v == tracks'[t]
               b == t \in litter
    <3>1. v = [tr EXCEPT !.emitted = tr.emitted \/ b]  BY <1>1
    <3>2. TrackTrue(tr, now, frames)  BY <1>4
    <3> HIDE DEF tr, v, b
    <3>3. tr = [label |-> tr.label, first_seen |-> tr.first_seen, last_seen |-> tr.last_seen, x |-> tr.x,
                near |-> tr.near, emitted |-> tr.emitted, trail |-> tr.trail]
      BY <3>2 DEF TrackTrue, IsTrack
    <3>4. v = [label |-> tr.label, first_seen |-> tr.first_seen, last_seen |-> tr.last_seen, x |-> tr.x,
                near |-> tr.near, emitted |-> (tr.emitted \/ b), trail |-> tr.trail]
      BY <3>1, <3>3
    <3>5. /\ v.first_seen = tr.first_seen /\ v.last_seen = tr.last_seen /\ v.near = tr.near /\ v.trail = tr.trail
          /\ v.emitted = (tr.emitted \/ b) /\ IsTrack(v) /\ v.emitted \in BOOLEAN
      BY <3>4 DEF IsTrack
    <3>6. TrackTrue(v, now, frames)  BY <3>2, <3>5 DEF TrackTrue
    <3> QED  BY <3>5, <3>6 DEF tr, v, b
  <2> QED  BY <2>1, <2>2
<1>11. TracksTrue'
  <2>1. updated.next \in Nat \ {0}  BY <1>4, <1>5
  <2> QED  BY <2>1, <1>1, <1>4, <1>10 DEF TracksTrue
<1>12. ASSUME NEW i \in DOMAIN reported, Littering(reported[i])
       PROVE  LET e == reported[i]
              IN  /\ Justified(e, frames) /\ e.at <= now
                  /\ e.track \in Nat /\ e.track < next_track_id /\ e.track < updated.next
                  /\ e.track \notin litter
                  /\ e.track \in DOMAIN marked => (e.track \in DOMAIN tracks /\ marked[e.track].emitted = TRUE)
  <2> DEFINE e == reported[i]
  <2>1. /\ Justified(e, frame_times) /\ e.at <= webcamClock
        /\ e.track \in Nat /\ e.track < next_track_id
        /\ e.track \in DOMAIN tracks => tracks[e.track].emitted = TRUE
    BY <1>12 DEF WebcamInv, ReportsTrue
  <2> HIDE DEF e
  <2>2. e.at \in Nat /\ e.at < now /\ e.at <= now
    <3>1. e.at \in Nat  BY <2>1 DEF Justified
    <3> QED  BY <3>1, <2>1, <1>3
  <2>3. Justified(e, frames)
    <3>1. now \in Nat  BY <1>3
    <3> QED  BY <3>1, <2>1, <2>2, <1>8, JustifiedStays DEF frames
  <2>4. e.track \in DOMAIN marked => (e.track \in DOMAIN tracks /\ marked[e.track].emitted = TRUE)
    <3>1. SUFFICES ASSUME e.track \in DOMAIN marked
                   PROVE  e.track \in DOMAIN tracks /\ marked[e.track].emitted = TRUE
      OBVIOUS
    <3>2. e.track \in DOMAIN tracks  BY <3>1, <2>1, <1>4, <1>5
    <3> QED  BY <3>1, <3>2, <2>1, <1>4
  <2>5. e.track \notin litter
    <3>1. SUFFICES ASSUME e.track \in litter PROVE FALSE  OBVIOUS
    <3>2. e.track \in DOMAIN marked /\ ~ marked[e.track].emitted  BY <3>1 DEF IsLitter
    <3> QED  BY <3>2, <2>4
  <2>6. e.track < updated.next  BY <2>1, <1>4, <1>5
  <2> QED  BY <2>1, <2>2, <2>3, <2>4, <2>5, <2>6 DEF e
<1>13. ASSUME NEW i \in DOMAIN events, Littering(events[i])
       PROVE  LET e == events[i]
              IN  /\ Justified(e, frames) /\ e.at <= now
                  /\ e.track \in Nat /\ e.track < updated.next /\ e.track \in litter
  <2> DEFINE e == events[i]
  <2>1. e \in L  BY <1>7, <1>13
  <2> HIDE DEF e
  <2>2. PICK t \in litter : e = build_litter_event(t, now, trail[t])  BY <2>1 DEF L
  <2>3. t \in DOMAIN marked /\ IsLitter(marked[t], now) /\ trail[t] = marked[t].trail  OBVIOUS
  <2>4. TrackTrue(marked[t], now, frames) /\ t \in Nat /\ t < updated.next  BY <2>3, <1>4
  <2>5. e.track = t /\ e.at = now  BY <2>2 DEF build_litter_event
  <2>6. Justified(e, frames)
    <3>1. now \in Nat  BY <1>3
    <3> QED  BY <2>2, <2>3, <2>4, <3>1, LitterIsJustified
  <2> QED  BY <2>2, <2>4, <2>5, <2>6, <1>3 DEF e
<1>14. IsList(reported)  BY DEF WebcamInv, ReportsTrue
<1>15. /\ IsList(reported') /\ Len(reported) \in Nat
       /\ DOMAIN reported = 1 .. Len(reported) /\ DOMAIN events = 1 .. Len(events) /\ Len(events) \in Nat
       /\ \A i \in DOMAIN reported : reported'[i] = reported[i]
       /\ \A i \in DOMAIN events : reported'[Len(reported) + i] = events[i]
       /\ \A i \in DOMAIN reported' : i \in DOMAIN reported \/ (i > Len(reported) /\ i - Len(reported) \in DOMAIN events)
       /\ DOMAIN reported' = 1 .. Len(reported) + Len(events)
  BY <1>2, <1>7, <1>14, ListConcat
<1>16. ASSUME NEW i \in DOMAIN reported'
       PROVE  \/ i \in DOMAIN reported /\ reported'[i] = reported[i]
              \/ i \in Nat /\ i - Len(reported) \in DOMAIN events /\ reported'[i] = events[i - Len(reported)]
  <2>1. CASE i \in DOMAIN reported  BY <2>1, <1>15
  <2>2. CASE i > Len(reported) /\ i - Len(reported) \in DOMAIN events
    <3>1. i \in Nat /\ Len(reported) + (i - Len(reported)) = i  BY <1>15
    <3> QED  BY <3>1, <2>2, <1>15
  <2> QED  BY <2>1, <2>2, <1>15
<1> HIDE DEF litter, trail
<1>17. ReportsTrue'
  <2>1. ASSUME NEW i \in DOMAIN reported', Littering(reported'[i])
        PROVE  LET e == reported'[i]
               IN  /\ Justified(e, frames) /\ e.at <= now
                   /\ e.track \in Nat /\ e.track < updated.next
                   /\ e.track \in DOMAIN tracks' => tracks'[e.track].emitted = TRUE
    <3>1. CASE i \in DOMAIN reported /\ reported'[i] = reported[i]
      <4> DEFINE e == reported[i]
      <4>1. /\ Justified(e, frames) /\ e.at <= now /\ e.track \in Nat /\ e.track < updated.next
            /\ e.track \in DOMAIN marked => marked[e.track].emitted = TRUE
        BY <3>1, <2>1, <1>12
      <4>2. e.track \in DOMAIN tracks' => tracks'[e.track].emitted = TRUE  BY <4>1, <1>10
      <4> QED  BY <3>1, <4>1, <4>2
    <3>2. CASE i \in Nat /\ i - Len(reported) \in DOMAIN events /\ reported'[i] = events[i - Len(reported)]
      <4> DEFINE e == events[i - Len(reported)]
      <4>1. /\ Justified(e, frames) /\ e.at <= now /\ e.track \in Nat /\ e.track < updated.next
            /\ e.track \in litter
        BY <3>2, <2>1, <1>13
      <4>2. e.track \in DOMAIN tracks' => tracks'[e.track].emitted = TRUE  BY <4>1, <1>10
      <4> QED  BY <3>2, <4>1, <4>2
    <3> QED  BY <3>1, <3>2, <1>16
  <2> QED  BY <2>1, <1>1, <1>15 DEF ReportsTrue
<1>18. ReportedOnce'
  <2>1. SUFFICES ASSUME NEW i \in DOMAIN reported', NEW j \in DOMAIN reported',
                        Littering(reported'[i]), Littering(reported'[j]),
                        reported'[i].track = reported'[j].track
                 PROVE  i = j
    BY DEF ReportedOnce, Littering
  <2>2. CASE i \in DOMAIN reported /\ reported'[i] = reported[i]
    <3>1. reported'[i].track \notin litter  BY <2>1, <2>2, <1>12
    <3>2. CASE j \in DOMAIN reported /\ reported'[j] = reported[j]
      BY <2>1, <2>2, <3>2 DEF WebcamInv, ReportedOnce
    <3>3. CASE j \in Nat /\ j - Len(reported) \in DOMAIN events /\ reported'[j] = events[j - Len(reported)]
      BY <2>1, <3>1, <3>3, <1>13
    <3> QED  BY <3>2, <3>3, <1>16
  <2>3. CASE i \in Nat /\ i - Len(reported) \in DOMAIN events /\ reported'[i] = events[i - Len(reported)]
    <3>1. reported'[i].track \in litter  BY <2>1, <2>3, <1>13
    <3>2. CASE j \in DOMAIN reported /\ reported'[j] = reported[j]
      BY <2>1, <3>1, <3>2, <1>12
    <3>3. CASE j \in Nat /\ j - Len(reported) \in DOMAIN events /\ reported'[j] = events[j - Len(reported)]
      <4>1. i - Len(reported) = j - Len(reported)  BY <2>1, <2>3, <3>3, <1>7
      <4> QED  BY <4>1, <2>3, <3>3, <1>15
    <3> QED  BY <3>2, <3>3, <1>16
  <2> QED  BY <2>2, <2>3, <1>16
<1> QED  BY <1>9, <1>11, <1>17, <1>18 DEF WebcamInv

\* The invariant holds of every state of the webcam bridge.
THEOREM WebcamInvariant == WebcamSpec => []WebcamInv
<1>1. WebcamInit => WebcamInv
  <2> SUFFICES ASSUME WebcamInit PROVE WebcamInv  OBVIOUS
  <2>1. /\ webcamClock = 100 /\ tracks = [t \in {} |-> <<>>] /\ next_track_id = 1
        /\ reported = <<>> /\ frame_times = <<>>
    BY DEF WebcamInit
  <2>2. ClockTrue  BY <2>1 DEF ClockTrue, Range
  <2>3. TracksTrue  BY <2>1 DEF TracksTrue
  <2>4. ReportsTrue  BY <2>1 DEF ReportsTrue, IsList, Range
  <2>5. ReportedOnce  BY <2>1 DEF ReportedOnce
  <2> QED  BY <2>2, <2>3, <2>4, <2>5 DEF WebcamInv
<1>2. WebcamInv /\ [WebcamNext]_webcamVars => WebcamInv'
  <2> SUFFICES ASSUME WebcamInv, [WebcamNext]_webcamVars PROVE WebcamInv'  OBVIOUS
  <2>1. CASE WebcamNext
    <3>1. PICK g \in Gaps, f \in Scenes : run_webcam(g, f)  BY <2>1 DEF WebcamNext
    <3> QED  BY <3>1, FrameKeeps
  <2>2. CASE UNCHANGED webcamVars
    BY <2>2 DEF webcamVars, WebcamInv, ClockTrue, TracksTrue, ReportsTrue, ReportedOnce, Littering
  <2> QED  BY <2>1, <2>2
<1> QED  BY <1>1, <1>2, PTL DEF WebcamSpec

\* The webcam bridge reports an object as litter once, and only after it lay there alone, and was
\* seen, for as long as the configuration says (run_webcam).
THEOREM WebcamReportsAreJustified == WebcamSpec => []LitterJustified
<1>1. WebcamInv => LitterJustified
  <2> SUFFICES ASSUME WebcamInv PROVE LitterJustified  OBVIOUS
  <2>1. ASSUME NEW i \in DOMAIN reported, reported[i].type = "possible_littering"
        PROVE  LET e == reported[i]
               IN  /\ \A j \in DOMAIN reported : (reported[j].type = e.type /\ reported[j].track = e.track) => i = j
                   /\ Justified(e, frame_times)
    BY <2>1 DEF WebcamInv, ReportsTrue, ReportedOnce, Littering
  <2> QED  BY <2>1 DEF LitterJustified, Justified, Sightings, Unbroken
<1> QED  BY <1>1, WebcamInvariant, PTL
(***************************************************************************)
(* The sensor bridge.  What is inductive of it is that the looks at the    *)
(* clock before two writes are an interval apart, that the name of a write *)
(* is the second it was taken in, and that a file with such a name holds   *)
(* the latest write of the name.                                           *)
(***************************************************************************)
Writes == [name : Nat, delay : Nat, at : Nat, upto : Nat]
N == Len(writes)

TimesTrue ==
  /\ huskyClock \in Nat /\ writes \in Seq(Writes) /\ last_flush = At(N) /\ started_at = At(N)
  /\ At(N) <= huskyClock
  /\ \A n \in 1 .. N : /\ writes[n].name * Second <= writes[n].at + writes[n].delay
                       /\ writes[n].at + writes[n].delay < writes[n].name * Second + Second
  /\ \A m, n \in 1 .. N : m < n => writes[m].at + FlushInterval <= writes[n].at

\* The writes divide what was received, the buffer has the rest.
BufferTrue ==
  /\ IsList(buffer) /\ IsList(received)
  /\ Upto(N) <= Len(received)
  /\ \A m, n \in 1 .. N : m < n => writes[m].upto <= writes[n].upto
  /\ state # "error" => buffer = Waiting /\ Len(buffer) = Len(received) - Upto(N)
  /\ \A d \in Range(buffer) : ~ d.dated => d.ts \in Nat /\ started_at <= d.ts /\ d.ts <= huskyClock
  /\ \A n \in 1 .. N : \A i \in DOMAIN Taken(n) :
       ~ Taken(n)[i].dated => At(n - 1) <= Taken(n)[i].ts /\ Taken(n)[i].ts <= At(n)

Told(n) == /\ writes[n].name \in DOMAIN products
           /\ products[writes[n].name].window = <<At(n - 1), At(n)>>
           /\ Tells(products[writes[n].name], Taken(n))
FilesTrue == \A n \in 1 .. N : Quick(n) => Told(n)

HuskyInv == TimesTrue /\ BufferTrue /\ FilesTrue

\* The detections a line gives: one at most, of the time it came.
LEMMA LineDetections ==
  ASSUME NEW l
  PROVE  LET good == {d \in parse_line_to_detection(l) : d.confidence >= MinConfidence}
         IN  IsList(SetToSeq(good)) /\ \A d \in Range(SetToSeq(good)) : d.ts = huskyClock
<1> DEFINE P == parse_line_to_detection(l)
           good == {d \in P : d.confidence >= MinConfidence}
<1>1. \A d \in P : d.ts = huskyClock  BY DEF parse_line_to_detection
<1>2. IsFiniteSet(P)
  <2>1. \E x : P \subseteq {x}  BY DEF parse_line_to_detection
  <2>2. PICK x : P \subseteq {x}  BY <2>1
  <2> HIDE DEF P
  <2>3. IsFiniteSet({x})  BY FS_Singleton
  <2> QED  BY <2>2, <2>3, FS_Subset
<1> HIDE DEF P
<1>3. IsFiniteSet(good)
  <2>1. good \in SUBSET P  OBVIOUS
  <2> QED  BY <2>1, <1>2, FS_Subset
<1>4. \A d \in good : d.ts = huskyClock  BY <1>1
<1> HIDE DEF good
<1>5. IsList(SetToSeq(good)) /\ Range(SetToSeq(good)) = good  BY <1>3, SetAsList
<1> QED  BY <1>4, <1>5 DEF good, P


\* The number of a second (product names).
LEMMA SecondOf ==
  ASSUME NEW a \in Nat
  PROVE  LET k == a \div Second
         IN  k \in Nat /\ k * Second <= a /\ a < k * Second + Second
<1>1. Second \in Nat \ {0}  BY HuskyAssumption
<1>2. a \div Second \in Nat  BY <1>1
<1>3. (a \div Second) * Second <= a  BY <1>1
<1>4. a < (a \div Second) * Second + Second  BY <1>1
<1> QED  BY <1>2, <1>3, <1>4

\* A quick write has a name before that of a write an interval later.
LEMMA QuickIsEarlier ==
  ASSUME NEW w \in Writes, NEW v \in Writes, w.at + FlushInterval <= v.at, w.delay + Second <= FlushInterval,
         w.name * Second <= w.at + w.delay, v.at + v.delay < v.name * Second + Second
  PROVE  w.name < v.name
<1> DEFINE j == w.name
           k == v.name
<1>1. Second \in Nat \ {0} /\ FlushInterval \in Nat  BY HuskyAssumption
<1>2. /\ j \in Nat /\ k \in Nat /\ w.at \in Nat /\ v.at \in Nat /\ w.delay \in Nat /\ v.delay \in Nat
  BY DEF Writes
<1>3. j * Second <= w.at + w.delay /\ v.at + v.delay < k * Second + Second
  OBVIOUS
<1> HIDE DEF j, k
<1>4. j * Second \in Nat /\ k * Second \in Nat  BY <1>1, <1>2
<1>5. j * Second < k * Second  BY <1>1, <1>2, <1>3, <1>4
<1>6. j < k  BY <1>1, <1>2, <1>5
<1> QED  BY <1>6 DEF j, k

\* The writes and what is read of them are numbers.
LEMMA WritesTyped ==
  ASSUME TimesTrue
  PROVE  /\ N \in Nat /\ N = Len(writes) /\ writes \in Seq(Writes)
         /\ \A n \in 1 .. N : /\ writes[n] \in Writes /\ writes[n].upto \in Nat /\ writes[n].at \in Nat
                              /\ writes[n].name \in Nat /\ writes[n].delay \in Nat
         /\ \A n \in 0 .. N : /\ At(n) \in Nat /\ Upto(n) \in Nat
                              /\ n # 0 => At(n) = writes[n].at /\ Upto(n) = writes[n].upto
         /\ 0 \in 0 .. N /\ N \in 0 .. N
<1>1. N \in Nat /\ N = Len(writes) /\ writes \in Seq(Writes)  BY DEF TimesTrue, N
<1>2. \A n \in 1 .. N : writes[n] \in Writes  BY <1>1
<1>3. ASSUME NEW n \in 1 .. N
      PROVE  /\ writes[n] \in Writes /\ writes[n].upto \in Nat /\ writes[n].at \in Nat
             /\ writes[n].name \in Nat /\ writes[n].delay \in Nat
  BY <1>2 DEF Writes
<1>4. ASSUME NEW n \in 0 .. N
      PROVE  /\ At(n) \in Nat /\ Upto(n) \in Nat
             /\ n # 0 => At(n) = writes[n].at /\ Upto(n) = writes[n].upto
  <2>1. n = 0 \/ n \in 1 .. N  BY <1>1
  <2> QED  BY <1>3, <2>1 DEF At, Upto
<1> QED  BY <1>1, <1>3, <1>4

\* The text of a product tells what it was built from (build_product_text).
LEMMA TextTells ==
  ASSUME NEW from, NEW to, NEW dets, IsList(dets)
  PROVE  LET p == build_product_text(from, to, dets)
         IN  p.window = <<from, to>> /\ Tells(p, dets)
<1> DEFINE p == build_product_text(from, to, dets)
           labels == {dets[i].label : i \in DOMAIN dets}
           by == [l \in labels |-> Cardinality({i \in DOMAIN dets : dets[i].label = l})]
           shown == IF Len(dets) < SamplesShown THEN Len(dets) ELSE SamplesShown
<1>1. Len(dets) \in Nat /\ DOMAIN dets = 1 .. Len(dets) /\ SamplesShown \in Nat
  BY HuskyAssumption DEF IsList
<1>2. /\ p.window = <<from, to>> /\ p.total = Len(dets) /\ p.by_label = by
      /\ p.samples = [i \in 1 .. shown |-> dets[i]]
  BY DEF build_product_text
<1> HIDE DEF p
<1>3. \A i \in DOMAIN dets : i <= SamplesShown => i \in 1 .. shown
  BY <1>1
<1>4. Tells(p, dets)
  BY <1>2, <1>3 DEF Tells
<1> QED  BY <1>2, <1>4 DEF p

\* What has been received stays where it is, so that what the writes took is the same.
LEMMA MoreReceived ==
  ASSUME TimesTrue, BufferTrue, NEW q, IsList(q), received' = received \o q,
         NEW w, writes' = writes \/ (w \in Writes /\ writes' = Append(writes, w))
  PROVE  \A n \in 1 .. N : /\ n \in 1 .. N' /\ writes'[n] = writes[n]
                           /\ Taken(n)' = Taken(n) /\ At(n)' = At(n) /\ At(n - 1)' = At(n - 1)
<1> SUFFICES ASSUME NEW n \in 1 .. N
             PROVE  /\ n \in 1 .. N' /\ writes'[n] = writes[n]
                    /\ Taken(n)' = Taken(n) /\ At(n)' = At(n) /\ At(n - 1)' = At(n - 1)
  OBVIOUS
<1>1. writes \in Seq(Writes) /\ N \in Nat /\ N = Len(writes)  BY DEF TimesTrue, N
<1>2. N' \in Nat /\ N <= N' /\ \A k \in 1 .. N : writes'[k] = writes[k]
  BY <1>1 DEF N
<1>3. n \in 1 .. N' /\ writes'[n] = writes[n] /\ (n # 1 => n - 1 \in 1 .. N /\ writes'[n - 1] = writes[n - 1])
  BY <1>1, <1>2
<1>4. Upto(n)' = Upto(n) /\ Upto(n - 1)' = Upto(n - 1) /\ At(n)' = At(n) /\ At(n - 1)' = At(n - 1)
  BY <1>3 DEF Upto, At
<1>5. Upto(n) \in Nat /\ Upto(n - 1) \in Nat /\ Upto(n) <= Len(received) /\ Upto(N) \in Nat
  <2>2. Upto(n) \in Nat /\ Upto(n - 1) \in Nat /\ Upto(N) \in Nat
    <3>1. n \in 0 .. N /\ n - 1 \in 0 .. N  BY <1>1
    <3> QED  BY <3>1, WritesTyped
  <2>3. n = N \/ n < N  BY <1>1
  <2>4. Upto(n) <= Upto(N)  BY <1>1, <2>2, <2>3 DEF Upto, BufferTrue
  <2>5. Len(received) \in Nat /\ Upto(N) <= Len(received)  BY DEF BufferTrue, IsList
  <2> QED  BY <2>2, <2>4, <2>5
<1>6. Len(received) \in Nat /\ \A i \in 1 .. Len(received) : received'[i] = received[i]
  BY ListConcat DEF BufferTrue
<1>7. Taken(n)' = Taken(n)
  <2> DEFINE a == Upto(n - 1)
             b == Upto(n)
  <2>1. a \in Nat /\ b \in Nat /\ b <= Len(received)  BY <1>5
  <2>2. Taken(n) = [i \in 1 .. b - a |-> received[a + i]]  BY DEF Taken
  <2>3. Taken(n)' = [i \in 1 .. b - a |-> received'[a + i]]  BY <1>4 DEF Taken
  <2> HIDE DEF a, b
  <2>4. \A i \in 1 .. b - a : a + i \in 1 .. Len(received)  BY <1>6, <2>1
  <2> QED  BY <1>6, <2>2, <2>3, <2>4
<1> QED  BY <1>3, <1>4, <1>7

\* Waiting, with what a line brought.
LEMMA MoreWaiting ==
  ASSUME TimesTrue, BufferTrue, state # "error", NEW q, IsList(q)
  PROVE  LET r == received \o q
             u == Upto(N)
         IN  /\ buffer \o q = [i \in 1 .. Len(r) - u |-> r[u + i]]
             /\ Len(buffer \o q) = Len(r) - u /\ u \in Nat /\ Len(r) \in Nat /\ u <= Len(r)
             /\ Len(received) <= Len(r)
<1> DEFINE r == received \o q
           u == Upto(N)
           b == buffer \o q
<1>1. writes \in Seq(Writes) /\ N \in Nat /\ N = Len(writes)  BY DEF TimesTrue, N
<1>2. u \in Nat  BY WritesTyped
<1>3. /\ u <= Len(received) /\ buffer = [i \in 1 .. Len(received) - u |-> received[u + i]]
      /\ Len(buffer) = Len(received) - u
  BY <1>1 DEF BufferTrue, Waiting
<1>4. /\ Len(r) = Len(received) + Len(q) /\ Len(received) \in Nat /\ Len(q) \in Nat
      /\ DOMAIN received = 1 .. Len(received) /\ DOMAIN q = 1 .. Len(q)
      /\ \A i \in DOMAIN received : r[i] = received[i]
      /\ \A i \in DOMAIN q : r[Len(received) + i] = q[i]
  BY ListConcat DEF BufferTrue
<1>5. /\ Len(b) = Len(buffer) + Len(q) /\ DOMAIN b = 1 .. Len(buffer) + Len(q) /\ IsList(b)
      /\ DOMAIN buffer = 1 .. Len(buffer)
      /\ \A i \in DOMAIN buffer : b[i] = buffer[i]
      /\ \A i \in DOMAIN q : b[Len(buffer) + i] = q[i]
      /\ \A i \in DOMAIN b : i \in DOMAIN buffer \/ (i > Len(buffer) /\ i - Len(buffer) \in DOMAIN q)
  BY ListConcat DEF BufferTrue
<1> HIDE DEF r, u, b
<1>6. ASSUME NEW i \in DOMAIN b PROVE b[i] = r[u + i]
  <2>1. CASE i \in DOMAIN buffer
    <3>1. i \in 1 .. Len(received) - u  BY <2>1, <1>3, <1>5
    <3>2. u + i \in 1 .. Len(received)  BY <3>1, <1>2, <1>3, <1>4
    <3> QED  BY <2>1, <3>1, <3>2, <1>3, <1>4, <1>5
  <2>2. CASE i > Len(buffer) /\ i - Len(buffer) \in DOMAIN q
    <3> DEFINE j == i - Len(buffer)
    <3>1. j \in DOMAIN q /\ j \in Nat  BY <2>2, <1>4
    <3>2. i = Len(buffer) + j /\ u + i = Len(received) + j
      <4>1. i \in Nat /\ Len(buffer) \in Nat  BY <1>2, <1>3, <1>4, <1>5
      <4> QED  BY <4>1, <1>2, <1>3, <1>4
    <3> HIDE DEF j
    <3> QED  BY <3>1, <3>2, <1>4, <1>5
  <2> QED  BY <2>1, <2>2, <1>5
<1>7. DOMAIN b = 1 .. Len(r) - u /\ Len(b) = Len(r) - u  BY <1>2, <1>3, <1>4, <1>5
<1>8. b = [i \in DOMAIN b |-> b[i]]
  <2>1. b \in Seq(Range(b))  BY <1>5 DEF IsList
  <2> QED  BY <2>1
<1>9. b = [i \in 1 .. Len(r) - u |-> r[u + i]]
  <2>1. b = [i \in DOMAIN b |-> r[u + i]]  BY <1>6, <1>8
  <2> QED  BY <2>1, <1>7
<1>10. u <= Len(r) /\ Len(r) \in Nat /\ Len(received) <= Len(r)  BY <1>2, <1>3, <1>4
<1> QED  BY <1>2, <1>7, <1>9, <1>10 DEF r, u, b

\* Nothing written: the files and what they took are the same.
LEMMA NoWrite ==
  ASSUME HuskyInv, NEW q, IsList(q), received' = received \o q,
         UNCHANGED <<writes, products, last_flush, started_at>>,
         huskyClock' \in Nat, huskyClock <= huskyClock', IsList(buffer'),
         state' # "error" => buffer' = Waiting' /\ Len(buffer') = Len(received') - Upto(N),
         \A d \in Range(buffer') : ~ d.dated => d.ts \in Nat /\ started_at <= d.ts /\ d.ts <= huskyClock'
  PROVE  HuskyInv'
<1>1. TimesTrue /\ BufferTrue /\ FilesTrue  BY DEF HuskyInv
<1>2. \A n \in 1 .. N : Taken(n)' = Taken(n) /\ At(n)' = At(n) /\ At(n - 1)' = At(n - 1)
  BY <1>1, MoreReceived
<1>3. N' = N /\ N \in Nat /\ Upto(N)' = Upto(N) /\ At(N)' = At(N)  BY <1>1 DEF N, Upto, At, TimesTrue
<1>4. TimesTrue'
  <2>1. At(N) <= huskyClock'
    <3>1. At(N) \in Nat  BY <1>1, WritesTyped
    <3> QED  BY <1>1, <3>1 DEF TimesTrue
  <2> QED  BY <1>1, <1>3, <2>1 DEF TimesTrue
<1>5. IsList(received') /\ Len(received) <= Len(received') /\ Len(received) \in Nat /\ Len(received') \in Nat
  BY <1>1, ListConcat DEF BufferTrue
<1>6. Upto(N) <= Len(received')
  <2>1. Upto(N) \in Nat  BY <1>1, WritesTyped
  <2> QED  BY <1>1, <1>5, <2>1 DEF BufferTrue
<1>7. ASSUME NEW n \in 1 .. N, NEW i \in DOMAIN Taken(n)', ~ Taken(n)'[i].dated
      PROVE  At(n - 1)' <= Taken(n)'[i].ts /\ Taken(n)'[i].ts <= At(n)'
  BY <1>1, <1>2, <1>7 DEF BufferTrue
<1>8. BufferTrue'
  BY <1>1, <1>3, <1>5, <1>6, <1>7 DEF BufferTrue
<1>9. FilesTrue'
  BY <1>1, <1>2, <1>3 DEF FilesTrue, Told, Quick
<1> QED  BY <1>4, <1>8, <1>9 DEF HuskyInv

\* A write takes what waits; a quick one before it keeps its file.
LEMMA WriteKeeps ==
  ASSUME HuskyInv, state # "error", huskyClock - last_flush >= FlushInterval, NEW q, IsList(q),
         \A d \in Range(q) : d.ts = huskyClock,
         received' = received \o q, NEW d \in 0 .. SlowWrite, huskyClock' = huskyClock + d, write_batch(buffer \o q, d)
  PROVE  HuskyInv'
<1> DEFINE k == (huskyClock + d) \div Second
           r == received'
           w == [name |-> k, delay |-> d, at |-> huskyClock, upto |-> Len(r)]
           b == buffer \o q
           p == build_product_text(started_at, huskyClock, b)
<1>1. TimesTrue /\ BufferTrue /\ FilesTrue  BY DEF HuskyInv
<1>a. N \in Nat  BY <1>1, WritesTyped
<1>b. PICK o \in Nat : o = N  BY <1>a
<1>2. /\ writes \in Seq(Writes) /\ o = Len(writes) /\ o = N /\ huskyClock \in Nat /\ d \in Nat
      /\ FlushInterval \in Nat /\ Second \in Nat
      /\ \A n \in 1 .. o : /\ writes[n] \in Writes /\ writes[n].upto \in Nat /\ writes[n].at \in Nat
                           /\ writes[n].name \in Nat /\ writes[n].delay \in Nat
      /\ At(o) \in Nat /\ Upto(o) \in Nat /\ (o # 0 => At(o) = writes[o].at /\ Upto(o) = writes[o].upto)
  BY <1>1, <1>b, WritesTyped, HuskyAssumption DEF TimesTrue
<1>3. /\ writes' = Append(writes, w) /\ buffer' = <<>> /\ started_at' = huskyClock /\ last_flush' = huskyClock
      /\ state' \in {state, "done"} /\ products' = [s \in DOMAIN products \cup {k} |-> IF s = k THEN p ELSE products[s]]
  BY DEF write_batch, write_product_file
<1>4. k \in Nat /\ k * Second <= huskyClock + d /\ huskyClock + d < k * Second + Second
  <2> DEFINE a == huskyClock + d
  <2>1. a \in Nat  BY <1>2
  <2> HIDE DEF a
  <2>2. a \div Second \in Nat /\ (a \div Second) * Second <= a /\ a < (a \div Second) * Second + Second
    BY <2>1, SecondOf
  <2> QED  BY <2>2 DEF a
<1>5. /\ b = [i \in 1 .. Len(r) - Upto(o) |-> r[Upto(o) + i]]
      /\ Upto(o) \in Nat /\ Len(r) \in Nat /\ Upto(o) <= Len(r) /\ Len(received) <= Len(r)
  BY <1>1, <1>2, MoreWaiting
<1>6. w \in Writes /\ w.name = k /\ w.delay = d /\ w.at = huskyClock /\ w.upto = Len(r)
  BY <1>2, <1>4, <1>5 DEF Writes
<1>7. IsList(b) /\ Range(b) = Range(buffer) \cup Range(q) /\ IsList(r)  BY <1>1, ListConcat DEF BufferTrue
<1>8. p.window = <<started_at, huskyClock>> /\ Tells(p, b)  BY <1>7, TextTells
<1> HIDE DEF k, w, p, b, r
<1>9. /\ N' = o + 1 /\ writes' \in Seq(Writes) /\ writes'[o + 1] = w
      /\ \A n \in 1 .. o : writes'[n] = writes[n]
  BY <1>2, <1>3, <1>6 DEF N
<1>10. \A n \in 1 .. o : /\ writes'[n] = writes[n]
                         /\ Taken(n)' = Taken(n) /\ At(n)' = At(n) /\ At(n - 1)' = At(n - 1)
  BY <1>1, <1>2, <1>3, <1>6, MoreReceived
<1>11. /\ At(o + 1)' = huskyClock /\ At(o)' = At(o) /\ At(o) = started_at /\ At(o) = last_flush
       /\ Upto(o + 1)' = Len(r) /\ Upto(o)' = Upto(o) /\ At(o) \in Nat
  <2>1. o + 1 # 0 /\ (o # 0 => o \in 1 .. o)  BY <1>2
  <2>2. At(o) = started_at /\ At(o) = last_flush  BY <1>1, <1>2 DEF TimesTrue
  <2>3. At(o + 1)' = huskyClock /\ Upto(o + 1)' = Len(r)  BY <1>6, <1>9, <2>1 DEF At, Upto
  <2>4. At(o)' = At(o) /\ Upto(o)' = Upto(o)  BY <1>9, <2>1 DEF At, Upto
  <2> QED  BY <1>2, <2>2, <2>3, <2>4
<1>12. Taken(o + 1)' = b
  <2>1. (o + 1) - 1 = o  BY <1>2
  <2>2. Upto((o + 1) - 1)' = Upto(o)'  BY <2>1 DEF Upto
  <2>3. Taken(o + 1)' = [i \in 1 .. Len(r) - Upto(o) |-> received'[Upto(o) + i]]
    BY <1>11, <2>2 DEF Taken
  <2> QED  BY <1>5, <2>3 DEF r
<1>13. At(o) + FlushInterval <= huskyClock  BY <1>2, <1>11
<1>14. TimesTrue'
  <2>1. ASSUME NEW n \in 1 .. o + 1
        PROVE  /\ writes'[n].name * Second <= writes'[n].at + writes'[n].delay
               /\ writes'[n].at + writes'[n].delay < writes'[n].name * Second + Second
    <3>1. CASE n = o + 1  BY <3>1, <1>4, <1>6, <1>9
    <3>2. CASE n # o + 1
      <4>1. n \in 1 .. o  BY <3>2, <1>2
      <4> QED  BY <4>1, <1>1, <1>2, <1>9 DEF TimesTrue
    <3> QED  BY <3>1, <3>2
  <2>2. ASSUME NEW m \in 1 .. o + 1, NEW n \in 1 .. o + 1, m < n
        PROVE  writes'[m].at + FlushInterval <= writes'[n].at
    <3>1. m \in 1 .. o  BY <2>2, <1>2
    <3>2. CASE n = o + 1
      <4>1. writes[m].at <= At(o)
        <5>1. CASE m = o  BY <5>1, <1>2, <3>1
        <5>2. CASE m < o
          <6>1. o \in 1 .. o /\ o # 0  BY <1>2, <3>1
          <6>2. writes[m].at + FlushInterval <= writes[o].at  BY <1>1, <1>2, <3>1, <5>2, <6>1 DEF TimesTrue
          <6> QED  BY <1>2, <3>1, <6>1, <6>2
        <5> QED  BY <5>1, <5>2, <3>1, <1>2
      <4>2. writes[m].at \in Nat  BY <1>2, <3>1
      <4>3. writes[m].at + FlushInterval <= huskyClock
        <5> DEFINE a == writes[m].at
                   c == At(o)
        <5>1. a \in Nat /\ c \in Nat /\ a <= c /\ c + FlushInterval <= huskyClock  BY <4>1, <4>2, <1>11, <1>13
        <5> HIDE DEF a, c
        <5>2. a + FlushInterval <= huskyClock  BY <5>1, <1>2
        <5> QED  BY <5>2 DEF a
      <4>4. writes'[m] = writes[m] /\ writes'[n] = w  BY <3>1, <3>2, <1>9
      <4> QED  BY <1>6, <4>3, <4>4
    <3>3. CASE n # o + 1
      <4>1. n \in 1 .. o  BY <3>3, <1>2
      <4> QED  BY <4>1, <3>1, <2>2, <1>1, <1>2, <1>9 DEF TimesTrue
    <3> QED  BY <3>2, <3>3
  <2>3. huskyClock' \in Nat /\ huskyClock <= huskyClock'  BY <1>2
  <2> QED  BY <1>3, <1>9, <1>11, <2>1, <2>2, <2>3 DEF TimesTrue
<1>15. BufferTrue'
  <2>1. IsList(<<>>) /\ Range(<<>>) = {} /\ Len(<<>>) = 0  BY DEF IsList, Range
  <2>2. Upto(o + 1)' <= Len(received') /\ Waiting' = <<>> /\ Len(received') - Upto(o + 1)' = 0
    <3>1. Upto(o + 1)' = Len(received') /\ Len(received') \in Nat /\ N' = o + 1 /\ N' = Len(writes')
      BY <1>5, <1>9, <1>11 DEF r, N
    <3>2. Upto(Len(writes))' = Len(received')
      <4>1. Len(writes)' = o + 1  BY <3>1
      <4>2. Upto(Len(writes))' = Upto(o + 1)'  BY <4>1 DEF Upto
      <4> QED  BY <3>1, <4>2
    <3>3. Waiting' = [i \in 1 .. 0 |-> received'[Len(received') + i]]  BY <3>1, <3>2 DEF Waiting
    <3>4. 1 .. 0 = {}  OBVIOUS
    <3>5. Waiting' = <<>>  BY <3>3, <3>4
    <3> QED  BY <3>1, <3>5
  <2>3. ASSUME NEW m \in 1 .. o + 1, NEW n \in 1 .. o + 1, m < n
        PROVE  writes'[m].upto <= writes'[n].upto
    <3>1. m \in 1 .. o  BY <2>3, <1>2
    <3>2. CASE n = o + 1
      <4>1. writes[m].upto <= Upto(o)
        <5>1. CASE m = o  BY <5>1, <1>2, <3>1
        <5>2. CASE m < o
          <6>1. o \in 1 .. o /\ o # 0  BY <1>2, <3>1
          <6> QED  BY <1>1, <1>2, <3>1, <5>2, <6>1 DEF BufferTrue
        <5> QED  BY <5>1, <5>2, <3>1, <1>2
      <4>2. writes[m].upto \in Nat  BY <1>2, <3>1
      <4>3. writes[m].upto <= Len(r)
        <5> DEFINE a == writes[m].upto
                   c == Upto(o)
        <5>1. a \in Nat /\ c \in Nat /\ Len(r) \in Nat /\ a <= c /\ c <= Len(r)  BY <4>1, <4>2, <1>5
        <5> HIDE DEF a, c
        <5>2. a <= Len(r)  BY <5>1
        <5> QED  BY <5>2 DEF a
      <4>4. writes'[m] = writes[m] /\ writes'[n] = w  BY <3>1, <3>2, <1>9
      <4> QED  BY <1>6, <4>3, <4>4
    <3>3. CASE n # o + 1
      <4>1. n \in 1 .. o  BY <3>3, <1>2
      <4> QED  BY <4>1, <3>1, <2>3, <1>1, <1>2, <1>9 DEF BufferTrue
    <3> QED  BY <3>2, <3>3
  <2>4. ASSUME NEW n \in 1 .. o + 1, NEW i \in DOMAIN Taken(n)', ~ Taken(n)'[i].dated
        PROVE  At(n - 1)' <= Taken(n)'[i].ts /\ Taken(n)'[i].ts <= At(n)'
    <3>1. CASE n = o + 1
      <4>1. Taken(n)' = b /\ At(n)' = huskyClock  BY <3>1, <1>11, <1>12 DEF Taken, At, Upto
      <4>2. (o + 1) - 1 = o  BY <1>2
      <4>3. At(n - 1)' = started_at  BY <3>1, <4>2, <1>11 DEF At
      <4>4. b[i] \in Range(b)  BY <2>4, <4>1 DEF Range
      <4>5. CASE b[i] \in Range(buffer)  BY <4>1, <4>3, <4>5, <2>4, <1>1 DEF BufferTrue
      <4>6. CASE b[i] \in Range(q)
        <5>1. b[i].ts = huskyClock  BY <4>6
        <5>2. started_at <= huskyClock  BY <1>1 DEF TimesTrue
        <5> QED  BY <5>1, <5>2, <4>1, <4>3, <1>2
      <4> QED  BY <4>4, <4>5, <4>6, <1>7
    <3>2. CASE n # o + 1
      <4>1. n \in 1 .. o  BY <3>2, <1>2
      <4> QED  BY <4>1, <2>4, <1>1, <1>2, <1>10 DEF BufferTrue
    <3> QED  BY <3>1, <3>2
  <2> QED  BY <1>3, <1>7, <1>9, <2>1, <2>2, <2>3, <2>4 DEF BufferTrue, r
<1>16. FilesTrue'
  <2> SUFFICES ASSUME NEW n \in 1 .. o + 1, Quick(n)' PROVE Told(n)'
    BY <1>9 DEF FilesTrue
  <2>1. k \in DOMAIN products' /\ products'[k] = p /\ \A s \in DOMAIN products : s # k => s \in DOMAIN products' /\ products'[s] = products[s]
    BY <1>3
  <2>2. CASE n = o + 1
    <3>1. (o + 1) - 1 = o  BY <1>2
    <3>2. At(n - 1)' = started_at /\ At(n)' = huskyClock /\ Taken(n)' = b /\ writes'[n].name = k
      BY <2>2, <3>1, <1>6, <1>9, <1>11, <1>12 DEF At, Taken, Upto
    <3>3. Tells(products[writes[n].name], Taken(n))' <=> Tells(p, b)
      BY <2>1, <3>2 DEF Tells
    <3> QED  BY <2>1, <3>2, <3>3, <1>8 DEF Told
  <2>3. CASE n # o + 1
    <3>1. n \in 1 .. o /\ n \in 1 .. N' /\ N' \in 1 .. N' /\ n < N'  BY <2>3, <1>2, <1>9
    <3>2. writes'[n] = writes[n] /\ Quick(n)  BY <3>1, <1>9 DEF Quick
    <3>3. Told(n)  BY <3>1, <3>2, <1>1, <1>2 DEF FilesTrue
    <3>4. writes'[n].name < writes'[N'].name
      <4>1. writes'[n] \in Writes /\ writes'[N'] \in Writes  BY <1>6, <1>9, <1>2, <3>1
      <4>2. writes'[n].delay + Second <= FlushInterval  BY <3>2 DEF Quick
      <4>3. /\ writes'[n].at + FlushInterval <= writes'[N'].at
            /\ writes'[n].name * Second <= writes'[n].at + writes'[n].delay
            /\ writes'[N'].at + writes'[N'].delay < writes'[N'].name * Second + Second
        BY <1>14, <3>1 DEF TimesTrue
      <4> QED  BY <4>1, <4>2, <4>3, QuickIsEarlier
    <3>5. writes[n].name # k
      <4>1. writes[n].name \in Nat  BY <1>2, <3>1
      <4> QED  BY <4>1, <3>2, <3>4, <1>4, <1>6, <1>9
    <3>6. Taken(n)' = Taken(n) /\ At(n)' = At(n) /\ At(n - 1)' = At(n - 1)  BY <3>1, <1>10
    <3>7. /\ writes'[n].name \in DOMAIN products'
          /\ products'[writes'[n].name] = products[writes[n].name]
      BY <2>1, <3>2, <3>3, <3>5 DEF Told
    <3>8. Tells(products[writes[n].name], Taken(n))' <=> Tells(products[writes[n].name], Taken(n))
      BY <3>6, <3>7 DEF Tells
    <3> QED  BY <3>3, <3>6, <3>7, <3>8 DEF Told
  <2> QED  BY <2>2, <2>3
<1> QED  BY <1>14, <1>15, <1>16 DEF HuskyInv
\* A line is dropped, buffered, written with the buffer, or ends the process (run_bridge).
LEMMA LineKeeps ==
  ASSUME HuskyInv, NEW l \in Lines, run_bridge(l)
  PROVE  HuskyInv'
<1> DEFINE good == {d \in parse_line_to_detection(l) : d.confidence >= MinConfidence}
           q == SetToSeq(good)
           empty == <<>>
<1>1. TimesTrue /\ BufferTrue  BY DEF HuskyInv
<1>2. state = "running"  BY DEF run_bridge
<1>3. IsList(q) /\ \A d \in Range(q) : d.ts = huskyClock  BY LineDetections
<1>4. IsList(empty) /\ Range(empty) = {}  BY DEF IsList, Range
<1>5. huskyClock \in Nat /\ SlowWrite \in Nat  BY <1>1, HuskyAssumption DEF TimesTrue
<1>6. CASE Raises(l)
  <2>1. /\ received' = received /\ buffer' = empty /\ state' = "error" /\ huskyClock' = huskyClock
        /\ UNCHANGED <<writes, products, last_flush, started_at>>
    BY <1>6 DEF run_bridge, HuskyEnds
  <2>2. received \in Seq(Range(received))  BY <1>1 DEF BufferTrue, IsList
  <2>3. received' = received \o empty  BY <2>1, <2>2
  <2>4. IsList(buffer') /\ Range(buffer') = {} /\ huskyClock' \in Nat /\ huskyClock <= huskyClock'
    BY <2>1, <1>4, <1>5
  <2> HIDE DEF empty
  <2> QED  BY <2>1, <2>3, <2>4, <1>4, NoWrite
<1>7. CASE ~ Raises(l)
  <2> DEFINE due == huskyClock - last_flush >= FlushInterval
  <2>1. /\ received' = received \o q
        /\ \/ /\ ~ due
              /\ buffer' = buffer \o q
              /\ UNCHANGED <<huskyClock, state, started_at, last_flush, batches_written, products, writes>>
           \/ due /\ \E d \in 0 .. SlowWrite :
                huskyClock' = huskyClock + d /\ (HuskyEnds \/ write_batch(buffer \o q, d))
    BY <1>7 DEF run_bridge
  <2> HIDE DEF q
  <2>2. CASE ~ due
    <3>1. /\ buffer' = buffer \o q
          /\ UNCHANGED <<huskyClock, state, started_at, last_flush, products, writes>>
      BY <2>1, <2>2
    <3>2. IsList(buffer') /\ Range(buffer') = Range(buffer) \cup Range(q)
      BY <3>1, <1>1, <1>3, ListConcat DEF BufferTrue
    <3>3. buffer' = Waiting' /\ Len(buffer') = Len(received') - Upto(N)
      <4>1. N = Len(writes) /\ N' = Len(writes) /\ Upto(N)' = Upto(N)  BY <3>1 DEF N, Upto
      <4>2. Waiting' = [i \in 1 .. Len(received') - Upto(N) |-> received'[Upto(N) + i]]
        BY <4>1, <3>1 DEF Waiting, Upto
      <4>3. LET r == received \o q
            IN  /\ buffer \o q = [i \in 1 .. Len(r) - Upto(N) |-> r[Upto(N) + i]]
                /\ Len(buffer \o q) = Len(r) - Upto(N)
        BY <1>1, <1>2, <1>3, MoreWaiting
      <4> QED  BY <4>2, <4>3, <3>1, <2>1
    <3>4. ASSUME NEW d \in Range(buffer'), ~ d.dated
          PROVE  d.ts \in Nat /\ started_at <= d.ts /\ d.ts <= huskyClock'
      <4>1. CASE d \in Range(buffer)  BY <4>1, <3>4, <3>1, <1>1 DEF BufferTrue
      <4>2. CASE d \in Range(q)  BY <4>2, <3>1, <1>1, <1>3, <1>5 DEF TimesTrue
      <4> QED  BY <4>1, <4>2, <3>2
    <3> QED  BY <2>1, <3>1, <3>2, <3>3, <3>4, <1>3, <1>5, NoWrite
  <2>3. CASE due
    <3>1. PICK d \in 0 .. SlowWrite : huskyClock' = huskyClock + d /\ (HuskyEnds \/ write_batch(buffer \o q, d))
      BY <2>1, <2>3
    <3>2. CASE HuskyEnds
      <4>1. /\ buffer' = empty /\ state' = "error"
            /\ UNCHANGED <<writes, products, last_flush, started_at>>
        BY <3>2 DEF HuskyEnds
      <4>2. huskyClock' \in Nat /\ huskyClock <= huskyClock'  BY <3>1, <1>5
      <4> QED  BY <4>1, <4>2, <2>1, <1>3, <1>4, NoWrite
    <3>3. CASE write_batch(buffer \o q, d)
      BY <3>1, <3>3, <2>1, <2>3, <1>2, <1>3, WriteKeeps
    <3> QED  BY <3>1, <3>2, <3>3
  <2> QED  BY <2>1, <2>2, <2>3
<1> QED  BY <1>6, <1>7

THEOREM HuskyInvariant == HuskySpec => []HuskyInv
<1>1. ASSUME HuskyInit PROVE HuskyInv
  <2>1. /\ huskyClock = 0 /\ buffer = <<>> /\ started_at = 0 /\ last_flush = 0 /\ received = <<>> /\ writes = <<>>
    BY <1>1 DEF HuskyInit
  <2>2. N = 0 /\ Len(writes) = 0 /\ writes \in Seq(Writes) /\ At(N) = 0 /\ Upto(N) = 0 /\ 1 .. N = {}
    BY <2>1 DEF N, At, Upto
  <2>3. IsList(buffer) /\ IsList(received) /\ Range(buffer) = {} /\ Len(received) = 0 /\ Len(buffer) = 0
    BY <2>1 DEF IsList, Range
  <2>4. Waiting = buffer
    <3>1. Waiting = [i \in 1 .. 0 |-> received[Upto(0) + i]]  BY <2>2, <2>3 DEF Waiting, Upto
    <3> QED  BY <3>1, <2>1
  <2>5. TimesTrue  BY <2>1, <2>2 DEF TimesTrue
  <2>6. BufferTrue  BY <2>2, <2>3, <2>4 DEF BufferTrue
  <2>7. FilesTrue  BY <2>2 DEF FilesTrue
  <2> QED  BY <2>5, <2>6, <2>7 DEF HuskyInv
<1>2. ASSUME HuskyInv, [HuskyNext]_huskyVars PROVE HuskyInv'
  <2>1. CASE HuskyTick
    <3> DEFINE empty == <<>>
    <3>1. huskyClock' = huskyClock + 1
          /\ UNCHANGED <<state, buffer, started_at, last_flush, products, received, writes>>
      BY <2>1 DEF HuskyTick
    <3>2. TimesTrue /\ BufferTrue  BY <1>2 DEF HuskyInv
    <3>3. huskyClock \in Nat /\ huskyClock' \in Nat /\ huskyClock <= huskyClock'  BY <3>1, <3>2 DEF TimesTrue
    <3>4. IsList(empty) /\ received' = received \o empty
      <4>1. received \in Seq(Range(received))  BY <3>2 DEF BufferTrue, IsList
      <4> QED  BY <4>1, <3>1 DEF IsList, Range
    <3>5. state' # "error" => buffer' = Waiting' /\ Len(buffer') = Len(received') - Upto(N)
      BY <3>1, <3>2 DEF BufferTrue, Waiting, Upto
    <3>6. ASSUME NEW d \in Range(buffer'), ~ d.dated
          PROVE  d.ts \in Nat /\ started_at <= d.ts /\ d.ts <= huskyClock'
      <4>1. d.ts \in Nat /\ started_at <= d.ts /\ d.ts <= huskyClock  BY <3>1, <3>2, <3>6 DEF BufferTrue
      <4> QED  BY <4>1, <3>1, <3>3
    <3>7. IsList(buffer')  BY <3>1, <3>2 DEF BufferTrue
    <3> QED  BY <1>2, <3>1, <3>3, <3>4, <3>5, <3>6, <3>7, NoWrite
  <2>2. CASE \E l \in Lines : run_bridge(l)  BY <2>2, <1>2, LineKeeps
  <2>3. CASE UNCHANGED huskyVars
    <3>1. UNCHANGED <<huskyClock, state, buffer, started_at, last_flush, products, received, writes>>
      BY <2>3 DEF huskyVars
    <3>2. TimesTrue'  BY <3>1, <1>2 DEF HuskyInv, TimesTrue, At, N
    <3>3. BufferTrue'  BY <3>1, <1>2 DEF HuskyInv, BufferTrue, Taken, Waiting, At, Upto, N
    <3>4. FilesTrue'
      <4>1. N' = N /\ \A n : Taken(n)' = Taken(n) /\ At(n)' = At(n) /\ At(n - 1)' = At(n - 1)
        BY <3>1 DEF N, Taken, At, Upto
      <4>2. \A n : Quick(n)' <=> Quick(n)  BY <3>1 DEF Quick
      <4>3. ASSUME NEW n PROVE Told(n)' <=> Told(n)
        <5>1. Taken(n)' = Taken(n) /\ products'[writes'[n].name] = products[writes[n].name]  BY <3>1, <4>1
        <5>2. Tells(products[writes[n].name], Taken(n))' <=> Tells(products[writes[n].name], Taken(n))
          BY <5>1 DEF Tells
        <5> QED  BY <3>1, <4>1, <5>1, <5>2 DEF Told
      <4> QED  BY <4>1, <4>2, <4>3, <1>2 DEF HuskyInv, FilesTrue
    <3> QED  BY <3>2, <3>3, <3>4 DEF HuskyInv
  <2> QED  BY <2>1, <2>2, <2>3, <1>2 DEF HuskyNext
<1> QED  BY <1>1, <1>2, PTL DEF HuskySpec

\* Every detection received is in the window of a write or waits, and the file of a quick write
\* stays and tells what it took, for any lines, any interval of a second or more and any delay
\* of the writes (run_bridge, write_product_file, build_product_text).
THEOREM HuskyProductsTellAll == HuskySpec => []ProductsTellAll
<1>1. HuskyInv => ProductsTellAll
  <2> SUFFICES ASSUME HuskyInv PROVE ProductsTellAll
    OBVIOUS
  <2>1. TimesTrue /\ BufferTrue /\ FilesTrue  BY DEF HuskyInv
  <2>2. N = Len(writes) /\ DOMAIN writes = 1 .. N  BY <2>1, WritesTyped
  <2>3. ASSUME NEW n \in 1 .. N, NEW m \in 1 .. N, Quick(n), n < m
        PROVE  writes[n].name < writes[m].name
    <3>1. writes[n] \in Writes /\ writes[m] \in Writes  BY <2>1, WritesTyped
    <3>2. /\ writes[n].at + FlushInterval <= writes[m].at
          /\ writes[n].name * Second <= writes[n].at + writes[n].delay
          /\ writes[m].at + writes[m].delay < writes[m].name * Second + Second
      BY <2>1, <2>3 DEF TimesTrue
    <3> QED  BY <3>1, <3>2, <2>3, QuickIsEarlier DEF Quick
  <2>4. \A n \in 1 .. N : \A i \in DOMAIN Taken(n) :
          ~ Taken(n)[i].dated => At(n - 1) <= Taken(n)[i].ts /\ Taken(n)[i].ts <= At(n)
    BY <2>1 DEF BufferTrue
  <2>5. \A n \in 1 .. N : Quick(n) => Told(n)  BY <2>1 DEF FilesTrue
  <2>6. state # "error" => buffer = Waiting  BY <2>1 DEF BufferTrue
  <2> QED  BY <2>2, <2>3, <2>4, <2>5, <2>6 DEF ProductsTellAll, Told
<1> QED  BY <1>1, HuskyInvariant, PTL
================================================================================
