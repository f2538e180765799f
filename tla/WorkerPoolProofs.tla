--------------------------- MODULE WorkerPoolProofs ---------------------------
(***************************************************************************)
(* Proofs about WorkerPool, for any number of workers, of requests from    *)
(* outside and of injectors.                                               *)
(*                                                                         *)
(* That every request is answered is a matter of fairness, which TLC       *)
(* checks.  Proved is what it rests on: the server is never stuck, however *)
(* many workers wait for each other, and each of its steps brings the end  *)
(* of all requests nearer.                                                 *)
(***************************************************************************)
EXTENDS WorkerPool, SequenceTheorems, FiniteSetTheorems, TLAPS

States == {"sent", "waiting", "running", "calling"}
Services == {"external", "media_get", "media_upload", "platform_ingest"}
Calls == [to : Services, needed : BOOLEAN]

\* Some step of the server is possible: a worker is free for the first in line, or a request can be
\* taken in, go on, be answered, or give up the call it waits for.
ServerCanStep ==
  \/ line # <<>> /\ LoopFree /\ Cardinality(Workers) < PoolSize
  \/ \E i \in Ids : \/ inFlight[i].state = "sent" /\ LoopFree
                    \/ inFlight[i].state = "running" /\ inFlight[i].todo # <<>>
                    \/ /\ inFlight[i].state = "running" /\ inFlight[i].todo = <<>>
                       /\ Async(inFlight[i].kind) \/ LoopFree
                    \/ inFlight[i].state = "calling"

\* The steps a request still needs, those of the calls it will make included: a browser's handler
\* calls handlers that call services outside at most.
Weight(i, r) ==
  (IF i.left = 0 THEN 8 * Len(r.todo) ELSE 2 * Len(r.todo))
  + (CASE r.state = "sent" -> 3 [] r.state = "waiting" -> 2 [] r.state = "running" -> 1
       [] r.state = "calling" -> IF i.left = 0 THEN 0 - 6 ELSE 0)

\* One ticket for each step.
TicketsOf(reqs) == UNION {{i} \X (1 .. Weight(i, reqs[i])) : i \in DOMAIN reqs}
Work == Cardinality(TicketsOf(inFlight))

\* No request is left without a step that brings it on: neither by workers that all wait for
\* handlers of this same server, nor by an upload that holds the event loop (process_message, blur_pii,
\* media_upload).
NeverStuck == Ids # {} => ServerCanStep

\* The workers are never more than the pool has, and at most one handler runs on the event loop.
PoolHolds ==
  /\ Cardinality(Workers) <= PoolSize
  /\ \A i, j \in Ids : Async(inFlight[i].kind) /\ Runs(i) /\ Async(inFlight[j].kind) /\ Runs(j) => i = j

\* Only a browser makes work; every other step, a timeout included, leaves less of it.
WorkEnds == [][browsers' = browsers => Work' \in Nat /\ Work' < Work]_poolVars

-----------------------------------------------------------------------------
(***************************************************************************)
(* The inductive invariant.  Of every request it says what is left to do;  *)
(* a request a handler has made is known by the calls that were left, so   *)
(* that a handler still running has fewer left, or waits for this one: the *)
(* next request it makes is a new one.                                     *)
(***************************************************************************)
Busy(r) == r.state \in {"running", "calling"}
OnWorkers(reqs) == {i \in DOMAIN reqs : ~Async(reqs[i].kind) /\ Busy(reqs[i])}
OnLoop(reqs) == {i \in DOMAIN reqs : Async(reqs[i].kind) /\ Busy(reqs[i])}
InLine(reqs) == {i \in DOMAIN reqs : reqs[i].state = "waiting"}

RequestOK(i, r, b) ==
  /\ i = Id(i.browser, i.left) /\ i.browser \in 1 .. b /\ i.left \in Nat
  /\ r = [kind |-> r.kind, todo |-> r.todo, state |-> r.state]
  /\ r.todo \in Seq(Calls) /\ r.state \in States
  /\ r.state = "calling" => r.todo # <<>>
  /\ r.state = "waiting" => ~Async(r.kind)
  /\ i.left > 0 => \A k \in DOMAIN r.todo : r.todo[k].to = "external"
Requests(reqs, b) ==
  /\ reqs = [i \in DOMAIN reqs |-> reqs[i]]
  /\ \A i \in DOMAIN reqs : RequestOK(i, reqs[i], b)
  /\ IsFiniteSet(TicketsOf(reqs))
CallsAreNew(reqs) ==
  \A i, j \in DOMAIN reqs :
    i.left = 0 /\ j.left > 0 /\ i.browser = j.browser
      => Len(reqs[i].todo) < j.left \/ (Len(reqs[i].todo) = j.left /\ reqs[i].state = "calling")
LineOf(reqs, q) == /\ q \in Seq(DOMAIN reqs)
                   /\ \A k \in DOMAIN q : reqs[q[k]].state = "waiting"
                   /\ \A i \in InLine(reqs) : \E k \in DOMAIN q : q[k] = i
                   /\ \A k, m \in DOMAIN q : q[k] = q[m] => k = m
Holding(reqs) == /\ IsFiniteSet(OnWorkers(reqs)) /\ Cardinality(OnWorkers(reqs)) <= PoolSize
                 /\ \A i, j \in OnLoop(reqs) : i = j
PoolInv == /\ browsers \in Nat
           /\ Requests(inFlight, browsers) /\ CallsAreNew(inFlight)
           /\ LineOf(inFlight, line) /\ Holding(inFlight)
-----------------------------------------------------------------------------
(***************************************************************************)
(* Counting what is left to do.                                            *)
(***************************************************************************)
\* What a call is.
LEMMA CallsAre ==
  /\ \A kind : Script(kind) \in Seq(Calls)
  /\ \A kind \in Services : \A k \in DOMAIN Script(kind) : Script(kind)[k].to = "external"
  /\ \A kind \in Services : Len(Script(kind)) <= 1
<1>1. /\ DescribeCalls \in Seq(Calls) /\ BlurCalls \in Seq(Calls) /\ RenderCalls \in Seq(Calls)
      /\ IpfsGetCalls \in Seq(Calls) /\ UploadCalls \in Seq(Calls) /\ <<Call("platform_ingest", TRUE)>> \in Seq(Calls)
      /\ <<>> \in Seq(Calls)
  BY DEF DescribeCalls, BlurCalls, RenderCalls, IpfsGetCalls, UploadCalls, Call, Calls, Services
<1>2. PublishCalls \in Seq(Calls)
  <2>1. /\ (IF "vlm" \in Configured THEN DescribeCalls ELSE <<>>) \in Seq(Calls)
        /\ (IF "redactor" \in Configured THEN BlurCalls ELSE <<>>) \in Seq(Calls)
    BY <1>1
  <2> QED  BY <2>1, <1>1, ConcatProperties DEF PublishCalls
<1>3. \A kind : Script(kind) \in Seq(Calls)
  BY <1>1, <1>2 DEF Script
<1>4. /\ Script("external") = <<>> /\ Script("media_get") = <<>> /\ Script("platform_ingest") = <<>>
      /\ Script("media_upload") = <<Call("external", FALSE)>>
  BY DEF Script, UploadCalls
<1>5. /\ Len(<<>>) = 0 /\ DOMAIN <<>> = {} /\ Len(<<Call("external", FALSE)>>) = 1
      /\ DOMAIN <<Call("external", FALSE)>> = {1} /\ <<Call("external", FALSE)>>[1].to = "external"
  BY DEF Call
<1>6. ASSUME NEW kind \in Services
      PROVE  Len(Script(kind)) <= 1 /\ \A k \in DOMAIN Script(kind) : Script(kind)[k].to = "external"
  <2>1. CASE kind = "media_upload"
    <3> DEFINE one == <<Call("external", FALSE)>>
    <3>1. Script(kind) = one /\ Len(one) = 1 /\ DOMAIN one = {1} /\ one[1].to = "external"
      BY <1>4, <1>5, <2>1
    <3> HIDE DEF one
    <3> QED  BY <3>1
  <2>2. CASE kind # "media_upload"
    <3>1. Script(kind) = <<>>  BY <1>4, <1>6, <2>2 DEF Services
    <3> QED  BY <3>1, <1>5
  <2> QED  BY <2>1, <2>2
<1> QED  BY <1>3, <1>6

\* A request needs steps as long as it is there.
LEMMA WeightIs ==
  ASSUME NEW b, NEW i, NEW r, RequestOK(i, r, b)
  PROVE  Len(r.todo) \in Nat /\ Weight(i, r) \in Nat \ {0}
<1>1. Len(r.todo) \in Nat /\ r.state \in States /\ (r.state = "calling" => Len(r.todo) > 0)
  BY DEF RequestOK
<1> QED  BY <1>1 DEF Weight, States

\* The tickets of one request.
LEMMA Piece ==
  ASSUME NEW i, NEW n \in Nat
  PROVE  IsFiniteSet({i} \X (1 .. n)) /\ Cardinality({i} \X (1 .. n)) = n
<1>1. IsFiniteSet({i}) /\ Cardinality({i}) = 1  BY FS_Singleton
<1>2. IsFiniteSet(1 .. n) /\ Cardinality(1 .. n) = n  BY FS_Interval
<1>3. /\ IsFiniteSet({i} \X (1 .. n))
      /\ Cardinality({i} \X (1 .. n)) = Cardinality({i}) * Cardinality(1 .. n)
  BY <1>1, <1>2, FS_Product
<1> QED  BY <1>1, <1>2, <1>3

\* A part of a set goes, another comes.
LEMMA Exchanged ==
  ASSUME NEW T, IsFiniteSet(T), NEW A, A \subseteq T, NEW B, IsFiniteSet(B), B \cap (T \ A) = {}
  PROVE  /\ IsFiniteSet((T \ A) \cup B)
         /\ Cardinality((T \ A) \cup B) = Cardinality(T) - Cardinality(A) + Cardinality(B)
<1>1. IsFiniteSet(T \ A) /\ Cardinality(T \ A) = Cardinality(T) - Cardinality(T \cap A)
  BY FS_Difference
<1>2. T \cap A = A  OBVIOUS
<1>3. /\ IsFiniteSet((T \ A) \cup B)
      /\ Cardinality((T \ A) \cup B) = Cardinality(T \ A) + Cardinality(B) - Cardinality((T \ A) \cap B)
  BY <1>1, FS_Union
<1>4. (T \ A) \cap B = {} /\ Cardinality({}) = 0  BY FS_EmptySet
<1>5. Cardinality(T) \in Nat /\ Cardinality(B) \in Nat /\ Cardinality(A) \in Nat
  BY FS_CardinalityType, FS_Subset
<1>6. Cardinality(T \ A) = Cardinality(T) - Cardinality(A)  BY <1>1, <1>2
<1>7. Cardinality((T \ A) \cap B) = 0  BY <1>4
<1> QED  BY <1>3, <1>5, <1>6, <1>7

\* The steps a request needs, none if it is not there.
Left(reqs, i) == IF i \in DOMAIN reqs THEN Weight(i, reqs[i]) ELSE 0

\* A request put in place of what its id stood for: its work comes, what was there goes.
LEMMA PutWork ==
  ASSUME NEW reqs, NEW b, Requests(reqs, b), NEW c, NEW i, NEW r, RequestOK(i, r, c)
  PROVE  /\ IsFiniteSet(TicketsOf(With(reqs, i, r)))
         /\ Cardinality(TicketsOf(With(reqs, i, r)))
              = Cardinality(TicketsOf(reqs)) - Left(reqs, i) + Weight(i, r)
<1> DEFINE T == TicketsOf(reqs)
           A == IF i \in DOMAIN reqs THEN {i} \X (1 .. Weight(i, reqs[i])) ELSE {}
           B == {i} \X (1 .. Weight(i, r))
<1>1. Weight(i, r) \in Nat /\ (i \in DOMAIN reqs => Weight(i, reqs[i]) \in Nat)
  BY WeightIs DEF Requests
<1>2. IsFiniteSet(B) /\ Cardinality(B) = Weight(i, r)  BY <1>1, Piece
<1>3. Cardinality(A) = Left(reqs, i)  BY <1>1, Piece, FS_EmptySet DEF Left
<1>4. IsFiniteSet(T) /\ A \subseteq T  BY DEF Requests, TicketsOf
<1>5. \A t \in T \ A : \E j \in DOMAIN reqs : j # i /\ t \in {j} \X (1 .. Weight(j, reqs[j]))
  BY DEF TicketsOf
<1>6. B \cap (T \ A) = {}
  <2> SUFFICES ASSUME NEW t \in B, t \in T \ A PROVE FALSE  OBVIOUS
  <2>1. PICK j \in DOMAIN reqs : j # i /\ t \in {j} \X (1 .. Weight(j, reqs[j]))  BY <1>5
  <2>2. t[1] = i  OBVIOUS
  <2>3. t[1] = j  BY <2>1
  <2> QED  BY <2>1, <2>2, <2>3
<1>7. TicketsOf(With(reqs, i, r)) = (T \ A) \cup B
  <2>1. ASSUME NEW t \in TicketsOf(With(reqs, i, r)) PROVE t \in (T \ A) \cup B
    <3>1. PICK j \in DOMAIN With(reqs, i, r) : t \in {j} \X (1 .. Weight(j, With(reqs, i, r)[j]))
      BY DEF TicketsOf
    <3>2. CASE j = i  BY <3>1, <3>2 DEF With
    <3>3. CASE j # i
      <4>1. j \in DOMAIN reqs /\ With(reqs, i, r)[j] = reqs[j]  BY <3>1, <3>3 DEF With
      <4>2. t \in T  BY <3>1, <4>1 DEF TicketsOf
      <4>3. t[1] = j  BY <3>1
      <4>4. t \notin A
        <5> SUFFICES ASSUME t \in A PROVE FALSE  OBVIOUS
        <5>1. t[1] = i  OBVIOUS
        <5> QED  BY <5>1, <4>3, <3>3
      <4> QED  BY <4>2, <4>4
    <3> QED  BY <3>2, <3>3
  <2>2. ASSUME NEW t \in B PROVE t \in TicketsOf(With(reqs, i, r))
    <3>1. i \in DOMAIN With(reqs, i, r) /\ With(reqs, i, r)[i] = r  BY DEF With
    <3> QED  BY <3>1 DEF TicketsOf
  <2>3. ASSUME NEW t \in T \ A PROVE t \in TicketsOf(With(reqs, i, r))
    <3>1. PICK j \in DOMAIN reqs : j # i /\ t \in {j} \X (1 .. Weight(j, reqs[j]))  BY <1>5
    <3>2. j \in DOMAIN With(reqs, i, r) /\ With(reqs, i, r)[j] = reqs[j]  BY <3>1 DEF With
    <3> QED  BY <3>1, <3>2 DEF TicketsOf
  <2> HIDE DEF T, A, B
  <2> QED  BY <2>1, <2>2, <2>3
<1> HIDE DEF T, A, B
<1>8. /\ IsFiniteSet((T \ A) \cup B)
      /\ Cardinality((T \ A) \cup B) = Cardinality(T) - Cardinality(A) + Cardinality(B)
  BY <1>2, <1>4, <1>6, Exchanged
<1> QED  BY <1>8, <1>7, <1>2, <1>3 DEF T

\* A request that is answered takes its work along.
LEMMA DropWork ==
  ASSUME NEW reqs, NEW b, Requests(reqs, b), NEW i \in DOMAIN reqs
  PROVE  /\ IsFiniteSet(TicketsOf(Without(reqs, i)))
         /\ Cardinality(TicketsOf(Without(reqs, i))) = Cardinality(TicketsOf(reqs)) - Weight(i, reqs[i])
<1> DEFINE T == TicketsOf(reqs)
           A == {i} \X (1 .. Weight(i, reqs[i]))
<1>1. Weight(i, reqs[i]) \in Nat  BY WeightIs DEF Requests
<1>3. Cardinality(A) = Weight(i, reqs[i])  BY <1>1, Piece
<1>4. IsFiniteSet(T) /\ A \subseteq T  BY DEF Requests, TicketsOf
<1>5. TicketsOf(Without(reqs, i)) = T \ A
  <2>1. ASSUME NEW t \in TicketsOf(Without(reqs, i)) PROVE t \in T \ A
    <3>1. PICK j \in DOMAIN Without(reqs, i) : t \in {j} \X (1 .. Weight(j, Without(reqs, i)[j]))
      BY DEF TicketsOf
    <3>2. j \in DOMAIN reqs /\ j # i /\ Without(reqs, i)[j] = reqs[j]  BY <3>1 DEF Without
    <3>3. t \in T /\ t[1] = j  BY <3>1, <3>2 DEF TicketsOf
    <3>4. t \notin A
      <4> SUFFICES ASSUME t \in A PROVE FALSE  OBVIOUS
      <4>1. t[1] = i  OBVIOUS
      <4> QED  BY <4>1, <3>2, <3>3
    <3> QED  BY <3>3, <3>4
  <2>2. ASSUME NEW t \in T \ A PROVE t \in TicketsOf(Without(reqs, i))
    <3>1. PICK j \in DOMAIN reqs : j # i /\ t \in {j} \X (1 .. Weight(j, reqs[j]))  BY DEF TicketsOf
    <3>2. j \in DOMAIN Without(reqs, i) /\ Without(reqs, i)[j] = reqs[j]  BY <3>1 DEF Without
    <3> QED  BY <3>1, <3>2 DEF TicketsOf
  <2> HIDE DEF T, A
  <2> QED  BY <2>1, <2>2
<1> HIDE DEF T, A
<1>6. IsFiniteSet(T \ A) /\ Cardinality(T \ A) = Cardinality(T) - Cardinality(T \cap A)
  BY <1>4, FS_Difference
<1>7. T \cap A = A  BY <1>4
<1> QED  BY <1>3, <1>5, <1>6, <1>7 DEF T
-----------------------------------------------------------------------------
(***************************************************************************)
(* A request put in place of another, a new one, one that is answered.     *)
(***************************************************************************)
\* What is right for all the others stays right.
LEMMA PutRequests ==
  ASSUME NEW reqs, NEW b \in Nat, Requests(reqs, b), NEW c \in Nat, b <= c, NEW i, NEW r, RequestOK(i, r, c)
  PROVE  Requests(With(reqs, i, r), c)
<1>1. IsFiniteSet(TicketsOf(With(reqs, i, r)))  BY PutWork
<1>2. ASSUME NEW j \in DOMAIN With(reqs, i, r) PROVE RequestOK(j, With(reqs, i, r)[j], c)
  <2>1. CASE j = i  BY <2>1 DEF With
  <2>2. CASE j # i
    <3>1. j \in DOMAIN reqs /\ With(reqs, i, r)[j] = reqs[j]  BY <2>2, <1>2 DEF With
    <3>2. RequestOK(j, reqs[j], b)  BY <3>1 DEF Requests
    <3> QED  BY <3>1, <3>2 DEF RequestOK
  <2> QED  BY <2>1, <2>2
<1>3. With(reqs, i, r) = [j \in DOMAIN With(reqs, i, r) |-> With(reqs, i, r)[j]]  BY DEF With
<1> QED  BY <1>1, <1>2, <1>3 DEF Requests

\* An answered request leaves the others as they are.
LEMMA DropRequests ==
  ASSUME NEW reqs, NEW b, Requests(reqs, b), NEW i \in DOMAIN reqs
  PROVE  Requests(Without(reqs, i), b)
<1>1. IsFiniteSet(TicketsOf(Without(reqs, i)))  BY DropWork
<1>2. \A j \in DOMAIN Without(reqs, i) : j \in DOMAIN reqs /\ Without(reqs, i)[j] = reqs[j]
  BY DEF Without
<1>3. Without(reqs, i) = [j \in DOMAIN Without(reqs, i) |-> Without(reqs, i)[j]]  BY DEF Without
<1>4. \A j \in DOMAIN Without(reqs, i) : RequestOK(j, Without(reqs, i)[j], b)
  BY <1>2 DEF Requests
<1> QED  BY <1>1, <1>3, <1>4 DEF Requests

\* A request that has not more calls left, and waits if it waited and has as many, makes new ones.
LEMMA PutCalls ==
  ASSUME NEW reqs, NEW b, Requests(reqs, b), CallsAreNew(reqs), NEW i \in DOMAIN reqs,
         NEW c, NEW r, RequestOK(i, r, c), Len(r.todo) <= Len(reqs[i].todo),
         reqs[i].state = "calling" => r.state = "calling" \/ Len(r.todo) < Len(reqs[i].todo)
  PROVE  CallsAreNew(With(reqs, i, r))
<1> SUFFICES ASSUME NEW h \in DOMAIN With(reqs, i, r), NEW j \in DOMAIN With(reqs, i, r),
                    h.left = 0, j.left > 0, h.browser = j.browser
             PROVE  LET x == With(reqs, i, r)[h]
                    IN  Len(x.todo) < j.left \/ (Len(x.todo) = j.left /\ x.state = "calling")
  BY DEF CallsAreNew
<1>1. h \in DOMAIN reqs /\ j \in DOMAIN reqs  BY DEF With
<1>2. j.left \in Nat /\ Len(r.todo) \in Nat /\ Len(reqs[h].todo) \in Nat
  BY <1>1, WeightIs DEF Requests, RequestOK
<1>3. Len(reqs[h].todo) < j.left \/ (Len(reqs[h].todo) = j.left /\ reqs[h].state = "calling")
  BY <1>1 DEF CallsAreNew
<1>4. CASE h = i
  <2>1. With(reqs, i, r)[h] = r  BY <1>4 DEF With
  <2> QED  BY <2>1, <1>2, <1>3, <1>4
<1>5. CASE h # i
  <2>1. With(reqs, i, r)[h] = reqs[h]  BY <1>1, <1>5 DEF With
  <2> QED  BY <2>1, <1>3
<1> QED  BY <1>4, <1>5

\* The others' calls stay new when a request is answered.
LEMMA DropCalls ==
  ASSUME NEW reqs, NEW i, CallsAreNew(reqs)
  PROVE  CallsAreNew(Without(reqs, i))
BY DEF CallsAreNew, Without

\* Who waits in line waits, whatever happens to the others.
LEMMA PutLine ==
  ASSUME NEW reqs, NEW q, LineOf(reqs, q), NEW i, NEW r, r.state # "waiting",
         i \in DOMAIN reqs => reqs[i].state # "waiting"
  PROVE  LineOf(With(reqs, i, r), q)
<1> DEFINE more == With(reqs, i, r)
<1>1. /\ DOMAIN reqs \subseteq DOMAIN more /\ DOMAIN more \subseteq DOMAIN reqs \cup {i} /\ more[i] = r
      /\ \A j \in DOMAIN reqs : j # i => more[j] = reqs[j]
  BY DEF With
<1> HIDE DEF more
<1>2. q \in Seq(DOMAIN more) /\ \A k \in DOMAIN q : q[k] \in DOMAIN reqs
  BY <1>1 DEF LineOf
<1>3. \A k \in DOMAIN q : more[q[k]].state = "waiting"
  BY <1>1, <1>2 DEF LineOf
<1>4. InLine(more) = InLine(reqs)
  BY <1>1 DEF InLine
<1> QED  BY <1>2, <1>3, <1>4 DEF LineOf, more

\* A request that is answered was not in line.
LEMMA DropLine ==
  ASSUME NEW reqs, NEW q, LineOf(reqs, q), NEW i \in DOMAIN reqs, reqs[i].state # "waiting"
  PROVE  LineOf(Without(reqs, i), q)
<1> DEFINE less == Without(reqs, i)
<1>1. DOMAIN less = DOMAIN reqs \ {i} /\ \A j \in DOMAIN less : less[j] = reqs[j]
  BY DEF Without
<1> HIDE DEF less
<1>2. \A k \in DOMAIN q : q[k] \in DOMAIN reqs /\ q[k] # i
  BY DEF LineOf
<1>3. q \in Seq(DOMAIN less)
  <2>1. q \in Seq(DOMAIN reqs) /\ Len(q) \in Nat /\ DOMAIN q = 1 .. Len(q)  BY DEF LineOf
  <2>2. q \in [1 .. Len(q) -> DOMAIN less]  BY <2>1, <1>1, <1>2
  <2> QED  BY <2>1, <2>2, SeqDef
<1>4. \A k \in DOMAIN q : less[q[k]].state = "waiting"
  BY <1>1, <1>2 DEF LineOf
<1>5. InLine(less) = InLine(reqs)
  BY <1>1 DEF InLine
<1> QED  BY <1>3, <1>4, <1>5 DEF LineOf, less

\* Fewer that run, or others that do not run, hold no more.
LEMMA HoldsLess ==
  ASSUME NEW reqs, NEW more, Holding(reqs), OnWorkers(more) \subseteq OnWorkers(reqs),
         OnLoop(more) \subseteq OnLoop(reqs)
  PROVE  Holding(more)
<1>1. IsFiniteSet(OnWorkers(more)) /\ Cardinality(OnWorkers(more)) <= Cardinality(OnWorkers(reqs))
  BY FS_Subset DEF Holding
<1>2. Cardinality(OnWorkers(more)) \in Nat /\ Cardinality(OnWorkers(reqs)) \in Nat /\ PoolSize \in Nat
  BY <1>1, FS_CardinalityType, PoolAssumption DEF Holding
<1> QED  BY <1>1, <1>2 DEF Holding

\* A request in place of one that held the same, or one that does not run, takes nothing.
LEMMA PutHolds ==
  ASSUME NEW reqs, Holding(reqs), NEW i, NEW r,
         Busy(r) => i \in DOMAIN reqs /\ Busy(reqs[i]) /\ r.kind = reqs[i].kind
  PROVE  Holding(With(reqs, i, r))
<1>1. OnWorkers(With(reqs, i, r)) \subseteq OnWorkers(reqs) /\ OnLoop(With(reqs, i, r)) \subseteq OnLoop(reqs)
  BY DEF OnWorkers, OnLoop, With
<1> QED  BY <1>1, HoldsLess

\* An answered request gives up what it held.
LEMMA DropHolds ==
  ASSUME NEW reqs, Holding(reqs), NEW i
  PROVE  Holding(Without(reqs, i))
<1>1. OnWorkers(Without(reqs, i)) \subseteq OnWorkers(reqs) /\ OnLoop(Without(reqs, i)) \subseteq OnLoop(reqs)
  BY DEF OnWorkers, OnLoop, Without
<1> QED  BY <1>1, HoldsLess

\* The names of the model for who holds what.
LEMMA Holders ==
  ASSUME PoolInv
  PROVE  Workers = OnWorkers(inFlight) /\ (LoopFree <=> OnLoop(inFlight) = {})
BY DEF Workers, OnWorkers, LoopFree, OnLoop, Ids, Runs, Busy

\* A request of which only state and calls change.
LEMMA Changed ==
  ASSUME NEW reqs, NEW b, Requests(reqs, b), NEW i \in DOMAIN reqs, NEW s, NEW todo
  PROVE  /\ [reqs EXCEPT ![i].state = s]
              = With(reqs, i, [kind |-> reqs[i].kind, todo |-> reqs[i].todo, state |-> s])
         /\ Continues(reqs, i, todo)
              = With(reqs, i, [kind |-> reqs[i].kind, todo |-> todo, state |-> "running"])
         /\ RequestOK(i, reqs[i], b) /\ Len(reqs[i].todo) \in Nat
<1>1. /\ reqs = [j \in DOMAIN reqs |-> reqs[j]] /\ RequestOK(i, reqs[i], b)
      /\ DOMAIN reqs \cup {i} = DOMAIN reqs
  BY DEF Requests
<1>2. reqs[i] = [kind |-> reqs[i].kind, todo |-> reqs[i].todo, state |-> reqs[i].state]
  BY <1>1 DEF RequestOK
<1>3. \A x : [reqs[i] EXCEPT !.state = x] = [kind |-> reqs[i].kind, todo |-> reqs[i].todo, state |-> x]
  BY <1>2
<1>4. \A x : [reqs EXCEPT ![i].state = x] = With(reqs, i, [reqs[i] EXCEPT !.state = x])
  BY <1>1 DEF With
<1> QED  BY <1>1, <1>3, <1>4, WeightIs DEF Continues
-----------------------------------------------------------------------------
(***************************************************************************)
(* The steps.                                                              *)
(***************************************************************************)
\* What holds of the requests and the line, whoever takes the step.
Sound(reqs, b, q) == Requests(reqs, b) /\ CallsAreNew(reqs) /\ LineOf(reqs, q) /\ Holding(reqs)
Request(kind, todo, state) == [kind |-> kind, todo |-> todo, state |-> state]

\* The rest of a list.
LEMMA Rest ==
  ASSUME NEW S, NEW s \in Seq(S), s # <<>>
  PROVE  /\ Len(s) \in Nat \ {0} /\ Tail(s) \in Seq(S) /\ Len(Tail(s)) = Len(s) - 1
         /\ \A k \in DOMAIN Tail(s) : \E m \in DOMAIN s : Tail(s)[k] = s[m]
<1>1. Len(s) \in Nat \ {0} /\ Tail(s) \in Seq(S) /\ Len(Tail(s)) = Len(s) - 1
  BY EmptySeq, HeadTailProperties, LenProperties
<1>2. \A k \in 1 .. Len(s) - 1 : Tail(s)[k] = s[k + 1]
  BY HeadTailProperties
<1>3. DOMAIN Tail(s) = 1 .. Len(s) - 1 /\ DOMAIN s = 1 .. Len(s)
  BY <1>1, LenProperties
<1>4. \A k \in 1 .. Len(s) - 1 : k + 1 \in 1 .. Len(s)
  BY <1>1
<1> QED  BY <1>1, <1>2, <1>3, <1>4

\* A call done, or given up, leaves fewer calls.
LEMMA Shorter ==
  ASSUME NEW todo \in Seq(Calls), todo # <<>>, NEW t \in {Tail(todo), AfterFailure(todo)}
  PROVE  /\ t \in Seq(Calls) /\ Len(t) \in Nat /\ Len(t) < Len(todo)
         /\ \A k \in DOMAIN t : \E m \in DOMAIN todo : t[k] = todo[m]
<1>1. /\ Len(todo) \in Nat \ {0} /\ Tail(todo) \in Seq(Calls) /\ Len(Tail(todo)) = Len(todo) - 1
      /\ \A k \in DOMAIN Tail(todo) : \E m \in DOMAIN todo : Tail(todo)[k] = todo[m]
  BY Rest
<1>2. CASE t = Tail(todo)  BY <1>1, <1>2
<1>3. CASE t = <<>>
  <2>1. t \in Seq(Calls) /\ Len(t) = 0 /\ DOMAIN t = {}  BY <1>3
  <2> QED  BY <2>1, <1>1
<1>4. CASE Len(todo) > 2 /\ t = Tail(Tail(todo))
  <2>1. PICK u : u = Tail(todo)  OBVIOUS
  <2>2. PICK n : n = Len(todo)  OBVIOUS
  <2>3. /\ n \in Nat /\ n > 2 /\ u \in Seq(Calls) /\ Len(u) = n - 1 /\ t = Tail(u)
        /\ \A k \in DOMAIN u : \E m \in DOMAIN todo : u[k] = todo[m]
    BY <1>1, <1>4, <2>1, <2>2
  <2>4. u # <<>>  BY <2>3, EmptySeq
  <2>5. /\ t \in Seq(Calls) /\ Len(t) = Len(u) - 1
        /\ \A k \in DOMAIN t : \E m \in DOMAIN u : t[k] = u[m]
    BY <2>3, <2>4, Rest
  <2>6. Len(t) \in Nat /\ Len(t) < Len(todo)  BY <2>2, <2>3, <2>5
  <2> QED  BY <2>3, <2>5, <2>6
<1>5. t \in {<<>>, Tail(todo)} \/ (Len(todo) > 2 /\ t = Tail(Tail(todo)))
  <2>1. Head(todo).needed \in BOOLEAN
    <3>1. Head(todo) \in Calls  BY HeadTailProperties
    <3> QED  BY <3>1 DEF Calls
  <2> QED  BY <2>1 DEF AfterFailure
<1> QED  BY <1>2, <1>3, <1>4, <1>5

\* A handler that runs goes on, to a call or from one.
LEMMA GoesOn ==
  ASSUME NEW reqs, NEW b \in Nat, NEW q, Sound(reqs, b, q), NEW i \in DOMAIN reqs, Busy(reqs[i]),
         NEW r, Busy(r), r.kind = reqs[i].kind, RequestOK(i, r, b), Len(r.todo) <= Len(reqs[i].todo),
         reqs[i].state = "calling" => r.state = "calling" \/ Len(r.todo) < Len(reqs[i].todo)
  PROVE  Sound(With(reqs, i, r), b, q)
<1>1. Requests(With(reqs, i, r), b)  BY PutRequests DEF Sound
<1>2. CallsAreNew(With(reqs, i, r))  BY PutCalls DEF Sound
<1>3. LineOf(With(reqs, i, r), q)
  <2>1. reqs[i].state # "waiting" /\ r.state # "waiting"  BY DEF Busy
  <2> QED  BY <2>1, PutLine DEF Sound
<1>4. Holding(With(reqs, i, r))  BY PutHolds DEF Sound
<1> QED  BY <1>1, <1>2, <1>3, <1>4 DEF Sound

\* A handler goes on from the call it made, or gave up, and has less to do.
LEMMA CallEnds ==
  ASSUME NEW reqs, NEW b \in Nat, NEW q, Sound(reqs, b, q), NEW i \in DOMAIN reqs, reqs[i].state = "calling",
         NEW t \in {Tail(reqs[i].todo), AfterFailure(reqs[i].todo)}
  PROVE  /\ Sound(Continues(reqs, i, t), b, q)
         /\ Cardinality(TicketsOf(Continues(reqs, i, t))) \in Nat
         /\ Cardinality(TicketsOf(Continues(reqs, i, t))) < Cardinality(TicketsOf(reqs))
<1> DEFINE r == Request(reqs[i].kind, t, "running")
<1>1. Continues(reqs, i, t) = With(reqs, i, r)  BY DEF Continues, Request
<1>2. RequestOK(i, reqs[i], b) /\ Len(reqs[i].todo) \in Nat  BY WeightIs DEF Sound, Requests
<1>3. /\ t \in Seq(Calls) /\ Len(t) \in Nat /\ Len(t) < Len(reqs[i].todo)
      /\ \A k \in DOMAIN t : \E m \in DOMAIN reqs[i].todo : t[k] = reqs[i].todo[m]
  BY <1>2, Shorter DEF RequestOK
<1>4. /\ r.kind = reqs[i].kind /\ r.todo = t /\ r.state = "running"
      /\ r = [kind |-> r.kind, todo |-> r.todo, state |-> r.state]
  BY DEF Request
<1> HIDE DEF r
<1>5. RequestOK(i, r, b)  BY <1>2, <1>3, <1>4 DEF RequestOK, States
<1>6. Sound(With(reqs, i, r), b, q)  BY <1>2, <1>3, <1>4, <1>5, GoesOn DEF Busy
<1>7. Weight(i, r) < Weight(i, reqs[i]) /\ Weight(i, r) \in Nat /\ Weight(i, reqs[i]) \in Nat
  <2>1. Weight(i, r) \in Nat /\ Weight(i, reqs[i]) \in Nat  BY <1>2, <1>5, WeightIs
  <2>2. Weight(i, r) = (IF i.left = 0 THEN 8 * Len(t) ELSE 2 * Len(t)) + 1  BY <1>4 DEF Weight
  <2>3. Weight(i, reqs[i]) = IF i.left = 0 THEN 8 * Len(reqs[i].todo) - 6 ELSE 2 * Len(reqs[i].todo)
    BY <1>2 DEF Weight
  <2> QED  BY <1>2, <1>3, <2>1, <2>2, <2>3
<1>8. /\ IsFiniteSet(TicketsOf(With(reqs, i, r)))
      /\ Cardinality(TicketsOf(With(reqs, i, r)))
           = Cardinality(TicketsOf(reqs)) - Weight(i, reqs[i]) + Weight(i, r)
  BY <1>5, PutWork DEF Sound, Left
<1>9. Cardinality(TicketsOf(With(reqs, i, r))) \in Nat /\ Cardinality(TicketsOf(reqs)) \in Nat
  BY <1>8, FS_CardinalityType DEF Sound, Requests
<1> QED  BY <1>1, <1>6, <1>7, <1>8, <1>9

\* What a step of the server, or of a service outside, has to keep.
Keeps == PoolInv' /\ Work' \in Nat /\ Work' < Work

\* The invariant, in one part for all that is said of the requests.
LEMMA InvIs == PoolInv <=> browsers \in Nat /\ Sound(inFlight, browsers, line)
BY DEF PoolInv, Sound

\* A client gives up, or a service outside answers: the handler goes on with fewer calls.
LEMMA TimesOutKeeps ==
  ASSUME PoolInv, NEW i \in Ids, TimesOut(i) \/ ExternalAnswers(i)
  PROVE  Keeps
<1>1. i \in DOMAIN inFlight /\ browsers \in Nat /\ Sound(inFlight, browsers, line)  BY InvIs DEF Ids
<1>2. PICK t \in {Tail(inFlight[i].todo), AfterFailure(inFlight[i].todo)} :
        inFlight' = Continues(inFlight, i, t) /\ inFlight[i].state = "calling" /\ UNCHANGED <<line, browsers>>
  BY DEF TimesOut, ExternalAnswers
<1>3. /\ Sound(inFlight', browsers, line) /\ Cardinality(TicketsOf(inFlight')) \in Nat
      /\ Cardinality(TicketsOf(inFlight')) < Cardinality(TicketsOf(inFlight))
  BY <1>1, <1>2, CallEnds
<1>4. PoolInv'  BY <1>1, <1>2, <1>3 DEF PoolInv, Sound
<1>5. Work' = Cardinality(TicketsOf(inFlight'))  BY DEF Work
<1> QED  BY <1>3, <1>4, <1>5 DEF Keeps, Work
\* A handler makes a call: to a service outside, or to this server, which then has a new request.
LEMMA CallOutKeeps ==
  ASSUME PoolInv, NEW i \in Ids, CallOut(i)
  PROVE  Keeps
<1> DEFINE todo == inFlight[i].todo
           to == Head(todo).to
           r == Request(inFlight[i].kind, todo, "calling")
           calling == [inFlight EXCEPT ![i].state = "calling"]
           j == Id(i.browser, Len(todo))
           new == New(to)
<1>1. i \in DOMAIN inFlight /\ browsers \in Nat /\ Sound(inFlight, browsers, line)  BY InvIs DEF Ids
<1>2. /\ inFlight[i].state = "running" /\ todo # <<>> /\ UNCHANGED <<line, browsers>>
      /\ inFlight' = IF to = "external" THEN calling ELSE With(calling, j, new)
  BY DEF CallOut
<1>3. /\ calling = With(inFlight, i, r) /\ RequestOK(i, inFlight[i], browsers) /\ Len(todo) \in Nat
  BY <1>1, Changed DEF Sound, Request
<1>4. /\ r.kind = inFlight[i].kind /\ r.todo = todo /\ r.state = "calling"
      /\ r = [kind |-> r.kind, todo |-> r.todo, state |-> r.state]
  BY DEF Request
<1>5. todo \in Seq(Calls) /\ Head(todo) \in Calls /\ todo[1] = Head(todo) /\ 1 \in DOMAIN todo /\ Len(todo) > 0
  BY <1>2, <1>3 DEF RequestOK
<1>6. to \in Services /\ (i.left > 0 => to = "external")
  BY <1>3, <1>5 DEF RequestOK, Calls
<1>7. /\ new.kind = to /\ new.todo = Script(to) /\ new.state = "sent"
      /\ new = [kind |-> new.kind, todo |-> new.todo, state |-> new.state]
  BY DEF New
<1>8. j.browser = i.browser /\ j.left = Len(todo) /\ j = Id(j.browser, j.left)
  BY DEF Id
<1> HIDE DEF calling, r, j, new
<1>9. RequestOK(i, r, browsers)  BY <1>2, <1>3, <1>4 DEF RequestOK, States
<1>10. Sound(With(inFlight, i, r), browsers, line)
  BY <1>1, <1>2, <1>3, <1>4, <1>9, GoesOn DEF Busy
<1>11. /\ Weight(i, r) \in Nat /\ Weight(i, inFlight[i]) \in Nat /\ Weight(i, r) < Weight(i, inFlight[i])
       /\ i.left = 0 => Weight(i, r) = Weight(i, inFlight[i]) - 7
  <2>1. Weight(i, r) \in Nat /\ Weight(i, inFlight[i]) \in Nat  BY <1>3, <1>9, WeightIs
  <2>2. Weight(i, r) = IF i.left = 0 THEN 8 * Len(todo) - 6 ELSE 2 * Len(todo)
    BY <1>3, <1>4 DEF Weight
  <2>3. Weight(i, inFlight[i]) = (IF i.left = 0 THEN 8 * Len(todo) ELSE 2 * Len(todo)) + 1
    BY <1>2 DEF Weight
  <2> QED  BY <1>3, <2>1, <2>2, <2>3
<1>12. /\ IsFiniteSet(TicketsOf(calling)) /\ Cardinality(TicketsOf(calling)) \in Nat /\ Work \in Nat
       /\ Cardinality(TicketsOf(calling)) = Work - Weight(i, inFlight[i]) + Weight(i, r)
  <2>1. /\ IsFiniteSet(TicketsOf(With(inFlight, i, r)))
        /\ Cardinality(TicketsOf(With(inFlight, i, r)))
             = Cardinality(TicketsOf(inFlight)) - Left(inFlight, i) + Weight(i, r)
    BY <1>1, <1>9, PutWork DEF Sound
  <2>2. IsFiniteSet(TicketsOf(inFlight))  BY <1>1 DEF Sound, Requests
  <2> QED  BY <1>1, <1>3, <2>1, <2>2, FS_CardinalityType DEF Work, Left
<1>13. Work' = Cardinality(TicketsOf(inFlight'))  BY DEF Work
<1>14. CASE to = "external"
  <2>1. inFlight' = calling /\ calling = With(inFlight, i, r)  BY <1>2, <1>3, <1>14
  <2>2. Sound(inFlight', browsers, line)  BY <1>10, <2>1
  <2>3. PoolInv'  BY <1>1, <1>2, <2>2 DEF PoolInv, Sound
  <2>4. Work' \in Nat /\ Work' < Work  BY <1>11, <1>12, <1>13, <2>1
  <2> QED  BY <2>3, <2>4 DEF Keeps
<1>15. CASE to # "external"
  <2>1. inFlight' = With(calling, j, new) /\ i.left = 0 /\ Sound(calling, browsers, line)
        /\ i = Id(i.browser, 0)
    BY <1>2, <1>3, <1>6, <1>10, <1>15 DEF RequestOK
  <2>2. j \notin DOMAIN inFlight
    <3> SUFFICES ASSUME j \in DOMAIN inFlight PROVE FALSE  OBVIOUS
    <3>1. Len(todo) < j.left \/ inFlight[i].state = "calling"
      BY <1>1, <1>5, <1>8, <2>1 DEF Sound, CallsAreNew
    <3> QED  BY <3>1, <1>2, <1>3, <1>8
  <2>3. /\ j # i /\ j \notin DOMAIN calling /\ calling[i] = r /\ DOMAIN calling = DOMAIN inFlight
    BY <1>1, <1>3, <2>2 DEF With
  <2>4. RequestOK(j, new, browsers)
    <3>1. new.todo \in Seq(Calls) /\ \A k \in DOMAIN new.todo : new.todo[k].to = "external"
      BY <1>6, <1>7, CallsAre
    <3>2. j.browser \in 1 .. browsers  BY <1>3, <1>8 DEF RequestOK
    <3> QED  BY <1>3, <1>7, <1>8, <3>1, <3>2 DEF RequestOK, States
  <2>5. Requests(inFlight', browsers)  BY <1>1, <2>1, <2>4, PutRequests DEF Sound
  <2>6. CallsAreNew(inFlight')
    <3> SUFFICES ASSUME NEW h \in DOMAIN inFlight', NEW m \in DOMAIN inFlight',
                        h.left = 0, m.left > 0, h.browser = m.browser
                 PROVE  LET x == inFlight'[h]
                        IN  Len(x.todo) < m.left \/ (Len(x.todo) = m.left /\ x.state = "calling")
      BY DEF CallsAreNew
    <3>1. h # j /\ h \in DOMAIN calling /\ inFlight'[h] = calling[h]
      BY <1>3, <1>5, <1>8, <2>1 DEF With
    <3>2. CASE m = j
      <4>1. h = Id(h.browser, 0)
        <5>1. RequestOK(h, calling[h], browsers)  BY <2>1, <3>1 DEF Sound, Requests
        <5> QED  BY <5>1 DEF RequestOK
      <4>2. h = i  BY <4>1, <3>2, <1>8, <2>1
      <4>3. inFlight'[h] = r  BY <4>2, <3>1, <2>3
      <4> QED  BY <4>3, <3>2, <1>4, <1>8
    <3>3. CASE m # j
      <4>1. m \in DOMAIN calling  BY <3>3, <2>1 DEF With
      <4> QED  BY <4>1, <3>1, <2>1 DEF Sound, CallsAreNew
    <3> QED  BY <3>2, <3>3
  <2>7. LineOf(inFlight', line)
    <3>1. new.state # "waiting"  BY <1>7
    <3> QED  BY <3>1, <2>1, <2>3, PutLine DEF Sound
  <2>8. Holding(inFlight')
    <3>1. ~ Busy(new)  BY <1>7 DEF Busy
    <3> QED  BY <3>1, <2>1, PutHolds DEF Sound
  <2>9. PoolInv'  BY <1>1, <1>2, <2>5, <2>6, <2>7, <2>8 DEF PoolInv
  <2>10. Weight(j, new) \in Nat /\ Weight(j, new) <= 5
    <3>1. Weight(j, new) \in Nat  BY <2>4, WeightIs
    <3>2. Len(new.todo) \in Nat /\ Len(new.todo) <= 1
      BY <1>6, <1>7, <2>4, CallsAre, WeightIs
    <3>3. Weight(j, new) = 2 * Len(new.todo) + 3
      BY <1>5, <1>7, <1>8 DEF Weight
    <3> QED  BY <3>1, <3>2, <3>3
  <2>11. /\ IsFiniteSet(TicketsOf(inFlight'))
         /\ Cardinality(TicketsOf(inFlight')) = Cardinality(TicketsOf(calling)) - Left(calling, j) + Weight(j, new)
    BY <2>1, <2>4, PutWork DEF Sound
  <2>12. Left(calling, j) = 0  BY <2>3 DEF Left
  <2>13. Work' \in Nat  BY <2>11, <1>13, FS_CardinalityType
  <2>14. Weight(i, r) = Weight(i, inFlight[i]) - 7  BY <1>11, <2>1
  <2>15. Work' < Work  BY <1>11, <1>12, <1>13, <2>10, <2>11, <2>12, <2>14
  <2> QED  BY <2>9, <2>13, <2>15 DEF Keeps
<1> QED  BY <1>14, <1>15

\* A handler is done: its request goes, and its caller goes on if it still waits.
LEMMA AnswerKeeps ==
  ASSUME PoolInv, NEW i \in Ids, Answer(i)
  PROVE  Keeps
<1> DEFINE less == Without(inFlight, i)
<1>1. i \in DOMAIN inFlight /\ browsers \in Nat /\ Sound(inFlight, browsers, line)  BY InvIs DEF Ids
<1>2. /\ inFlight[i].state = "running" /\ UNCHANGED <<line, browsers>>
      /\ inFlight' = less \/ \E c \in Caller(i) : inFlight' = Continues(less, c, Tail(inFlight[c].todo))
  BY DEF Answer
<1>3. Sound(less, browsers, line)
  <2>1. inFlight[i].state # "waiting"  BY <1>2
  <2> QED  BY <1>1, <2>1, DropRequests, DropCalls, DropLine, DropHolds DEF Sound
<1>4. /\ IsFiniteSet(TicketsOf(less))
      /\ Cardinality(TicketsOf(less)) = Cardinality(TicketsOf(inFlight)) - Weight(i, inFlight[i])
  BY <1>1, DropWork DEF Sound
<1>5. Weight(i, inFlight[i]) \in Nat \ {0}  BY <1>1, WeightIs DEF Sound, Requests
<1>6. Cardinality(TicketsOf(less)) \in Nat /\ Cardinality(TicketsOf(inFlight)) \in Nat
  BY <1>1, <1>4, FS_CardinalityType DEF Sound, Requests
<1>7. Cardinality(TicketsOf(less)) < Work  BY <1>4, <1>5, <1>6 DEF Work
<1>8. Work' = Cardinality(TicketsOf(inFlight'))  BY DEF Work
<1>9. CASE inFlight' = less
  <2>1. PoolInv'  BY <1>1, <1>2, <1>3, <1>9 DEF PoolInv, Sound
  <2>2. Work' \in Nat /\ Work' < Work  BY <1>6, <1>7, <1>8, <1>9
  <2> QED  BY <2>1, <2>2 DEF Keeps
<1>10. ASSUME NEW c \in Caller(i), inFlight' = Continues(less, c, Tail(inFlight[c].todo))
       PROVE  Keeps
  <2>1. c \in DOMAIN inFlight /\ inFlight[c].state = "calling"  BY DEF Caller, Ids
  <2>2. c \in DOMAIN less /\ less[c] = inFlight[c]  BY <1>2, <2>1 DEF Without
  <2> HIDE DEF less
  <2>3. /\ Sound(inFlight', browsers, line) /\ Cardinality(TicketsOf(inFlight')) \in Nat
        /\ Cardinality(TicketsOf(inFlight')) < Cardinality(TicketsOf(less))
    BY <1>1, <1>3, <1>10, <2>1, <2>2, CallEnds
  <2>4. PoolInv'  BY <1>1, <1>2, <2>3 DEF PoolInv, Sound
  <2>5. Work' \in Nat /\ Work' < Work
    <3>1. Work \in Nat  BY <1>6 DEF Work
    <3> QED  BY <3>1, <1>6, <1>7, <1>8, <2>3
  <2> QED  BY <2>4, <2>5 DEF Keeps
<1> QED  BY <1>2, <1>9, <1>10
\* A request that has not run yet moves on, to the line or to run: who is in line, and who holds
\* what, is shown apart.
LEMMA MovesOn ==
  ASSUME PoolInv, NEW i \in Ids, inFlight[i].state \in {"sent", "waiting"}, NEW s \in {"waiting", "running"},
         inFlight[i].state # s, s = "waiting" => ~Async(inFlight[i].kind),
         Moves(i, s), UNCHANGED browsers, LineOf(inFlight', line'), Holding(inFlight')
  PROVE  Keeps
<1> DEFINE r == Request(inFlight[i].kind, inFlight[i].todo, s)
<1>1. i \in DOMAIN inFlight /\ browsers \in Nat /\ Sound(inFlight, browsers, line)  BY InvIs DEF Ids
<1>2. /\ inFlight' = With(inFlight, i, r) /\ RequestOK(i, inFlight[i], browsers) /\ Len(inFlight[i].todo) \in Nat
  BY <1>1, Changed DEF Moves, Sound, Request
<1>3. /\ r.kind = inFlight[i].kind /\ r.todo = inFlight[i].todo /\ r.state = s
      /\ r = [kind |-> r.kind, todo |-> r.todo, state |-> r.state]
  BY DEF Request
<1> HIDE DEF r
<1>4. RequestOK(i, r, browsers)  BY <1>2, <1>3 DEF RequestOK, States
<1>5. Requests(inFlight', browsers)  BY <1>1, <1>2, <1>4, PutRequests DEF Sound
<1>6. CallsAreNew(inFlight')
  <2>1. inFlight[i].state # "calling" /\ Len(r.todo) <= Len(inFlight[i].todo)  BY <1>2, <1>3
  <2> QED  BY <2>1, <1>1, <1>2, <1>4, PutCalls DEF Sound
<1>7. PoolInv'  BY <1>1, <1>5, <1>6 DEF PoolInv
<1>8. Weight(i, r) \in Nat /\ Weight(i, inFlight[i]) \in Nat /\ Weight(i, r) < Weight(i, inFlight[i])
  <2>1. Weight(i, r) \in Nat /\ Weight(i, inFlight[i]) \in Nat  BY <1>2, <1>4, WeightIs
  <2>2. Weight(i, r) = (IF i.left = 0 THEN 8 * Len(inFlight[i].todo) ELSE 2 * Len(inFlight[i].todo))
                       + (IF s = "waiting" THEN 2 ELSE 1)
    BY <1>3 DEF Weight
  <2>3. Weight(i, inFlight[i]) = (IF i.left = 0 THEN 8 * Len(inFlight[i].todo) ELSE 2 * Len(inFlight[i].todo))
                                 + (IF inFlight[i].state = "sent" THEN 3 ELSE 2)
    BY DEF Weight
  <2>4. (IF s = "waiting" THEN 2 ELSE 1) < (IF inFlight[i].state = "sent" THEN 3 ELSE 2)
    OBVIOUS
  <2> DEFINE x == IF i.left = 0 THEN 8 * Len(inFlight[i].todo) ELSE 2 * Len(inFlight[i].todo)
             y == IF s = "waiting" THEN 2 ELSE 1
             z == IF inFlight[i].state = "sent" THEN 3 ELSE 2
  <2>5. x \in Nat /\ y \in Nat /\ z \in Nat  BY <1>2
  <2>6. Weight(i, r) = x + y /\ Weight(i, inFlight[i]) = x + z /\ y < z  BY <2>2, <2>3, <2>4
  <2> HIDE DEF x, y, z
  <2> QED  BY <2>1, <2>5, <2>6
<1>9. /\ IsFiniteSet(TicketsOf(inFlight'))
      /\ Cardinality(TicketsOf(inFlight')) = Cardinality(TicketsOf(inFlight)) - Weight(i, inFlight[i]) + Weight(i, r)
  BY <1>1, <1>2, <1>4, PutWork DEF Sound, Left
<1>10. Cardinality(TicketsOf(inFlight')) \in Nat /\ Cardinality(TicketsOf(inFlight)) \in Nat
  BY <1>1, <1>9, FS_CardinalityType DEF Sound, Requests
<1>11. Work' = Cardinality(TicketsOf(inFlight'))  BY DEF Work
<1> QED  BY <1>7, <1>8, <1>9, <1>10, <1>11 DEF Keeps, Work

\* The loop runs a request itself, when it runs no other, or puts it at the end of the line.
LEMMA AcceptKeeps ==
  ASSUME PoolInv, NEW i \in Ids, Accept(i)
  PROVE  Keeps
<1>1. i \in DOMAIN inFlight /\ browsers \in Nat /\ Sound(inFlight, browsers, line)  BY InvIs DEF Ids
<1>2. inFlight[i].state = "sent" /\ OnLoop(inFlight) = {} /\ UNCHANGED browsers
  BY Holders DEF Accept
<1>3. ASSUME NEW s, Moves(i, s)
      PROVE  /\ inFlight' = With(inFlight, i, Request(inFlight[i].kind, inFlight[i].todo, s))
             /\ DOMAIN inFlight' = DOMAIN inFlight /\ inFlight'[i].state = s /\ inFlight'[i].kind = inFlight[i].kind
             /\ \A j \in DOMAIN inFlight : j # i => inFlight'[j] = inFlight[j]
  <2>1. inFlight' = With(inFlight, i, Request(inFlight[i].kind, inFlight[i].todo, s))
    BY <1>1, <1>3, Changed DEF Moves, Sound, Request
  <2> QED  BY <2>1, <1>1 DEF With, Request
<1>4. CASE Async(inFlight[i].kind)
  <2>1. Moves(i, "running") /\ UNCHANGED line  BY <1>4 DEF Accept
  <2>2. LineOf(inFlight', line')
    <3>1. Request(inFlight[i].kind, inFlight[i].todo, "running").state # "waiting"  BY DEF Request
    <3> QED  BY <3>1, <2>1, <1>1, <1>2, <1>3, PutLine DEF Sound
  <2>3. OnLoop(inFlight') \subseteq {i} /\ OnWorkers(inFlight') \subseteq OnWorkers(inFlight)
    BY <2>1, <1>2, <1>3, <1>4 DEF OnLoop, OnWorkers, Busy
  <2>4. Holding(inFlight')
    <3>1. Holding(inFlight)  BY <1>1 DEF Sound
    <3>2. /\ IsFiniteSet(OnWorkers(inFlight')) /\ Cardinality(OnWorkers(inFlight')) <= Cardinality(OnWorkers(inFlight))
      BY <3>1, <2>3, FS_Subset DEF Holding
    <3>3. Cardinality(OnWorkers(inFlight')) \in Nat /\ Cardinality(OnWorkers(inFlight)) \in Nat /\ PoolSize \in Nat
      BY <3>1, <3>2, FS_CardinalityType, PoolAssumption DEF Holding
    <3> QED  BY <3>1, <3>2, <3>3, <2>3 DEF Holding
  <2> QED  BY <2>1, <2>2, <2>4, <1>2, MovesOn
<1>5. CASE ~Async(inFlight[i].kind)
  <2>1. Moves(i, "waiting") /\ line' = Append(line, i)  BY <1>5 DEF Accept
  <2>2. /\ line \in Seq(DOMAIN inFlight) /\ Len(line) \in Nat /\ DOMAIN line = 1 .. Len(line)
        /\ \A k \in DOMAIN line : inFlight[line[k]].state = "waiting" /\ line[k] \in DOMAIN inFlight
    BY <1>1 DEF Sound, LineOf
  <2>3. /\ line' \in Seq(DOMAIN inFlight) /\ Len(line') = Len(line) + 1 /\ DOMAIN line' = 1 .. Len(line) + 1
        /\ \A k \in DOMAIN line : line'[k] = line[k]
        /\ line'[Len(line) + 1] = i
    BY <2>1, <2>2, <1>1, AppendProperties
  <2>4. LineOf(inFlight', line')
    <3>1. \A k \in DOMAIN line : line[k] # i  BY <2>2, <1>2
    <3>2. \A k \in DOMAIN line' : k \in DOMAIN line \/ k = Len(line) + 1  BY <2>2, <2>3
    <3>3. \A k \in DOMAIN line' : inFlight'[line'[k]].state = "waiting"
      BY <3>1, <3>2, <2>1, <2>2, <2>3, <1>3
    <3>4. ASSUME NEW h \in InLine(inFlight') PROVE \E k \in DOMAIN line' : line'[k] = h
      <4>1. CASE h = i
        <5>1. Len(line) + 1 \in DOMAIN line'  BY <2>2, <2>3
        <5> QED  BY <5>1, <4>1, <2>3
      <4>2. CASE h # i
        <5>1. h \in InLine(inFlight)  BY <4>2, <3>4, <2>1, <1>3 DEF InLine
        <5>2. PICK k \in DOMAIN line : line[k] = h  BY <5>1, <1>1 DEF Sound, LineOf
        <5>3. k \in DOMAIN line'  BY <5>2, <2>2, <2>3
        <5> QED  BY <5>2, <5>3, <2>3
      <4> QED  BY <4>1, <4>2
    <3>5. ASSUME NEW k \in DOMAIN line', NEW m \in DOMAIN line', line'[k] = line'[m] PROVE k = m
      <4>1. \A h, n \in DOMAIN line : line[h] = line[n] => h = n  BY <1>1 DEF Sound, LineOf
      <4> QED  BY <4>1, <3>1, <3>2, <3>5, <2>3
    <3>6. line' \in Seq(DOMAIN inFlight')  BY <2>1, <2>3, <1>3
    <3> QED  BY <3>3, <3>4, <3>5, <3>6 DEF LineOf
  <2>5. Holding(inFlight')
    <3>1. ~ Busy(Request(inFlight[i].kind, inFlight[i].todo, "waiting"))  BY DEF Request, Busy
    <3> QED  BY <3>1, <2>1, <1>1, <1>3, PutHolds DEF Sound
  <2> QED  BY <2>1, <2>4, <2>5, <1>2, <1>5, MovesOn
<1> QED  BY <1>4, <1>5

\* The first in line gets the worker that is free.
LEMMA DispatchKeeps ==
  ASSUME PoolInv, Dispatch
  PROVE  Keeps
<1>0. PICK i : i = Head(line)  OBVIOUS
<1>1. browsers \in Nat /\ Sound(inFlight, browsers, line)  BY InvIs
<1>2. /\ line # <<>> /\ Cardinality(OnWorkers(inFlight)) < PoolSize
      /\ Moves(i, "running") /\ line' = Tail(line) /\ UNCHANGED browsers
  BY <1>0, Holders DEF Dispatch
<1>3. line \in Seq(DOMAIN inFlight)  BY <1>1 DEF Sound, LineOf
<1>4. /\ i = line[1] /\ Len(line) \in Nat \ {0} /\ DOMAIN line = 1 .. Len(line) /\ 1 \in DOMAIN line
      /\ i \in DOMAIN inFlight
  BY <1>0, <1>2, <1>3, EmptySeq, LenProperties, HeadTailProperties
<1>5. /\ line' \in Seq(DOMAIN inFlight) /\ DOMAIN line' = 1 .. Len(line) - 1
      /\ \A k \in DOMAIN line' : k + 1 \in DOMAIN line /\ k + 1 # 1 /\ line'[k] = line[k + 1]
  <2>1. /\ Tail(line) \in Seq(DOMAIN inFlight) /\ Len(Tail(line)) = Len(line) - 1
        /\ \A k \in 1 .. Len(Tail(line)) : Tail(line)[k] = line[k + 1]
    BY <1>2, <1>3, HeadTailProperties
  <2>2. DOMAIN Tail(line) = 1 .. Len(line) - 1  BY <2>1, LenProperties
  <2>3. \A k \in 1 .. Len(line) - 1 : k + 1 \in 1 .. Len(line) /\ k + 1 # 1  BY <1>4
  <2> QED  BY <1>2, <1>4, <2>1, <2>2, <2>3
<1>6. inFlight[i].state = "waiting"  BY <1>1, <1>4 DEF Sound, LineOf
<1>7. ~Async(inFlight[i].kind)  BY <1>1, <1>4, <1>6 DEF Sound, Requests, RequestOK
<1>8. /\ DOMAIN inFlight' = DOMAIN inFlight /\ inFlight'[i].state = "running" /\ inFlight'[i].kind = inFlight[i].kind
      /\ \A j \in DOMAIN inFlight : j # i => inFlight'[j] = inFlight[j]
  <2>1. inFlight' = With(inFlight, i, Request(inFlight[i].kind, inFlight[i].todo, "running"))
    <3>1. inFlight' = [inFlight EXCEPT ![i].state = "running"]  BY <1>2 DEF Moves
    <3>2. Requests(inFlight, browsers)  BY <1>1 DEF Sound
    <3>3. [inFlight EXCEPT ![i].state = "running"]
            = With(inFlight, i, [kind |-> inFlight[i].kind, todo |-> inFlight[i].todo, state |-> "running"])
      BY <3>2, <1>4, Changed
    <3> QED  BY <3>1, <3>3 DEF Request
  <2> QED  BY <2>1, <1>4 DEF With, Request
<1>9. LineOf(inFlight', line')
  <2>1. \A k, m \in DOMAIN line : line[k] = line[m] => k = m  BY <1>1 DEF Sound, LineOf
  <2>2. \A k \in DOMAIN line' : line'[k] # i /\ line'[k] \in DOMAIN inFlight /\ inFlight[line'[k]].state = "waiting"
    BY <2>1, <1>1, <1>3, <1>4, <1>5 DEF Sound, LineOf
  <2>3. \A k \in DOMAIN line' : inFlight'[line'[k]].state = "waiting"  BY <2>2, <1>8
  <2>4. ASSUME NEW h \in InLine(inFlight') PROVE \E k \in DOMAIN line' : line'[k] = h
    <3>1. h # i /\ h \in InLine(inFlight)  BY <2>4, <1>8 DEF InLine
    <3>2. PICK k \in DOMAIN line : line[k] = h  BY <3>1, <1>1 DEF Sound, LineOf
    <3>3. k - 1 \in DOMAIN line' /\ (k - 1) + 1 = k  BY <3>1, <3>2, <1>4, <1>5
    <3> QED  BY <3>2, <3>3, <1>5
  <2>5. ASSUME NEW k \in DOMAIN line', NEW m \in DOMAIN line', line'[k] = line'[m] PROVE k = m
    <3>1. k + 1 = m + 1  BY <2>1, <2>5, <1>5
    <3>2. k \in Int /\ m \in Int  BY <1>4, <1>5
    <3> QED  BY <3>1, <3>2
  <2>6. line' \in Seq(DOMAIN inFlight')  BY <1>5, <1>8
  <2> QED  BY <2>3, <2>4, <2>5, <2>6 DEF LineOf
<1>10. Holding(inFlight')
  <2>1. Holding(inFlight)  BY <1>1 DEF Sound
  <2>2. OnWorkers(inFlight') = OnWorkers(inFlight) \cup {i} /\ OnLoop(inFlight') = OnLoop(inFlight)
    BY <1>4, <1>6, <1>7, <1>8 DEF OnWorkers, OnLoop, Busy
  <2>3. /\ IsFiniteSet(OnWorkers(inFlight')) /\ Cardinality(OnWorkers(inFlight)) \in Nat
        /\ Cardinality(OnWorkers(inFlight')) <= Cardinality(OnWorkers(inFlight)) + 1
    <3>1. IsFiniteSet(OnWorkers(inFlight))  BY <2>1 DEF Holding
    <3> QED  BY <3>1, <2>2, FS_AddElement, FS_CardinalityType
  <2>4. Cardinality(OnWorkers(inFlight')) \in Nat /\ PoolSize \in Nat
    BY <2>3, FS_CardinalityType, PoolAssumption
  <2> QED  BY <2>1, <2>2, <2>3, <2>4, <1>2 DEF Holding
<1> QED  BY <1>2, <1>4, <1>6, <1>9, <1>10, MovesOn DEF Ids

\* A browser sends a request, the first it sends.
LEMMA BrowseKeeps ==
  ASSUME PoolInv, NEW kind \in OuterKinds, Browse(kind)
  PROVE  PoolInv'
<1> DEFINE i == Id(browsers + 1, 0)
           new == New(kind)
<1>1. browsers \in Nat /\ Sound(inFlight, browsers, line)  BY InvIs
<1>2. /\ browsers' = browsers + 1 /\ inFlight' = With(inFlight, i, new) /\ line' = line
  BY DEF Browse
<1>3. i.browser = browsers + 1 /\ i.left = 0 /\ i = Id(i.browser, i.left)  BY DEF Id
<1>4. /\ new.kind = kind /\ new.todo = Script(kind) /\ new.state = "sent"
      /\ new = [kind |-> new.kind, todo |-> new.todo, state |-> new.state]
  BY DEF New
<1> HIDE DEF i, new
<1>5. \A j \in DOMAIN inFlight : j.browser \in Nat /\ j.browser # i.browser
  <2>1. \A j \in DOMAIN inFlight : j.browser \in 1 .. browsers  BY <1>1 DEF Sound, Requests, RequestOK
  <2> QED  BY <2>1, <1>1, <1>3
<1>6. RequestOK(i, new, browsers')
  <2>1. i.browser \in 1 .. browsers'  BY <1>1, <1>2, <1>3
  <2> QED  BY <2>1, <1>3, <1>4, CallsAre DEF RequestOK, States
<1>7. browsers' \in Nat /\ browsers <= browsers'  BY <1>1, <1>2
<1>8. Requests(inFlight', browsers')  BY <1>1, <1>2, <1>6, <1>7, PutRequests DEF Sound
<1>9. CallsAreNew(inFlight')
  <2>1. \A j \in DOMAIN inFlight' : j = i \/ (j \in DOMAIN inFlight /\ inFlight'[j] = inFlight[j] /\ j.browser # i.browser)
    BY <1>2, <1>5 DEF With
  <2> QED  BY <2>1, <1>1, <1>3 DEF Sound, CallsAreNew
<1>10. i \notin DOMAIN inFlight  BY <1>5
<1>11. LineOf(inFlight', line')
  <2>1. new.state # "waiting"  BY <1>4
  <2> QED  BY <2>1, <1>1, <1>2, <1>10, PutLine DEF Sound
<1>12. Holding(inFlight')
  <2>1. ~ Busy(new)  BY <1>4 DEF Busy
  <2> QED  BY <2>1, <1>1, <1>2, PutHolds DEF Sound
<1> QED  BY <1>7, <1>8, <1>9, <1>11, <1>12 DEF PoolInv
-----------------------------------------------------------------------------
(***************************************************************************)
(* The theorems.                                                           *)
(***************************************************************************)
\* Every behaviour starts within the invariant.
LEMMA PoolInitInv == PoolInit => PoolInv
<1> SUFFICES ASSUME PoolInit PROVE PoolInv  OBVIOUS
<1>1. inFlight = <<>> /\ line = <<>> /\ browsers = 0 /\ DOMAIN inFlight = {}  BY DEF PoolInit
<1>2. TicketsOf(inFlight) = {} /\ OnWorkers(inFlight) = {} /\ OnLoop(inFlight) = {}
  BY <1>1 DEF TicketsOf, OnWorkers, OnLoop
<1>3. IsFiniteSet({}) /\ Cardinality({}) = 0  BY FS_EmptySet
<1>4. inFlight = [i \in DOMAIN inFlight |-> inFlight[i]]  BY <1>1
<1>5. Requests(inFlight, browsers)  BY <1>1, <1>2, <1>3, <1>4 DEF Requests
<1>6. LineOf(inFlight, line) /\ CallsAreNew(inFlight)  BY <1>1 DEF LineOf, InLine, CallsAreNew
<1>7. Holding(inFlight)
  <2>1. 0 <= PoolSize  BY PoolAssumption
  <2> QED  BY <2>1, <1>2, <1>3 DEF Holding
<1> QED  BY <1>1, <1>5, <1>6, <1>7 DEF PoolInv

\* No step leaves the invariant, and only a browser's adds work.
LEMMA PoolStep ==
  ASSUME PoolInv, [PoolNext]_poolVars
  PROVE  PoolInv' /\ (UNCHANGED poolVars \/ browsers' # browsers \/ (Work' \in Nat /\ Work' < Work))
<1>1. CASE Dispatch  BY <1>1, DispatchKeeps DEF Keeps
<1>2. ASSUME NEW i \in Ids, Accept(i) \/ CallOut(i) \/ TimesOut(i) \/ Answer(i) \/ ExternalAnswers(i)
      PROVE  Keeps
  BY <1>2, AcceptKeeps, CallOutKeeps, TimesOutKeeps, AnswerKeeps
<1>3. ASSUME NEW k \in OuterKinds, Browse(k)
      PROVE  PoolInv' /\ browsers' # browsers
  <2>1. browsers' = browsers + 1 /\ browsers \in Nat  BY <1>3 DEF Browse, PoolInv
  <2> QED  BY <2>1, <1>3, BrowseKeeps
<1>4. CASE UNCHANGED poolVars
  <2>1. inFlight' = inFlight /\ line' = line /\ browsers' = browsers  BY <1>4 DEF poolVars
  <2> QED  BY <2>1, <1>4 DEF PoolInv
<1> QED  BY <1>1, <1>2, <1>3, <1>4 DEF PoolNext, ServerSteps, Keeps

\* Every reachable state satisfies the invariant.
LEMMA PoolInvariance == PoolSpec => []PoolInv
BY PoolInitInv, PoolStep, PTL DEF PoolSpec

\* However long the line and whoever waits for whom, some request can be brought on (Starlette's
\* thread pool, httpx' timeouts).
THEOREM ServerNeverStuck == PoolSpec => []NeverStuck
<1>1. PoolInv => NeverStuck
  <2> SUFFICES ASSUME PoolInv, Ids # {}, ~ServerCanStep PROVE FALSE  BY DEF NeverStuck
  <2>1. Sound(inFlight, browsers, line)  BY InvIs
  <2>2. \A i \in Ids : inFlight[i].state \in States
    BY <2>1 DEF Sound, Requests, RequestOK, Ids
  <2>3. \A i \in Ids : inFlight[i].state # "calling"  BY DEF ServerCanStep
  <2>4. LoopFree
    <3>1. \A i \in Ids : Async(inFlight[i].kind) => inFlight[i].state # "running"
      BY DEF ServerCanStep
    <3> QED  BY <2>3, <3>1 DEF LoopFree, Runs
  <2>5. \A i \in Ids : inFlight[i].state = "waiting"
    BY <2>2, <2>3, <2>4 DEF ServerCanStep, States
  <2>6. line # <<>>
    <3>1. PICK i : i \in InLine(inFlight)  BY <2>5 DEF InLine, Ids
    <3>2. PICK k \in DOMAIN line : line[k] = i  BY <2>1, <3>1 DEF Sound, LineOf
    <3> QED  BY <3>2
  <2>7. Workers = {}  BY <2>5 DEF Workers, Runs
  <2>8. Cardinality(Workers) < PoolSize
    <3>1. 0 < PoolSize  BY PoolAssumption
    <3> QED  BY <3>1, <2>7, FS_EmptySet
  <2> QED  BY <2>4, <2>6, <2>8 DEF ServerCanStep
<1> QED  BY <1>1, PoolInvariance, PTL

\* A handler holds its worker through its calls, so that the pool is never exceeded, and an upload
\* holds the event loop alone (media_upload, anyio's limiter).
THEOREM PoolIsHeld == PoolSpec => []PoolHolds
<1>1. PoolInv => PoolHolds
  <2> SUFFICES ASSUME PoolInv PROVE PoolHolds  OBVIOUS
  <2>1. Holding(inFlight) /\ Workers = OnWorkers(inFlight)  BY Holders DEF PoolInv
  <2>2. \A i \in Ids : Async(inFlight[i].kind) /\ Runs(i) => i \in OnLoop(inFlight)
    BY DEF OnLoop, Runs, Busy, Ids
  <2> QED  BY <2>1, <2>2 DEF PoolHolds, Holding
<1> QED  BY <1>1, PoolInvariance, PTL

\* Calls of the server to itself do not breed: between two requests of browsers there are finitely
\* many steps, a timeout ends a wait for good, and nothing is retried (process_message, describe,
\* blur_pii, send).
THEOREM WorkComesToAnEnd == PoolSpec => WorkEnds
<1>1. PoolInv /\ [PoolNext]_poolVars => [browsers' = browsers => Work' \in Nat /\ Work' < Work]_poolVars
  BY PoolStep
<1> QED  BY <1>1, PoolInvariance, PTL DEF PoolSpec, WorkEnds
=============================================================================
