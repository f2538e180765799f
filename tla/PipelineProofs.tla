---------------------------- MODULE PipelineProofs ----------------------------
(***************************************************************************)
(* Proofs about Pipeline, for any messages, consents and bounds.           *)
(*                                                                         *)
(* A consent that was revoked is in neither memory nor file, so no start   *)
(* brings it back; a call of process_message knows what has become of its  *)
(* message, and the log, the platform and the calls that run never         *)
(* disagree about it.                                                      *)
(***************************************************************************)
EXTENDS Pipeline, TLAPS

ConsentVC == [vc_id: VcIds, version: Nat, grants: ConsentForms]
Steps == {"decide", "deny", "vlm", "redact", "send", "sent", "send_error"}
DatasetNames == {"home/env/temperature", "home/energy/power", "home/state/other",
                 "home/event/person_detected", "home/event/other"}
Handler == [id: Nat, via: {"mqtt", "request"}, dataset: DatasetNames, purpose: MessagePurposes, step: Steps,
            consent: SUBSET ConsentVC, at: Nat,
            keys: SUBSET (MediaKeys \cup {"description_full", "description_summary", "image_url_redacted"}),
            warnings: SUBSET {"vlm_unavailable", "redaction_unavailable"}, known_revoked: SUBSET Nat]

PipelineTypes ==
  /\ clock \in Nat /\ versions \in Nat /\ arrived \in Nat
  /\ consents \in Seq(ConsentVC) /\ file \in [parses: BOOLEAN, list: Seq(ConsentVC)]
  /\ handlers \subseteq Handler /\ rows \in Seq(Handler)
  /\ log \subseteq [id: Nat, action: {"allow", "deny", "send_error"}]

\* A revoked version is nowhere a decision could find it, now or after a start.
RevokedGone ==
  /\ revoked \subseteq 1..versions
  /\ Versions(consents) \subseteq (1..versions) \ revoked
  /\ Versions(file.list) \subseteq (1..versions) \ revoked

\* A decision to allow rests on a consent that held when it was taken.
Consented(h) ==
  \E vc \in h.consent :
    /\ vc.grants.dataset = h.dataset /\ vc.grants.signed
    /\ h.purpose \in vc.grants.purposes
    /\ vc.grants.valid_from <= h.at /\ h.at <= vc.grants.valid_to
    /\ vc.version \notin h.known_revoked
Decided == {"vlm", "redact", "send", "sent", "send_error"}
ConsentsHeld ==
  /\ \A h \in handlers : h.known_revoked \subseteq revoked /\ (h.step \in Decided => Consented(h))
  /\ \A i \in DOMAIN rows : Consented(rows[i])

\* What has become of the messages.
Delivered == {rows[i].id : i \in DOMAIN rows}
Logged == {r.id : r \in log}
Answered == {h.id : h \in handlers}
CallsOK ==
  /\ \A g, h \in handlers : g.id = h.id => g = h
  /\ \A h \in handlers :
       /\ h.id \in 1..arrived /\ h.id \notin Logged \cup lost
       /\ h.step \in {"decide", "deny", "vlm", "redact", "send"} => h.id \notin Delivered
       /\ h.step = "sent" => h.id \in Delivered
RowsTold ==
  /\ \A i, j \in DOMAIN rows : rows[i].id = rows[j].id => i = j
  /\ Delivered \subseteq 1..arrived /\ Delivered \subseteq Answered \cup Logged \cup lost
LogTrue ==
  /\ Logged \subseteq 1..arrived /\ lost \subseteq 1..arrived
  /\ \A r \in log : /\ r.action = "allow" => r.id \in Delivered
                    /\ r.action = "deny" => r.id \notin Delivered
  /\ \A r \in replies : r.status = "allowed" => [id |-> r.id, action |-> "allow"] \in log

PipelineInv == PipelineTypes /\ RevokedGone /\ ConsentsHeld /\ CallsOK /\ RowsTold /\ LogTrue
-----------------------------------------------------------------------------
\* Removing an element leaves the others.
LEMMA Removed ==
  ASSUME NEW S, NEW s \in Seq(S), NEW i \in DOMAIN s
  PROVE  /\ RemoveAt(s, i) \in Seq(S)
         /\ \A j \in DOMAIN RemoveAt(s, i) : \E k \in DOMAIN s : RemoveAt(s, i)[j] = s[k]
<1> DEFINE front == SubSeq(s, 1, i - 1)
           rest  == SubSeq(s, i + 1, Len(s))
<1>1. i \in 1..Len(s) /\ Len(s) \in Nat /\ \A k \in 1..Len(s) : s[k] \in S
  OBVIOUS
<1>2. /\ front \in Seq(S) /\ Len(front) = i - 1 /\ \A j \in 1..(i - 1) : front[j] = s[j]
  BY <1>1
<1>3. /\ rest \in Seq(S) /\ Len(rest) = Len(s) - i /\ \A j \in 1..(Len(s) - i) : rest[j] = s[i + j]
  BY <1>1
<1>4. RemoveAt(s, i) = front \o rest
  BY DEF RemoveAt
<1> HIDE DEF front, rest
<1>5. /\ RemoveAt(s, i) \in Seq(S) /\ DOMAIN RemoveAt(s, i) = 1..(Len(s) - 1)
      /\ \A j \in 1..(Len(s) - 1) : RemoveAt(s, i)[j] = IF j <= i - 1 THEN front[j] ELSE rest[j - (i - 1)]
  <2>1. RemoveAt(s, i) \in Seq(S)
    BY <1>2, <1>3, <1>4
  <2>2. Len(front) + Len(rest) = Len(s) - 1 /\ Len(front) = i - 1 /\ Len(rest) \in Nat /\ Len(front) \in Nat
    BY <1>1, <1>2, <1>3
  <2>3. /\ DOMAIN (front \o rest) = 1..(Len(front) + Len(rest))
        /\ \A j \in 1..(Len(front) + Len(rest)) :
             (front \o rest)[j] = IF j <= Len(front) THEN front[j] ELSE rest[j - Len(front)]
    BY <1>2, <1>3, <2>2
  <2>4. QED
    BY <1>4, <2>1, <2>2, <2>3
<1>6. ASSUME NEW j \in 1..(Len(s) - 1)
      PROVE  \E k \in DOMAIN s : RemoveAt(s, i)[j] = s[k]
  <2>1. CASE j <= i - 1
    BY <1>1, <1>2, <1>5, <2>1
  <2>2. CASE j > i - 1
    <3>1. j - (i - 1) \in 1..(Len(s) - i) /\ i + (j - (i - 1)) = j + 1 /\ j + 1 \in DOMAIN s
      BY <1>1, <2>2
    <3>2. RemoveAt(s, i)[j] = s[j + 1]
      BY <1>1, <1>3, <1>5, <2>2, <3>1
    <3>3. QED
      BY <3>1, <3>2
  <2>3. QED
    BY <1>1, <2>1, <2>2
<1>7. QED
  BY <1>5, <1>6

\* What the types say of the sequences.
LEMMA PipelineShapes ==
  ASSUME PipelineTypes
  PROVE  /\ DOMAIN rows = 1..Len(rows) /\ Len(rows) \in Nat /\ \A i \in DOMAIN rows : rows[i] \in Handler
         /\ DOMAIN consents = 1..Len(consents) /\ Len(consents) \in Nat
         /\ \A i \in DOMAIN consents : consents[i] \in ConsentVC
         /\ file.list \in Seq(ConsentVC) /\ \A h \in handlers : h \in Handler
  BY DEF PipelineTypes

\* Every behaviour starts within the invariant.
LEMMA PipelineInitInv == PipelineInit => PipelineInv
<1> SUFFICES ASSUME PipelineInit
             PROVE  PipelineInv
  OBVIOUS
<1>1. PipelineTypes
  BY DEF PipelineInit, PipelineTypes, Parsable
<1>2. RevokedGone
  BY DEF PipelineInit, RevokedGone, Versions, Parsable
<1>3. ConsentsHeld /\ CallsOK /\ RowsTold /\ LogTrue
  BY DEF PipelineInit, ConsentsHeld, CallsOK, RowsTold, LogTrue, Delivered, Logged, Answered
<1>4. QED
  BY <1>1, <1>2, <1>3 DEF PipelineInv

messageVars == <<handlers, arrived, rows, log, replies, lost>>

\* What happens to the consents takes nothing back from the calls that run, which know less than is
\* revoked by now.
LEMMA CallsKeep ==
  ASSUME PipelineInv, UNCHANGED messageVars, revoked \subseteq revoked'
  PROVE  ConsentsHeld' /\ CallsOK' /\ RowsTold' /\ LogTrue'
<1>1. ConsentsHeld'
  BY DEF PipelineInv, ConsentsHeld, messageVars, Consented
<1>2. CallsOK' /\ RowsTold' /\ LogTrue'
  BY DEF PipelineInv, CallsOK, RowsTold, LogTrue, messageVars, Delivered, Logged, Answered
<1>3. QED
  BY <1>1, <1>2

\* The store's list becomes "new", which may lack versions and may have the next one; it is saved or
\* its writing raises.
LEMMA StoreChanges ==
  ASSUME PipelineInv, UNCHANGED messageVars, clock' = clock,
         versions' \in Nat, versions <= versions',
         NEW new \in Seq(ConsentVC), consents' = new, Versions(new) \subseteq Versions(consents) \cup ((versions + 1)..versions'),
         \/ Saved(new) /\ revoked' = revoked \cup (Versions(consents) \ Versions(new))
         \/ SaveRaises /\ UNCHANGED revoked
  PROVE  PipelineInv'
<1>a. PipelineTypes /\ RevokedGone /\ versions \in Nat
  BY DEF PipelineInv, PipelineTypes
<1>b. 1..versions \subseteq 1..versions' /\ (versions + 1)..versions' \subseteq 1..versions'
      /\ (1..versions) \cap ((versions + 1)..versions') = {}
  BY <1>a
<1>1. /\ file' \in [parses: BOOLEAN, list: Seq(ConsentVC)]
      /\ Versions(file'.list) \subseteq Versions(file.list) \/ (Versions(file'.list) = Versions(new) /\ Saved(new))
  <2>1. CASE Saved(new)
    BY <2>1 DEF Saved, Parsable
  <2>2. CASE file' = file
    BY <1>a, <2>2 DEF PipelineTypes
  <2>3. CASE file' = Unparsable
    BY <2>3 DEF Unparsable, Versions
  <2>4. QED
    BY <2>1, <2>2, <2>3 DEF SaveRaises
<1>2. PipelineTypes'
  BY <1>a, <1>1 DEF PipelineTypes, messageVars
<1>3. Versions(new) = Versions(consents')
  OBVIOUS
<1>4. revoked \subseteq revoked'
  OBVIOUS
<1>5. /\ revoked' \subseteq 1..versions'
      /\ Versions(new) \subseteq (1..versions') \ revoked'
  BY <1>a, <1>b DEF RevokedGone
<1>6. Versions(file'.list) \subseteq (1..versions') \ revoked'
  <2>1. CASE Saved(new)
    <3>1. file'.list = new
      BY <2>1 DEF Saved, Parsable
    <3>2. QED
      BY <1>5, <3>1
  <2>2. CASE SaveRaises /\ UNCHANGED revoked
    <3>1. Versions(file'.list) \subseteq Versions(file.list)
      BY <2>2 DEF SaveRaises, Unparsable, Versions
    <3>2. QED
      BY <1>a, <1>b, <2>2, <3>1 DEF RevokedGone
  <2>3. QED
    BY <2>1, <2>2
<1>7. RevokedGone'
  BY <1>3, <1>5, <1>6 DEF RevokedGone, Versions
<1>8. QED
  BY <1>2, <1>4, <1>7, CallsKeep DEF PipelineInv
\* A consent that is put or removed leaves the invariant.
LEMMA StoreStep ==
  ASSUME PipelineInv, NEW id \in VcIds, delete(id) \/ \E f \in ConsentForms : upsert(id, f)
  PROVE  PipelineInv'
<1>a. PipelineTypes /\ versions \in Nat /\ consents \in Seq(ConsentVC)
  BY DEF PipelineInv, PipelineTypes
<1>b. \A i \in DOMAIN consents : consents[i] \in ConsentVC
  BY <1>a, PipelineShapes
<1>1. ASSUME delete(id)
      PROVE  PipelineInv'
  <2>1. PICK i \in Position(id) :
          /\ consents' = RemoveAt(consents, i)
          /\ \/ Saved(RemoveAt(consents, i))
                /\ revoked' = revoked \cup (Versions(consents) \ Versions(RemoveAt(consents, i)))
             \/ SaveRaises /\ UNCHANGED revoked
          /\ UNCHANGED <<up, clock, versions, handlers, arrived, rows, log, replies, lost, crashes>>
    BY <1>1 DEF delete
  <2> DEFINE new == RemoveAt(consents, i)
  <2>2. new \in Seq(ConsentVC) /\ \A j \in DOMAIN new : \E k \in DOMAIN consents : new[j] = consents[k]
    BY <1>a, Removed DEF Position
  <2>3. consents' = new /\ (\/ Saved(new) /\ revoked' = revoked \cup (Versions(consents) \ Versions(new))
                            \/ SaveRaises /\ UNCHANGED revoked)
    BY <2>1
  <2> HIDE DEF new
  <2>4. Versions(new) \subseteq Versions(consents)
    BY <2>2 DEF Versions
  <2>5. UNCHANGED messageVars /\ clock' = clock /\ versions' = versions /\ versions <= versions'
    BY <1>a, <2>1 DEF messageVars
  <2>6. QED
    BY <1>a, <2>2, <2>3, <2>4, <2>5, StoreChanges
<1>2. ASSUME NEW f \in ConsentForms, upsert(id, f)
      PROVE  PipelineInv'
  <2> DEFINE vc  == [vc_id |-> id, version |-> versions + 1, grants |-> f]
             new == IF Position(id) = {} THEN Append(consents, vc)
                    ELSE [i \in DOMAIN consents |-> IF i \in Position(id) THEN vc ELSE consents[i]]
  <2>1. vc \in ConsentVC /\ vc.version = versions + 1
    BY <1>a DEF ConsentVC
  <2>2. /\ consents' = new
        /\ \/ Saved(new) /\ revoked' = revoked \cup (Versions(consents) \ Versions(new))
           \/ SaveRaises /\ UNCHANGED revoked
        /\ UNCHANGED <<clock, handlers, arrived, rows, log, replies, lost>> /\ versions' = versions + 1
    BY <1>2 DEF upsert
  <2> HIDE DEF vc
  <2>3. new \in Seq(ConsentVC) /\ \A j \in DOMAIN new : new[j] = vc \/ \E k \in DOMAIN consents : new[j] = consents[k]
    <3>1. CASE Position(id) = {}
      BY <1>a, <2>1, <3>1
    <3>2. CASE Position(id) # {}
      <4>1. new = [i \in 1..Len(consents) |-> IF i \in Position(id) THEN vc ELSE consents[i]]
        BY <1>a, <3>2
      <4>2. QED
        BY <1>a, <1>b, <2>1, <4>1
    <3>3. QED
      BY <3>1, <3>2
  <2> HIDE DEF new
  <2>4. Versions(new) \subseteq Versions(consents) \cup ((versions + 1)..versions')
    <3>1. versions + 1 \in (versions + 1)..versions'
      BY <1>a, <2>2
    <3>2. QED
      BY <2>1, <2>3, <3>1 DEF Versions
  <2>5. UNCHANGED messageVars /\ clock' = clock /\ versions' \in Nat /\ versions <= versions'
    BY <1>a, <2>2 DEF messageVars
  <2>6. QED
    BY <2>2, <2>3, <2>4, <2>5, StoreChanges
<1>3. QED
  BY <1>1, <1>2

\* A crash, a start and the clock leave it too.
LEMMA ProcessStep ==
  ASSUME PipelineInv, crash \/ _load_if_exists \/ PipelineTick \/ UNCHANGED pipelineVars
  PROVE  PipelineInv'
<1>a. PipelineTypes /\ RevokedGone /\ clock \in Nat
  BY DEF PipelineInv, PipelineTypes
<1>1. CASE crash
  <2>1. file' = file \/ file' = Unparsable
    BY <1>1 DEF crash
  <2>2. file' \in [parses: BOOLEAN, list: Seq(ConsentVC)] /\ Versions(file'.list) \subseteq Versions(file.list)
    <3>1. CASE file' = file
      BY <1>a, <3>1 DEF PipelineTypes
    <3>2. CASE file' = Unparsable
      BY <3>2 DEF Unparsable, Versions
    <3>3. QED
      BY <2>1, <3>1, <3>2
  <2>3. consents' = <<>> /\ Versions(consents') = {} /\ handlers' = {}
    BY <1>1 DEF crash, Versions
  <2>4. UNCHANGED <<clock, versions, revoked, arrived, rows, log, replies>> /\ lost' = lost \cup Answered
    BY <1>1 DEF crash, Answered
  <2>5. PipelineTypes'
    BY <1>a, <2>2, <2>3, <2>4 DEF PipelineTypes
  <2>6. RevokedGone'
    BY <1>a, <2>2, <2>3, <2>4 DEF RevokedGone, Versions
  <2>7. ConsentsHeld' /\ CallsOK'
    BY <2>3, <2>4 DEF PipelineInv, ConsentsHeld, Consented, CallsOK
  <2>8. Answered \subseteq 1..arrived
    BY DEF Answered, PipelineInv, CallsOK
  <2>9. Delivered' = Delivered /\ Logged' = Logged
    BY <2>4 DEF Delivered, Logged
  <2>10. RowsTold' /\ LogTrue'
    BY <2>4, <2>8, <2>9 DEF PipelineInv, RowsTold, LogTrue
  <2>11. QED
    BY <2>5, <2>6, <2>7, <2>10 DEF PipelineInv
<1>2. CASE _load_if_exists
  <2>1. \/ consents' = file.list /\ file' = file
        \/ consents' = consents /\ file' = Parsable(<<>>)
    BY <1>2 DEF _load_if_exists
  <2>2. UNCHANGED messageVars /\ UNCHANGED <<clock, versions, revoked>>
    BY <1>2 DEF _load_if_exists, messageVars
  <2>3. PipelineTypes'
    <3>1. Parsable(<<>>) \in [parses: BOOLEAN, list: Seq(ConsentVC)] /\ <<>> \in Seq(ConsentVC)
      BY DEF Parsable
    <3>2. file' \in [parses: BOOLEAN, list: Seq(ConsentVC)] /\ consents' \in Seq(ConsentVC)
      BY <1>a, <2>1, <3>1 DEF PipelineTypes
    <3>3. QED
      BY <1>a, <2>2, <3>2 DEF PipelineTypes, messageVars
  <2>4. RevokedGone'
    BY <1>a, <2>1, <2>2 DEF RevokedGone, Parsable, Versions
  <2>5. QED
    BY <2>2, <2>3, <2>4, CallsKeep DEF PipelineInv
<1>3. CASE PipelineTick \/ UNCHANGED pipelineVars
  <2>1. UNCHANGED messageVars /\ UNCHANGED storeVars /\ clock' \in Nat
    BY <1>a, <1>3 DEF PipelineTick, pipelineVars, messageVars, storeVars
  <2>2. PipelineTypes' /\ RevokedGone'
    BY <1>a, <2>1 DEF PipelineTypes, RevokedGone, Versions, messageVars, storeVars
  <2>3. QED
    BY <2>1, <2>2, CallsKeep DEF PipelineInv, storeVars
<1>4. QED
  BY <1>1, <1>2, <1>3

\* A message that arrives is one nobody knows of yet.
LEMMA ArrivalStep ==
  ASSUME PipelineInv, NEW via \in {"mqtt", "request"}, NEW m \in Messages, NEW p \in MessagePurposes,
         process_message(via, m, p)
  PROVE  PipelineInv'
<1>a. PipelineTypes /\ RevokedGone /\ arrived \in Nat
  BY DEF PipelineInv, PipelineTypes
<1> DEFINE h == [id |-> arrived + 1, via |-> via, dataset |-> normalize(m), purpose |-> p,
                 step |-> "decide", consent |-> {}, at |-> 0, keys |-> m.media, warnings |-> {},
                 known_revoked |-> revoked]
<1>1. PICK g : g = h
  OBVIOUS
<1>2. normalize(m) \in DatasetNames
  <2>1. normalize(m) # Unsupported
    BY DEF process_message
  <2>2. normalize(m) \in {_dataset_from_state(m), _dataset_from_event(m), Unsupported}
    BY DEF normalize
  <2>3. _dataset_from_event(m) \in DatasetNames
    BY DEF _dataset_from_event, DatasetNames
  <2>4. _dataset_from_state(m) \in DatasetNames
    BY DEF _dataset_from_state, DatasetNames
  <2>5. QED
    BY <2>1, <2>2, <2>3, <2>4
<1>3. m.media \subseteq MediaKeys /\ revoked \subseteq Nat
  <2>1. revoked \subseteq 1..versions /\ versions \in Nat
    BY <1>a DEF RevokedGone, PipelineTypes
  <2>2. QED
    BY <2>1, PipelineAssumption DEF PipelineAssumption
<1>4. g \in Handler
  BY <1>a, <1>1, <1>2, <1>3 DEF Handler, Steps
<1> HIDE DEF h
<1>5. g.id = arrived + 1 /\ g.step = "decide" /\ g.known_revoked = revoked
  BY <1>1 DEF h
<1>6. /\ handlers' = handlers \cup {g} /\ arrived' = arrived + 1
      /\ UNCHANGED <<clock, consents, file, versions, revoked, rows, log, replies, lost>>
  BY <1>1 DEF process_message, storeVars, h
<1>7. PipelineTypes' /\ RevokedGone'
  BY <1>a, <1>4, <1>6 DEF PipelineTypes, RevokedGone, Versions
<1>8. ConsentsHeld'
  BY <1>5, <1>6 DEF PipelineInv, ConsentsHeld, Consented, Decided
<1>b. 1..arrived \subseteq 1..arrived' /\ g.id \in 1..arrived' /\ g.id \notin 1..arrived
  BY <1>a, <1>5, <1>6
<1>c. Delivered' = Delivered /\ Logged' = Logged /\ Answered' = Answered \cup {g.id}
  BY <1>6 DEF Delivered, Logged, Answered
<1>9. CallsOK'
  <2>1. g.id \notin Logged \cup lost \cup Delivered /\ \A k \in handlers : k.id # g.id
    BY <1>b DEF PipelineInv, CallsOK, RowsTold, LogTrue
  <2>2. QED
    BY <1>5, <1>6, <1>b, <1>c, <2>1 DEF PipelineInv, CallsOK
<1>10. RowsTold' /\ LogTrue'
  BY <1>6, <1>b, <1>c DEF PipelineInv, RowsTold, LogTrue
<1>11. QED
  BY <1>7, <1>8, <1>9, <1>10 DEF PipelineInv
\* A call that goes on, with its message delivered if it has just been sent.
LEMMA Moved ==
  ASSUME PipelineInv, NEW h \in handlers, NEW g \in Handler,
         handlers' = (handlers \ {h}) \cup {g}, g.id = h.id, g.known_revoked = h.known_revoked,
         g.step \in Decided => Consented(g),
         UNCHANGED <<clock, versions, arrived, consents, file, revoked, log, replies, lost>>,
         rows' = rows \/ (rows' = Append(rows, h) /\ h.step = "send"),
         g.step \in {"decide", "deny", "vlm", "redact", "send"} =>
           rows' = rows /\ h.step \in {"decide", "deny", "vlm", "redact", "send"},
         g.step = "sent" => rows' = Append(rows, h)
  PROVE  PipelineInv'
<1>a. PipelineTypes /\ RevokedGone /\ h \in Handler /\ rows \in Seq(Handler)
  BY DEF PipelineInv, PipelineTypes
<1>b. /\ ConsentsHeld /\ CallsOK /\ RowsTold /\ LogTrue
  BY DEF PipelineInv
<1>1. PipelineTypes'
  BY <1>a DEF PipelineTypes
<1>2. RevokedGone'
  BY <1>a DEF RevokedGone, Versions
<1>3. ASSUME rows' = Append(rows, h), h.step = "send"
      PROVE  /\ DOMAIN rows' = DOMAIN rows \cup {Len(rows) + 1} /\ Len(rows) + 1 \notin DOMAIN rows
             /\ rows'[Len(rows) + 1] = h /\ \A i \in DOMAIN rows : rows'[i] = rows[i]
  BY <1>3, <1>a
<1>4. Logged' = Logged /\ Answered' = Answered /\ Delivered' = IF rows' = rows THEN Delivered ELSE Delivered \cup {h.id}
  <2>1. Logged' = Logged /\ Answered' = Answered
    BY DEF Logged, Answered
  <2>2. CASE rows' = rows
    BY <2>1, <2>2 DEF Delivered
  <2>3. CASE rows' # rows
    BY <1>3, <2>1, <2>3 DEF Delivered
  <2>4. QED
    BY <2>2, <2>3
<1>5. ConsentsHeld'
  <2>1. \A k \in handlers' : k.known_revoked \subseteq revoked' /\ (k.step \in Decided => Consented(k))
    BY <1>b DEF ConsentsHeld
  <2>2. \A i \in DOMAIN rows' : Consented(rows'[i])
    <3>1. CASE rows' = rows
      BY <1>b, <3>1 DEF ConsentsHeld
    <3>2. CASE rows' = Append(rows, h) /\ h.step = "send"
      <4>1. Consented(h)
        BY <1>b, <3>2 DEF ConsentsHeld, Decided
      <4>2. QED
        BY <1>b, <1>3, <3>2, <4>1 DEF ConsentsHeld
    <3>3. QED
      BY <3>1, <3>2
  <2>3. QED
    BY <2>1, <2>2 DEF ConsentsHeld, Consented
<1>c. h.id \in 1..arrived /\ h.id \notin Logged /\ h.id \notin lost /\ (\A k \in handlers \ {h} : k.id # h.id)
  BY <1>b DEF CallsOK
<1>d. h.step \in {"decide", "deny", "vlm", "redact", "send"} => h.id \notin Delivered
  BY <1>b DEF CallsOK
<1>6. CallsOK'
  <2>1. \A k \in handlers' \ {g} : k \in handlers /\ k.id # h.id
    BY <1>c
  <2>2. \A j, k \in handlers' : j.id = k.id => j = k
    BY <1>b, <2>1 DEF CallsOK
  <2>3. \A k \in handlers' \ {g} :
          /\ k.id \in 1..arrived /\ k.id \notin Logged \cup lost
          /\ k.step \in {"decide", "deny", "vlm", "redact", "send"} => k.id \notin Delivered \cup {h.id}
          /\ k.step = "sent" => k.id \in Delivered
    BY <1>b, <2>1 DEF CallsOK
  <2>4. rows' # rows => Delivered' = Delivered \cup {h.id}
    BY <1>4
  <2>5. g.step = "sent" => h.id \in Delivered'
    <3>1. CASE rows' = Append(rows, h)
      <4>1. rows' # rows
        BY <1>a, <3>1
      <4>2. QED
        BY <2>4, <4>1
    <3>2. QED
      BY <3>1
  <2>6. Delivered \subseteq Delivered' /\ Delivered' \subseteq Delivered \cup {h.id}
    BY <1>4
  <2>7. g.step \in {"decide", "deny", "vlm", "redact", "send"} => h.id \notin Delivered'
    BY <1>4, <1>d
  <2>8. QED
    BY <1>4, <1>c, <2>2, <2>3, <2>5, <2>6, <2>7 DEF CallsOK
<1>7. RowsTold'
  <2>1. \A i, j \in DOMAIN rows' : rows'[i].id = rows'[j].id => i = j
    <3>1. CASE rows' = rows
      BY <1>b, <3>1 DEF RowsTold
    <3>2. CASE rows' = Append(rows, h) /\ h.step = "send"
      <4>1. \A i \in DOMAIN rows : rows[i].id # h.id
        BY <1>d, <3>2 DEF Delivered
      <4>2. QED
        BY <1>b, <1>3, <3>2, <4>1 DEF RowsTold
    <3>3. QED
      BY <3>1, <3>2
  <2>2. h.id \in Answered
    BY DEF Answered
  <2>3. QED
    BY <1>b, <1>c, <1>4, <2>1, <2>2 DEF RowsTold
<1>8. LogTrue'
  <2>1. \A r \in log : r.id # h.id
    BY <1>c DEF Logged
  <2>2. QED
    BY <1>b, <1>4, <2>1 DEF LogTrue
<1>9. QED
  BY <1>1, <1>2, <1>5, <1>6, <1>7, <1>8 DEF PipelineInv

\* A call that ends, with a record of what became of its message or with the call lost.
LEMMA Ended ==
  ASSUME PipelineInv, NEW h \in handlers, handlers' = handlers \ {h},
         UNCHANGED <<clock, versions, arrived, consents, file, revoked, rows>>,
         \/ lost' = lost \cup {h.id} /\ UNCHANGED <<log, replies>>
         \/ /\ lost' = lost
            /\ \E a \in {"allow", "deny", "send_error"} :
                 /\ log' = log \cup {[id |-> h.id, action |-> a]}
                 /\ a = "allow" => h.step = "sent"
                 /\ a = "deny" => h.step = "deny"
                 /\ \E s \in {"allowed", "denied", "send_error"} :
                      replies' = replies \cup {[id |-> h.id, status |-> s]} /\ (s = "allowed" => a = "allow")
  PROVE  PipelineInv'
<1>a. PipelineTypes /\ RevokedGone /\ h \in Handler /\ h.id \in Nat
  BY DEF PipelineInv, PipelineTypes, Handler
<1>b. /\ ConsentsHeld /\ CallsOK /\ RowsTold /\ LogTrue
  BY DEF PipelineInv
<1>c. h.id \in 1..arrived /\ h.id \notin Logged /\ h.id \notin lost /\ (\A k \in handlers \ {h} : k.id # h.id)
  BY <1>b DEF CallsOK
<1>1. RevokedGone'
  BY <1>a DEF RevokedGone, Versions
<1>2. ConsentsHeld'
  BY <1>b DEF ConsentsHeld, Consented
<1>3. Delivered' = Delivered /\ Answered \subseteq Answered' \cup {h.id} /\ Answered' \subseteq Answered
  BY DEF Delivered, Answered
<1>4. CASE lost' = lost \cup {h.id} /\ UNCHANGED <<log, replies>>
  <2>1. PipelineTypes' /\ Logged' = Logged
    BY <1>a, <1>4 DEF PipelineTypes, Logged
  <2>2. CallsOK' /\ RowsTold' /\ LogTrue'
    BY <1>b, <1>c, <1>3, <1>4, <2>1 DEF CallsOK, RowsTold, LogTrue
  <2>3. QED
    BY <1>1, <1>2, <2>1, <2>2 DEF PipelineInv
<1>5. ASSUME NEW a \in {"allow", "deny", "send_error"}, lost' = lost, log' = log \cup {[id |-> h.id, action |-> a]},
             a = "allow" => h.step = "sent", a = "deny" => h.step = "deny",
             NEW s \in {"allowed", "denied", "send_error"}, replies' = replies \cup {[id |-> h.id, status |-> s]},
             s = "allowed" => a = "allow"
      PROVE  PipelineInv'
  <2>1. PipelineTypes'
    <3>1. log' \subseteq [id: Nat, action: {"allow", "deny", "send_error"}]
      BY <1>a, <1>5 DEF PipelineTypes
    <3>2. handlers' \subseteq Handler
      BY <1>a DEF PipelineTypes
    <3>3. QED
      BY <1>a, <3>1, <3>2 DEF PipelineTypes
  <2>2. Logged' = Logged \cup {h.id}
    <3>1. PICK rec : rec = [id |-> h.id, action |-> a]
      OBVIOUS
    <3>2. rec.id = h.id /\ log' = log \cup {rec}
      BY <1>5, <3>1
    <3>3. QED
      BY <3>2 DEF Logged
  <2>3. CallsOK'
    BY <1>b, <1>c, <1>3, <1>5, <2>2 DEF CallsOK
  <2>4. RowsTold'
    BY <1>b, <1>3, <1>5, <2>2 DEF RowsTold
  <2>5. (a = "allow" => h.id \in Delivered) /\ (a = "deny" => h.id \notin Delivered)
    BY <1>b, <1>5 DEF CallsOK
  <2>6. LogTrue'
    <3>1. \A r \in log' : (r.action = "allow" => r.id \in Delivered) /\ (r.action = "deny" => r.id \notin Delivered)
      BY <1>b, <1>5, <2>5 DEF LogTrue
    <3>2. \A r \in replies' : r.status = "allowed" => [id |-> r.id, action |-> "allow"] \in log'
      BY <1>b, <1>5 DEF LogTrue
    <3>3. Logged' \subseteq 1..arrived' /\ lost' \subseteq 1..arrived'
      BY <1>b, <1>c, <1>5, <2>2 DEF LogTrue
    <3>4. QED
      BY <1>3, <3>1, <3>2, <3>3 DEF LogTrue
  <2>7. QED
    BY <1>1, <1>2, <2>1, <2>3, <2>4, <2>6 DEF PipelineInv
<1>6. QED
  BY <1>4, <1>5
\* A decision to allow takes the first consent that fits, of those that are not revoked.
LEMMA Evaluated ==
  ASSUME PipelineInv, NEW d, NEW p, NEW vc \in evaluate(d, p, find_by_dataset(d))
  PROVE  /\ vc \in ConsentVC /\ vc.grants.dataset = d /\ vc.grants.signed /\ p \in vc.grants.purposes
         /\ vc.grants.valid_from <= clock /\ clock <= vc.grants.valid_to /\ vc.version \notin revoked
<1>1. PICK i \in DOMAIN consents :
        /\ vc = consents[i] /\ vc.grants.dataset = d /\ vc.grants.signed /\ p \in vc.grants.purposes
        /\ vc.grants.valid_from <= clock /\ clock <= vc.grants.valid_to
  BY DEF evaluate, find_by_dataset, verify_signature
<1>2. consents[i] \in ConsentVC
  BY PipelineShapes DEF PipelineInv
<1>3. consents[i].version \in Versions(consents)
  BY DEF Versions
<1>4. QED
  BY <1>1, <1>2, <1>3 DEF PipelineInv, RevokedGone

\* Every step of a call keeps the invariant.
LEMMA CallStep ==
  ASSUME PipelineInv, NEW h \in handlers, Processing(h)
  PROVE  PipelineInv'
<1>a. PipelineTypes /\ clock \in Nat /\ h \in Handler
  BY DEF PipelineInv, PipelineTypes
<1>b. DOMAIN h = {"id", "via", "dataset", "purpose", "step", "consent", "at", "keys", "warnings", "known_revoked"}
  BY <1>a DEF Handler
<1>c. h.known_revoked \subseteq revoked /\ (h.step \in Decided => Consented(h))
  BY DEF PipelineInv, ConsentsHeld
<1>1. ASSUME decide(h)
      PROVE  PipelineInv'
  <2> DEFINE d == evaluate(h.dataset, h.purpose, find_by_dataset(h.dataset))
  <2>1. PICK g : g = [h EXCEPT !.step = IF d = {} THEN "deny" ELSE "vlm", !.consent = d, !.at = clock]
    OBVIOUS
  <2>2. /\ g.id = h.id /\ g.step = (IF d = {} THEN "deny" ELSE "vlm") /\ g.consent = d /\ g.at = clock
        /\ g.dataset = h.dataset /\ g.purpose = h.purpose /\ g.known_revoked = h.known_revoked
    BY <1>b, <2>1
  <2>3. \A vc \in d : /\ vc \in ConsentVC /\ vc.grants.dataset = h.dataset /\ vc.grants.signed
                      /\ h.purpose \in vc.grants.purposes
                      /\ vc.grants.valid_from <= clock /\ clock <= vc.grants.valid_to /\ vc.version \notin revoked
    BY Evaluated
  <2>4. /\ handlers' = (handlers \ {h}) \cup {g} /\ h.step = "decide"
        /\ UNCHANGED <<clock, versions, arrived, consents, file, revoked, log, replies, lost, rows>>
    BY <1>1, <2>1 DEF decide, Goes, storeVars
  <2> HIDE DEF d
  <2>5. g \in Handler
    <3>1. d \subseteq ConsentVC
      BY <2>3
    <3>2. QED
      BY <1>a, <2>1, <3>1 DEF Handler, Steps
  <2>6. g.step \in Decided => Consented(g)
    <3>1. ASSUME d # {}
          PROVE  Consented(g)
      <4>1. PICK vc : vc \in d
        BY <3>1
      <4>2. vc \in g.consent /\ vc.version \notin g.known_revoked
        BY <1>c, <2>2, <2>3, <4>1
      <4>3. QED
        BY <2>2, <2>3, <4>1, <4>2 DEF Consented
    <3>2. QED
      BY <2>2, <3>1 DEF Decided
  <2>7. QED
    BY <2>2, <2>4, <2>5, <2>6, Moved
<1>2. ASSUME NEW g \in Handler, handlers' = (handlers \ {h}) \cup {g},
             g.id = h.id, g.known_revoked = h.known_revoked, g.consent = h.consent, g.at = h.at,
             g.dataset = h.dataset, g.purpose = h.purpose, h.step \in Decided,
             UNCHANGED <<clock, versions, arrived, consents, file, revoked, log, replies, lost>>,
             rows' = rows \/ (rows' = Append(rows, h) /\ h.step = "send"),
             g.step \in {"decide", "deny", "vlm", "redact", "send"} =>
               rows' = rows /\ h.step \in {"decide", "deny", "vlm", "redact", "send"},
             g.step = "sent" => rows' = Append(rows, h)
      PROVE  PipelineInv'
  <2>1. Consented(g)
    BY <1>2, <1>c DEF Consented
  <2>2. QED
    BY <1>2, <2>1, Moved
<1>3. ASSUME NEW step \in {"vlm", "redact"}, NEW next \in {"redact", "send"}, NEW injector,
             NEW derived \in SUBSET {"description_full", "description_summary", "image_url_redacted"},
             NEW warning \in {"vlm_unavailable", "redaction_unavailable"}, Injects(h, step, next, injector, derived, warning)
      PROVE  PipelineInv'
  <2>a. CASE Dies(h)
    <3>1. UNCHANGED <<clock, versions, arrived, consents, file, revoked, rows>>
      BY <1>3 DEF Injects, storeVars
    <3>2. h.step \in {"vlm", "redact"}
      BY <1>3 DEF Injects
    <3>3. QED
      BY <2>a, <3>1, <3>2, Ended DEF Dies
  <2>b. SUFFICES ASSUME ~ Dies(h) PROVE PipelineInv'
    BY <2>a
  <2>1. PICK g : /\ handlers' = (handlers \ {h}) \cup {g}
                 /\ \/ g = [h EXCEPT !.step = next, !.keys = @ \cup derived]
                    \/ g = [h EXCEPT !.step = next, !.warnings = @ \cup {warning}]
                    \/ g = [h EXCEPT !.step = next]
    BY <1>3, <2>b DEF Injects, Goes
  <2>2. g \in Handler
    <3>1. /\ h.keys \cup derived \in SUBSET (MediaKeys \cup {"description_full", "description_summary", "image_url_redacted"})
          /\ h.warnings \cup {warning} \in SUBSET {"vlm_unavailable", "redaction_unavailable"}
      BY <1>a DEF Handler
    <3>2. next \in Steps
      BY DEF Steps
    <3>3. CASE g = [h EXCEPT !.step = next, !.keys = h.keys \cup derived]
      BY <1>a, <3>1, <3>2, <3>3 DEF Handler
    <3>4. CASE g = [h EXCEPT !.step = next, !.warnings = h.warnings \cup {warning}]
      BY <1>a, <3>1, <3>2, <3>4 DEF Handler
    <3>5. CASE g = [h EXCEPT !.step = next]
      BY <1>a, <3>2, <3>5 DEF Handler
    <3>6. QED
      BY <2>1, <3>3, <3>4, <3>5
  <2>3. /\ g.id = h.id /\ g.known_revoked = h.known_revoked /\ g.consent = h.consent /\ g.at = h.at
        /\ g.dataset = h.dataset /\ g.purpose = h.purpose /\ g.step = next
    BY <1>b, <2>1
  <2>4. h.step = step /\ UNCHANGED <<clock, versions, arrived, consents, file, revoked, log, replies, lost, rows>>
    BY <1>3, <2>b DEF Injects, storeVars
  <2>5. QED
    BY <1>2, <2>1, <2>2, <2>3, <2>4 DEF Decided
<1>4. ASSUME send(h)
      PROVE  PipelineInv'
  <2>1. PICK g : /\ handlers' = (handlers \ {h}) \cup {g}
                 /\ \/ g = [h EXCEPT !.step = "sent"] /\ rows' = Append(rows, h)
                    \/ g = [h EXCEPT !.step = "send_error"] /\ rows' \in {rows, Append(rows, h)}
    BY <1>4 DEF send, Goes
  <2>2. g \in Handler
    BY <1>a, <2>1 DEF Handler, Steps
  <2>3. /\ g.id = h.id /\ g.known_revoked = h.known_revoked /\ g.consent = h.consent /\ g.at = h.at
        /\ g.dataset = h.dataset /\ g.purpose = h.purpose
        /\ \/ g.step = "sent" /\ rows' = Append(rows, h)
           \/ g.step = "send_error" /\ rows' \in {rows, Append(rows, h)}
    BY <1>b, <2>1
  <2>4. h.step = "send" /\ UNCHANGED <<clock, versions, arrived, consents, file, revoked, log, replies, lost>>
    BY <1>4 DEF send, storeVars
  <2>5. QED
    BY <1>2, <2>1, <2>2, <2>3, <2>4 DEF Decided
<1>5. ASSUME audit_sent(h)
      PROVE  PipelineInv'
  <2>1. h.step = "sent" /\ UNCHANGED <<clock, versions, arrived, consents, file, revoked, rows, lost>>
    BY <1>5 DEF audit_sent, storeVars
  <2>2. CASE Logs(h, "allow") /\ Ends(h, "allowed")
    BY <2>1, <2>2, Ended DEF Logs, Ends
  <2>3. CASE Goes(h, [h EXCEPT !.step = "send_error"]) /\ UNCHANGED <<log, replies>>
    <3>1. PICK g : g = [h EXCEPT !.step = "send_error"]
      OBVIOUS
    <3>2. g \in Handler
      BY <1>a, <3>1 DEF Handler, Steps
    <3>3. /\ g.id = h.id /\ g.known_revoked = h.known_revoked /\ g.consent = h.consent /\ g.at = h.at
          /\ g.dataset = h.dataset /\ g.purpose = h.purpose /\ g.step = "send_error"
      BY <1>b, <3>1
    <3>4. handlers' = (handlers \ {h}) \cup {g}
      BY <2>3, <3>1 DEF Goes
    <3>5. QED
      BY <1>2, <2>1, <2>3, <3>2, <3>3, <3>4 DEF Decided
  <2>4. QED
    BY <1>5, <2>2, <2>3 DEF audit_sent
<1>6. ASSUME deny(h)
      PROVE  PipelineInv'
  <2>1. h.step = "deny" /\ UNCHANGED <<clock, versions, arrived, consents, file, revoked, rows>>
    BY <1>6 DEF deny, storeVars
  <2>2. CASE Logs(h, "deny") /\ Ends(h, "denied") /\ UNCHANGED lost
    BY <2>1, <2>2, Ended DEF Logs, Ends
  <2>3. CASE Dies(h)
    BY <2>1, <2>3, Ended DEF Dies
  <2>4. QED
    BY <1>6, <2>2, <2>3 DEF deny
<1>7. ASSUME audit_send_error(h)
      PROVE  PipelineInv'
  <2>1. h.step = "send_error" /\ UNCHANGED <<clock, versions, arrived, consents, file, revoked, rows>>
    BY <1>7 DEF audit_send_error, storeVars
  <2>2. CASE Logs(h, "send_error") /\ Ends(h, "send_error") /\ UNCHANGED lost
    BY <2>1, <2>2, Ended DEF Logs, Ends
  <2>3. CASE Dies(h)
    BY <2>1, <2>3, Ended DEF Dies
  <2>4. QED
    BY <1>7, <2>2, <2>3 DEF audit_send_error
<1>8. CASE describe(h)
  BY <1>3, <1>8 DEF describe
<1>9. CASE blur_pii(h)
  BY <1>3, <1>9 DEF blur_pii
<1>10. QED
  BY <1>1, <1>4, <1>5, <1>6, <1>7, <1>8, <1>9 DEF Processing

\* Every step keeps the invariant.
LEMMA PipelineInvariance == PipelineSpec => []PipelineInv
<1>1. ASSUME PipelineInv, [PipelineNext]_pipelineVars
      PROVE  PipelineInv'
  <2>1. CASE \E id \in VcIds : delete(id) \/ \E f \in ConsentForms : upsert(id, f)
    BY <1>1, <2>1, StoreStep
  <2>2. CASE \E m \in Messages : _on_message(m) \/ \E p \in MessagePurposes : simulate_publish(m, p) \/ provider_publish(m, p)
    BY <1>1, <2>2, ArrivalStep DEF _on_message, simulate_publish, provider_publish
  <2>3. CASE \E h \in handlers : Processing(h)
    BY <1>1, <2>3, CallStep
  <2>4. CASE crash \/ _load_if_exists \/ PipelineTick \/ UNCHANGED pipelineVars
    BY <1>1, <2>4, ProcessStep
  <2>5. QED
    BY <1>1, <2>1, <2>2, <2>3, <2>4 DEF PipelineNext
<1>2. QED
  BY PipelineInitInv, <1>1, PTL DEF PipelineSpec

\* A consent whose removal was confirmed before a message arrived lets no row of it through, whatever
\* crashed, restarted or failed to be saved in between.
THEOREM RevocationsHold == PipelineSpec => []RevokedStaysRevoked
<1>1. PipelineInv => RevokedStaysRevoked
  BY DEF PipelineInv, ConsentsHeld, Consented, RevokedStaysRevoked
<1>2. QED
  BY PipelineInvariance, <1>1, PTL

\* A message is delivered once at most, and the log tells of every delivery and of nothing else.
THEOREM DeliveriesLogged == PipelineSpec => []DeliveriesAudited
<1>1. PipelineInv => DeliveriesAudited
  <2> SUFFICES ASSUME PipelineInv
               PROVE  DeliveriesAudited
    OBVIOUS
  <2>1. \A i \in DOMAIN rows : [id |-> rows[i].id, action |-> "deny"] \notin log
    BY DEF PipelineInv, LogTrue, Delivered
  <2>2. \A i \in DOMAIN rows : \/ \E h \in handlers : h.id = rows[i].id
                               \/ \E r \in log : r.id = rows[i].id
                               \/ rows[i].id \in lost
    BY DEF PipelineInv, RowsTold, Delivered, Answered, Logged
  <2>3. \A r \in log : r.action = "allow" => \E i \in DOMAIN rows : rows[i].id = r.id
    BY DEF PipelineInv, LogTrue, Delivered
  <2>4. QED
    BY <2>1, <2>2, <2>3 DEF DeliveriesAudited, PipelineInv, RowsTold, LogTrue
<1>2. QED
  BY PipelineInvariance, <1>1, PTL
===============================================================================
