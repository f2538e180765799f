-------------------------------- MODULE Pipeline --------------------------------
(***************************************************************************)
(* From a sensor's message to a row: MQTT callbacks, /simulate/publish and *)
(* /provider/publish run process_message, which normalises, asks the       *)
(* consents for a decision, derives descriptions and a redacted image,     *)
(* sends and audits.  Consents live in memory and in a file, rewritten in  *)
(* place; they may be added, replaced and revoked at any moment, and the   *)
(* process may crash.                                                      *)
(*                                                                         *)
(* A consent is known by its vc_id and by a version: each upsert is a new  *)
(* version.  Messages are numbered as they arrive.                         *)
(***************************************************************************)
EXTENDS Naturals, Sequences, SequencesExt, FiniteSets

CONSTANTS
  Messages,          \* [topic, tail, name, media]: what devices and pages send
  MessagePurposes,
  VcIds,
  ConsentForms,      \* [dataset, purposes, signed, valid_from, valid_to]: what is granted
  Licensed,          \* datasets that the seller token of the provider page licenses
  Injectors,         \* of {"vlm", "redactor"}, those configured
  MaxMessages, MaxVersions, MaxClock, MaxCrashes, MaxFaults      \* bounds

MediaKeys == {"image_cid", "image_url", "video_cid", "video_url", "video_duration_sec"}

ASSUME PipelineAssumption ==
  /\ \A m \in Messages : m.media \subseteq MediaKeys
  /\ \A f \in ConsentForms : f.valid_from \in Nat /\ f.valid_to \in Nat
  /\ Injectors \subseteq {"vlm", "redactor"}

VARIABLES
  up,          \* whether the publisher runs
  clock,
  consents,    \* ConsentStore._by_id, in the order of its dict
  file,        \* what the consent file holds
  versions,    \* how many upserts there have been
  revoked,     \* history: versions whose removal or replacement was answered with 200
  handlers,    \* calls of process_message that run
  arrived,     \* how many messages there have been
  rows,        \* history: envelopes the platform has accepted
  log,         \* rows of audit_log
  replies,     \* history: outcomes returned
  lost,        \* history: messages whose handler a crash or an uncaught error ended
  crashes, faults

pipelineVars == <<up, clock, consents, file, versions, revoked, handlers, arrived, rows, log,
                  replies, lost, crashes, faults>>
storeVars == <<consents, file, versions, revoked>>

Parsable(list) == [parses |-> TRUE, list |-> list]
Unparsable == [parses |-> FALSE, list |-> <<>>]     \* a file whose writing was cut short
Fault == faults < MaxFaults /\ faults' = faults + 1
-----------------------------------------------------------------------------
(***************************************************************************)
(* The consent store.                                                      *)
(***************************************************************************)

\* _save, and what may become of the file when it raises: write_text has truncated it, or
\* could not open it.
Saved(new) == file' = Parsable(new) /\ UNCHANGED faults
SaveRaises == Fault /\ file' \in {file, Unparsable}

Position(id) == {i \in DOMAIN consents : consents[i].vc_id = id}
Versions(s) == {s[i].version : i \in DOMAIN s}

\* POST /consents: in memory first; a failed save is answered with 500 and stays in memory.
upsert(id, form) ==
  LET vc  == [vc_id |-> id, version |-> versions + 1, grants |-> form]
      new == IF Position(id) = {} THEN Append(consents, vc)
             ELSE [i \in DOMAIN consents |-> IF i \in Position(id) THEN vc ELSE consents[i]]
  IN  /\ up /\ versions < MaxVersions
      /\ versions' = versions + 1
      /\ consents' = new
      /\ \/ Saved(new) /\ revoked' = revoked \cup (Versions(consents) \ Versions(new))
         \/ SaveRaises /\ UNCHANGED revoked
      /\ UNCHANGED <<up, clock, handlers, arrived, rows, log, replies, lost, crashes>>

\* Mutant of delete: the file is not rewritten.
delete_in_memory(id) ==
  \E i \in Position(id) :
    LET new == RemoveAt(consents, i)
    IN  /\ up
        /\ consents' = new
        /\ revoked' = revoked \cup (Versions(consents) \ Versions(new))
        /\ UNCHANGED <<up, clock, file, versions, handlers, arrived, rows, log, replies, lost, crashes, faults>>

\* DELETE /consents/{vc_id}; 404, and nothing saved, for an id that memory does not hold.
delete(id) ==
  \E i \in Position(id) :
    LET new == RemoveAt(consents, i)
    IN  /\ up
        /\ consents' = new
        /\ \/ Saved(new) /\ revoked' = revoked \cup (Versions(consents) \ Versions(new))
           \/ SaveRaises /\ UNCHANGED revoked
        /\ UNCHANGED <<up, clock, versions, handlers, arrived, rows, log, replies, lost, crashes>>

\* The matching consents, by their places in the order of the dict.
find_by_dataset(d) == {i \in DOMAIN consents : consents[i].grants.dataset = d}

verify_signature(vc) == vc.grants.signed

\* PolicyEngine.evaluate: the first consent that matches, in a set, or none.
evaluate(d, purpose, matched) ==
  LET fits(vc) == /\ vc.grants.dataset = d /\ verify_signature(vc)
                  /\ purpose \in vc.grants.purposes
                  /\ vc.grants.valid_from <= clock /\ clock <= vc.grants.valid_to
      good == {i \in matched : fits(consents[i])}
  IN  {consents[i] : i \in {g \in good : \A j \in good : g <= j}}

-----------------------------------------------------------------------------
(***************************************************************************)
(* Messages.                                                               *)
(***************************************************************************)
Unsupported == "unsupported"

_dataset_from_state(m) ==
  CASE m.tail = "temperature" -> "home/env/temperature"
    [] m.tail = "power" -> "home/energy/power"
    [] m.tail \notin {"temperature", "power"} /\ m.name = "temperature" -> "home/env/temperature"
    [] m.tail \notin {"temperature", "power"} /\ m.name = "power" -> "home/energy/power"
    [] OTHER -> "home/state/other"

\* Every event has a dataset of its own, named after it.
_dataset_from_event(m) == IF m.name = "person_detected" THEN "home/event/person_detected" ELSE "home/event/other"

\* The dataset; a topic of neither kind raises.
normalize(m) == CASE m.topic = "state" -> _dataset_from_state(m)
                  [] m.topic = "event" -> _dataset_from_event(m)
                  [] OTHER -> Unsupported

\* A call of process_message up to the normalised message.  "via" says who called: the MQTT
\* client's one thread processes one message at a time, requests run side by side.
process_message(via, m, purpose) ==
  /\ up /\ arrived < MaxMessages
  /\ normalize(m) # Unsupported
  /\ arrived' = arrived + 1
  /\ handlers' = handlers \cup
       {[id |-> arrived + 1, via |-> via, dataset |-> normalize(m), purpose |-> purpose,
         step |-> "decide", consent |-> {}, at |-> 0, keys |-> m.media, warnings |-> {},
         known_revoked |-> revoked]}
  /\ UNCHANGED <<up, clock, storeVars, rows, log, replies, lost, crashes, faults>>

_on_message(m) == /\ \A h \in handlers : h.via # "mqtt"
                  /\ \E p \in MessagePurposes : process_message("mqtt", m, p)
simulate_publish(m, p) == process_message("request", m, p)
\* The bearer's licence is checked first (use_seller_token of AccessTokens).
provider_publish(m, p) == normalize(m) \in Licensed /\ process_message("request", m, p)

Goes(h, new) == handlers' = (handlers \ {h}) \cup {new}
Ends(h, outcome) == /\ handlers' = handlers \ {h}
                    /\ replies' = replies \cup {[id |-> h.id, status |-> outcome]}
Logs(h, action) == log' = log \cup {[id |-> h.id, action |-> action]} /\ UNCHANGED faults

\* The decision.
decide(h) ==
  LET d == evaluate(h.dataset, h.purpose, find_by_dataset(h.dataset))
  IN  /\ h.step = "decide"
      /\ Goes(h, [h EXCEPT !.step = IF d = {} THEN "deny" ELSE "vlm", !.consent = d, !.at = clock])
      /\ UNCHANGED <<up, clock, storeVars, arrived, rows, log, replies, lost, crashes, faults>>

\* An error that nothing catches ends the call: no record, no answer.
Dies(h) == Fault /\ handlers' = handlers \ {h} /\ lost' = lost \cup {h.id} /\ UNCHANGED <<log, replies>>

deny(h) ==
  /\ h.step = "deny"
  /\ \/ Logs(h, "deny") /\ Ends(h, "denied") /\ UNCHANGED lost
     \/ Dies(h)
  /\ UNCHANGED <<up, clock, storeVars, arrived, rows, crashes>>

\* Descriptions by the VLM and the redacted image.  A VLMError or RedactionError leaves a
\* warning; any other (a body of the VLM that is no object, an OpenCV error, a bad URL) ends
\* the call.
Injects(h, step, next, injector, derived, warning) ==
  /\ h.step = step
  /\ IF injector \in Injectors /\ "image_url" \in h.keys
       THEN \/ Goes(h, [h EXCEPT !.step = next, !.keys = @ \cup derived]) /\ UNCHANGED <<lost, faults>>
            \/ Fault /\ Goes(h, [h EXCEPT !.step = next, !.warnings = @ \cup {warning}]) /\ UNCHANGED lost
            \/ Dies(h)
       ELSE Goes(h, [h EXCEPT !.step = next]) /\ UNCHANGED <<lost, faults>>
  /\ UNCHANGED <<up, clock, storeVars, arrived, rows, log, replies, crashes>>

describe(h) == Injects(h, "vlm", "redact", "vlm", {"description_full", "description_summary"}, "vlm_unavailable")
blur_pii(h) == Injects(h, "redact", "send", "redactor", {"image_url_redacted"}, "redaction_unavailable")

\* Mutant of send: an error that may have come after the delivery is retried.
send_again(h) ==
  /\ h.step = "send"
  /\ rows' = Append(rows, h)
  /\ \/ Goes(h, [h EXCEPT !.step = "sent"]) /\ UNCHANGED faults
     \/ Fault /\ UNCHANGED handlers
  /\ UNCHANGED <<up, clock, storeVars, arrived, log, replies, lost, crashes>>

\* PlatformClient.send: accepted; or an error, of a platform that has it or has it not.
send(h) ==
  /\ h.step = "send"
  /\ \/ rows' = Append(rows, h) /\ Goes(h, [h EXCEPT !.step = "sent"]) /\ UNCHANGED faults
     \/ Fault /\ rows' \in {rows, Append(rows, h)} /\ Goes(h, [h EXCEPT !.step = "send_error"])
  /\ UNCHANGED <<up, clock, storeVars, arrived, log, replies, lost, crashes>>

\* The record of the delivery; raising here leads to the handler of send's errors.
audit_sent(h) ==
  /\ h.step = "sent"
  /\ \/ Logs(h, "allow") /\ Ends(h, "allowed")
     \/ Fault /\ Goes(h, [h EXCEPT !.step = "send_error"]) /\ UNCHANGED <<log, replies>>
  /\ UNCHANGED <<up, clock, storeVars, arrived, rows, lost, crashes>>

audit_send_error(h) ==
  /\ h.step = "send_error"
  /\ \/ Logs(h, "send_error") /\ Ends(h, "send_error") /\ UNCHANGED lost
     \/ Dies(h)
  /\ UNCHANGED <<up, clock, storeVars, arrived, rows, crashes>>

-----------------------------------------------------------------------------
\* The process dies, between two steps or while it writes the consent file; nobody gets an
\* answer, and subscriptions without a session lose what arrives meanwhile.
crash ==
  /\ up /\ crashes < MaxCrashes
  /\ up' = FALSE /\ crashes' = crashes + 1
  /\ consents' = <<>>
  /\ handlers' = {} /\ lost' = lost \cup {h.id : h \in handlers}
  /\ file' \in {file, Unparsable}
  /\ UNCHANGED <<clock, versions, revoked, arrived, rows, log, replies, faults>>

\* A start reads the file; one that does not parse stops it, until somebody replaces the
\* file by an empty list.
_load_if_exists ==
  /\ ~up
  /\ \/ file.parses /\ up' = TRUE /\ consents' = file.list /\ UNCHANGED file
     \/ ~file.parses /\ file' = Parsable(<<>>) /\ UNCHANGED <<up, consents>>
  /\ UNCHANGED <<clock, versions, revoked, handlers, arrived, rows, log, replies, lost, crashes, faults>>

PipelineTick == clock < MaxClock /\ clock' = clock + 1
                /\ UNCHANGED <<up, storeVars, handlers, arrived, rows, log, replies, lost, crashes, faults>>

PipelineInit ==
  /\ up = TRUE /\ clock = 0
  /\ consents = <<>> /\ file = Parsable(<<>>) /\ versions = 0 /\ revoked = {}
  /\ handlers = {} /\ arrived = 0 /\ rows = <<>> /\ log = {} /\ replies = {} /\ lost = {}
  /\ crashes = 0 /\ faults = 0

Processing(h) == \/ decide(h) \/ deny(h) \/ describe(h) \/ blur_pii(h)
                 \/ send(h) \/ audit_sent(h) \/ audit_send_error(h)

PipelineNext ==
  \/ \E id \in VcIds : delete(id) \/ \E f \in ConsentForms : upsert(id, f)
  \/ \E m \in Messages : _on_message(m) \/ \E p \in MessagePurposes : simulate_publish(m, p) \/ provider_publish(m, p)
  \/ \E h \in handlers : Processing(h)
  \/ crash \/ _load_if_exists \/ PipelineTick

-----------------------------------------------------------------------------
PipelineSpec == PipelineInit /\ [][PipelineNext]_pipelineVars

\* What the platform has was allowed, when it was decided, by a signed consent in force for its
\* dataset and purpose, and never by one whose removal or replacement had been confirmed
\* before the message arrived, whatever crashed, was rewritten or failed to be written in
\* between (find_by_dataset, evaluate, delete, upsert, _save and _load_if_exists together).
RevokedStaysRevoked ==
  \A i \in DOMAIN rows : \E vc \in rows[i].consent :
    /\ vc.grants.dataset = rows[i].dataset /\ vc.grants.signed
    /\ rows[i].purpose \in vc.grants.purposes
    /\ vc.grants.valid_from <= rows[i].at /\ rows[i].at <= vc.grants.valid_to
    /\ vc.version \notin rows[i].known_revoked

\* Nothing is delivered behind the audit log's back: a message is delivered once at most; the
\* log says "allow" only of what was delivered and "deny" only of what was not; and of
\* everything delivered it tells as soon as the call has ended, if only as a send_error, unless
\* a crash or the audit database itself ended the call (process_message).
DeliveriesAudited ==
  /\ \A i, j \in DOMAIN rows : rows[i].id = rows[j].id => i = j
  /\ \A r \in log : (r.action = "allow") => \E i \in DOMAIN rows : rows[i].id = r.id
  /\ \A i \in DOMAIN rows :
       /\ [id |-> rows[i].id, action |-> "deny"] \notin log
       /\ \/ \E h \in handlers : h.id = rows[i].id
          \/ \E r \in log : r.id = rows[i].id
          \/ rows[i].id \in lost
  /\ \A r \in replies : r.status = "allowed" => [id |-> r.id, action |-> "allow"] \in log
=================================================================================
