------------------------------ MODULE MCPublisher ------------------------------
(***************************************************************************)
(* The publisher's parts, each with its instance, in one run.  They share  *)
(* no variable, so that the run explores one part at a time: Init chooses  *)
(* it, the others stay as they start.  What one part takes from another is *)
(* among its constants (Licensed of the pipeline, ViewerViews of the page).*)
(***************************************************************************)
EXTENDS AccessTokens, DataUsers, Pipeline, Pages, WorkerPool, HuskylensBridge, WebcamBridge
CONSTANTS d1, d2

VARIABLE part
vars == <<part, accessVars, dataUser, pipelineVars, pagesVars, poolVars, huskyVars, webcamVars>>

\* Access.
ShippedDefinitions == {<<"ConsentVC", d1>>, <<"ViewerVC", d1>>, <<"ServiceVC", d1>>,
                       <<"PurchaseViewerVC", d1>>, <<"SellerVC", AnyDataset>>}
Purp == d1 :> {"research"}
TokenBounds == [k \in Kinds |-> IF k \in {"ConsentVC", "ServiceVC"} THEN 2 ELSE 1]
User(e, p, l, h, m) == [entityType |-> e, purpose |-> p, legalCompliance |-> l,
                        dataHandlingPolicy |-> h, misuseRecord |-> m]
TwoUsers == {{User("ENTERPRISE", "CRIME SEARCH", TRUE, "OTHER", FALSE)},
             {User("OTHER", "OTHER", FALSE, "OTHER", TRUE)}}

\* Pipeline.
Message(topic, tail, name, keys) == [topic |-> topic, tail |-> tail, name |-> name, media |-> keys]
TwoMessages == {Message("state", "temperature", "x", {}), Message("event", "x", "person_detected", {"image_url"})}
OneForm == {[dataset |-> "home/event/person_detected", purposes |-> {"research"}, signed |-> TRUE,
             valid_from |-> 0, valid_to |-> 0]}

\* Pages.  High contrast alone; a face and contrast, which is too risky to show; a face and contrast
\* too narrow to count; and a video.  Redaction takes the face off the second.
Frame(width, faces, hull) == [width |-> width, faces |-> faces, hull |-> hull]
Contrast == Frame(98, {}, {<<54, 32>>})
Risky == Frame(98, {<<2, 40>>}, {<<54, 32>>})
Face == Frame(100, {<<29, 57>>}, {<<90, 4>>})
Video == Frame(98, {}, {})
FourFiles == {Contrast, Risky, Face, Video}
OneVideo == {Video}
Redactions == {<<Contrast, Contrast>>, <<Risky, Contrast>>}
BlankFrame == Frame(1, {}, {})
ViewSets == {{"event", "description_summary"}, {"event", "image_redacted"}, {"event", "image", "video"}}

\* What IEEE doubles make of these boxes.
ShortProducts ==
  {<<share, Region("unknown_sensitive", 54, 32, 98), 98>> : share \in {"x", "width"}}
  \cup {<<share, Region("face", 29, 57, 100), 100>> : share \in {"x", "width"}}
  \cup {<<"x", Region("face", 2, 40, 98), 98>>}

\* Bridges.
Line(form, label, confidence, dated) ==
  [form |-> form, label |-> label, confidence |-> confidence, numeric |-> confidence > 0, dated |-> dated]
FiveLines == {Line("blank", "x", 0, FALSE), Line("json", "person", 9, TRUE), Line("json", "x", 0, FALSE),
              Line("csv", "car", 9, FALSE), Line("csv", "car", 0, FALSE)}
Bottle(x) == [label |-> "bottle", x |-> x]
TenScenes == [litter : {<<>>, <<Bottle(0)>>, <<Bottle(60)>>, <<Bottle(0), Bottle(60)>>, <<Bottle(200), Bottle(0)>>},
              persons : {{}, {150}}]

Init ==
  /\ part \in {"access", "purchases", "users", "pipeline", "pages", "pool", "huskylens", "webcam"}
  /\ AccessInit /\ PipelineInit /\ PagesInit /\ PoolInit /\ HuskyInit /\ WebcamInit
  /\ IF part = "users" THEN DataUserInit
     ELSE dataUser = User("OTHER", "OTHER", FALSE, "OTHER", FALSE)

\* Access twice: with every kind of request and no purchase, and with purchases and what they lead to
\* on a desktop while the audit database works.
InAccess == part \in {"access", "purchases"}
Restricted == IF part = "access" THEN UNCHANGED claims
              ELSE /\ UNCHANGED failures
                   /\ \A r \in DOMAIN requests' : requests'[r].kind = "PurchaseViewerVC" /\ page'[r] # "away"

\* What is made of a published row and what the provider sees of an analysis share only the media,
\* so that each is explored without the other.
OneReader == published'.frame = NoFrame \/ analysed' = 0

Next ==
  /\ UNCHANGED part
  /\ \/ InAccess /\ AccessNext /\ Restricted
        /\ UNCHANGED <<dataUser, pipelineVars, pagesVars, poolVars, huskyVars, webcamVars>>
     \/ part = "users" /\ DataUserNext
        /\ UNCHANGED <<accessVars, pipelineVars, pagesVars, poolVars, huskyVars, webcamVars>>
     \/ part = "pipeline" /\ PipelineNext
        /\ UNCHANGED <<accessVars, dataUser, pagesVars, poolVars, huskyVars, webcamVars>>
     \/ part = "pages" /\ PagesNext /\ OneReader
        /\ UNCHANGED <<accessVars, dataUser, pipelineVars, poolVars, huskyVars, webcamVars>>
     \/ part = "pool" /\ PoolNext
        /\ UNCHANGED <<accessVars, dataUser, pipelineVars, pagesVars, huskyVars, webcamVars>>
     \/ part = "huskylens" /\ HuskyNext
        /\ UNCHANGED <<accessVars, dataUser, pipelineVars, pagesVars, poolVars, webcamVars>>
     \/ part = "webcam" /\ WebcamNext
        /\ UNCHANGED <<accessVars, dataUser, pipelineVars, pagesVars, poolVars, huskyVars>>

\* Time goes on, pages poll, and the server works, each while its part is explored.  Of a request
\* that a page polls for, either the next poll ends it or time brings its expiry nearer, so that
\* one condition does for both.
Fairness == /\ WF_accessVars(InAccess /\ (Tick \/ \E r \in DOMAIN requests : poll(r)))
            /\ WF_poolVars(part = "pool" /\ ServerSteps)

Spec == Init /\ [][Next]_vars /\ Fairness
================================================================================
