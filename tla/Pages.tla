--------------------------------- MODULE Pages ----------------------------------
(***************************************************************************)
(* The provider's page and the viewer's page with the endpoints they call. *)
(*                                                                         *)
(* The provider picks files, which are uploaded to the media gateway, has  *)
(* one analysed, looks at what each trust level would see, and publishes.  *)
(* All of it is asynchronous and uses two variables of the page,           *)
(* lastUpload and lastSourceBlob, whose values may change while a request  *)
(* is under way.  The viewer's page turns the views of its token into a    *)
(* trust level and has the publisher render each row.                      *)
(***************************************************************************)
EXTENDS Semantic, Naturals

CONSTANTS
  Frames,              \* [width, faces, hull]: the files a provider may pick
  NoFrame,
  Videos,              \* those of them that are videos, which no image library decodes
  Redacted,            \* <<picture, what the redactor makes of it>>
  Backend,             \* semantic_analyzer_backend
  AllowUnknownAtHigh,
  ViewerViews,         \* sets of views a viewer token may carry
  MaxPicks, MaxAnalyses, MaxPageFaults      \* bounds

Tiers == {"anonymous", "low", "medium", "high"}
ASSUME PagesAssumption ==
  /\ NoFrame \notin Frames /\ Videos \subseteq Frames
  /\ Redacted \subseteq (Frames \ Videos) \X (Frames \ Videos)
  /\ \A f \in Frames : /\ f.width \in Nat \ {0}
                       /\ f.faces \subseteq Nat \X Nat /\ IsFiniteSet(f.faces)
                       /\ f.hull \subseteq Nat \X Nat /\ IsFiniteSet(f.hull) /\ Cardinality(f.hull) <= 1
                       /\ \A i \in f.faces \cup f.hull : i[1] + i[2] <= f.width

VARIABLES
  media,               \* files of the media gateway
  onScreen,            \* the picture in the page's preview
  uploads,             \* requests to /media/upload under way
  lastUpload, lastSourceBlob,
  analyzeBtn,          \* whether the analyse button is enabled
  analyses,            \* requests to /semantic/analyze under way
  previews,            \* what the page shows per tier
  published,           \* the row of the payload published last
  recording,           \* whether the browser records a video
  card,                \* what the viewer's page shows of a row
  disclosures,         \* rows of audit_log about disclosures, the last of each endpoint
  picks, analysed, pageFaults,
  inStep               \* history: the last good answer to an upload was to the newest one

pagesVars == <<media, onScreen, uploads, lastUpload, lastSourceBlob, analyzeBtn, analyses, previews, published,
               recording, card, disclosures, picks, analysed, pageFaults, inStep>>

\* The steps of a request that may fail, and that they did.
MayFail(steps) == {failed \in SUBSET steps : pageFaults + Cardinality(failed) <= MaxPageFaults}
Failed(steps) == pageFaults' = pageFaults + Cardinality(steps)
-----------------------------------------------------------------------------
\* uploadBlob, up to its request.
uploadBlob(f) ==
  /\ picks < MaxPicks
  /\ picks' = picks + 1
  /\ onScreen' = f
  /\ uploads' = uploads \cup {[pick |-> picks + 1, frame |-> f]}
  /\ inStep' = FALSE
  /\ UNCHANGED <<media, lastUpload, lastSourceBlob, analyzeBtn, analyses, previews, published, card,
                 disclosures, analysed, pageFaults>>

\* A file chosen on the disk or taken with the phone's camera.
bindFileInput(f) == uploadBlob(f) /\ UNCHANGED recording

\* A video recorded by the browser, which is uploaded when it stops; other files may be chosen
\* meanwhile.  Bound: nobody clicks Start again while the browser asks for the camera.
recStart ==
  /\ ~recording /\ picks < MaxPicks
  /\ recording' = TRUE
  /\ UNCHANGED <<media, onScreen, uploads, lastUpload, lastSourceBlob, analyzeBtn, analyses, previews, published,
                 card, disclosures, picks, analysed, pageFaults, inStep>>
recStop == recording /\ recording' = FALSE /\ \E f \in Videos : uploadBlob(f)

\* POST /media/upload: stored under the hash of its bytes, then, if there is a daemon, pushed to
\* IPFS, without which it has no CID.
media_upload(f, cid) == media' = media \cup {f} /\ lastUpload' = [frame |-> f, cid |-> cid]

\* History: the analyses under way are of another upload than the last one.
Overtaken == {[n |-> a.n, frame |-> a.frame, overtaken |-> TRUE] : a \in analyses}

\* Mutant of upload_answered: the blob to analyse is kept from the first upload on.
upload_answered_first(u) ==
  /\ uploads' = uploads \ {u}
  /\ media_upload(u.frame, TRUE)
  /\ lastSourceBlob' = IF lastSourceBlob = NoFrame THEN u.frame ELSE lastSourceBlob
  /\ analyzeBtn' = TRUE /\ inStep' = (u.pick = picks) /\ analyses' = Overtaken
  /\ UNCHANGED <<onScreen, previews, published, recording, card, disclosures, picks, analysed, pageFaults>>

\* The rest of uploadBlob, in the order in which the answers come.
upload_answered(u) ==
  /\ uploads' = uploads \ {u}
  /\ \E failed \in MayFail({"ipfs"}) \cup MayFail({"answer"}) :
       /\ Failed(failed)
       /\ IF failed = {"answer"}
            THEN /\ media' \in {media, media \cup {u.frame}}
                 /\ UNCHANGED <<lastUpload, lastSourceBlob, analyzeBtn, analyses, inStep>>
            ELSE /\ media_upload(u.frame, failed = {})
                 /\ lastSourceBlob' = u.frame /\ analyzeBtn' = TRUE
                 /\ inStep' = (u.pick = picks) /\ analyses' = Overtaken
  /\ UNCHANGED <<onScreen, previews, published, recording, card, disclosures, picks, analysed>>

\* The analyse button, which an analysis disables until it ends, and an upload enables.
analyze_click ==
  /\ analyzeBtn /\ analysed < MaxAnalyses
  /\ analyzeBtn' = FALSE
  /\ analysed' = analysed + 1
  /\ analyses' = analyses \cup {[n |-> analysed + 1, frame |-> lastSourceBlob, overtaken |-> FALSE]}
  /\ previews' = {}
  /\ UNCHANGED <<media, onScreen, uploads, lastUpload, lastSourceBlob, published, recording, card, disclosures,
                 picks, pageFaults, inStep>>

-----------------------------------------------------------------------------
\* An audit record is written before the answer, if an image is in it or the viewer is privileged.
_maybe_audit(path, out) ==
  IF out.audit_required \/ out.image # {} THEN [disclosures EXCEPT ![path] = {out}] ELSE disclosures

media_get(f) == IF f \in media THEN {f} ELSE {}

\* What the analyzer makes of a file: OpenCV raises on a video, which leaves the empty SIR.
Analysis(f) == IF f \in Videos /\ Backend \in {"vision", "opencv"} THEN empty ELSE Analyze(Backend, f)

\* POST /semantic/render for one tier: a SIR and, for the upper tiers, the URL of a file.
renderOneTier(tier, sir, f, failed) ==
  Render(Evaluate(tier, sir, AllowUnknownAtHigh),
         IF tier \in {"medium", "high"} /\ "fetch" \notin failed THEN media_get(f) ELSE {},
         "decode" \notin failed /\ f \notin Videos)

\* The analysis is answered: the regions of its blob are drawn over, and the tiers rendered
\* from, what has been uploaded last by now.
analyze_answered(a) ==
  /\ analyses' = analyses \ {a}
  /\ analyzeBtn' = TRUE
  /\ \E failed \in MayFail({"analysis", "fetch", "decode"}) \cup MayFail({"answer"}) :
       LET sir == IF "analysis" \in failed THEN empty ELSE Analysis(a.frame)
           shown(tier) == renderOneTier(tier, sir, lastUpload.frame, failed)
       IN  /\ Failed(failed)
           /\ IF "answer" \in failed
                THEN UNCHANGED <<previews, disclosures>>
                ELSE /\ previews' = {[analysed |-> a.frame, overtaken |-> a.overtaken, sir |-> sir, out |-> shown(t)]
                                       : t \in Tiers}
                     /\ disclosures' = _maybe_audit("render", shown("high"))
  /\ UNCHANGED <<media, onScreen, uploads, lastUpload, lastSourceBlob, published, recording, card, picks, analysed,
                 inStep>>

\* The publish button: what was uploaded last, as an image or as a video.  The publisher puts the
\* row on the platform with a redacted picture beside the raw one, if the redactor makes one.
publish_click ==
  /\ lastUpload.frame # NoFrame
  /\ \E redacted \in {{}} \cup {{r[2]} : r \in {q \in Redacted : q[1] = lastUpload.frame}} :
       /\ published' =
            [frame |-> lastUpload.frame,
             keys |-> (IF lastUpload.frame \in Videos THEN {"video_url", "video_duration_sec"} ELSE {"image_url"})
                      \cup (IF lastUpload.cid THEN {"image_cid"} ELSE {}),
             redacted |-> redacted]
       /\ media' = media \cup redacted
  /\ UNCHANGED <<onScreen, uploads, lastUpload, lastSourceBlob, analyzeBtn, analyses, previews,
                 recording, card, disclosures, picks, analysed, pageFaults, inStep>>

-----------------------------------------------------------------------------
\* The viewer's page.
deriveTrustLevel(views) ==
  CASE "video" \in views -> "high"
    [] "video" \notin views /\ views \cap {"image", "image_redacted"} # {} -> "medium"
    [] views \cap {"video", "image", "image_redacted"} = {}
       /\ views \cap {"description_summary", "description_full"} # {} -> "low"
    [] OTHER -> "anonymous"

\* POST /semantic/render_url for a row's picture: fetch, analyse, evaluate, render, audit.  A failed
\* fetch or analysis goes on with the empty SIR, a failed evaluation with no disclosure; an audit
\* record that cannot be written is a 500 without an image.
render_url(level, f) ==
  \E failed \in MayFail({"fetch", "analysis", "policy", "decode", "audit"}) :
    LET sir == IF failed \cap {"fetch", "analysis"} = {} THEN Analysis(f) ELSE empty
        policy == IF "policy" \in failed THEN NoDisclosure ELSE Evaluate(level, sir, AllowUnknownAtHigh)
        out == Render(policy, IF "fetch" \in failed THEN {} ELSE media_get(f), "decode" \notin failed)
    IN  /\ Failed(failed)
        /\ IF "audit" \in failed THEN UNCHANGED disclosures ELSE disclosures' = _maybe_audit("render_url", out)
        /\ card' = [row |-> f, level |-> level, out |-> IF "audit" \in failed THEN {} ELSE {out}]

\* The picture of a row as the token's views left it: the raw one, or else the redacted one.
sourceUrl(views) ==
  IF "image" \in views /\ "image_url" \in published.keys THEN {published.frame}
  ELSE IF "image_redacted" \in views THEN published.redacted
  ELSE {}

\* With the semantic mode on, a row's picture goes through the publisher; without one nothing
\* is asked for.
renderRowSemantic(views) ==
  \/ \E f \in sourceUrl(views) : render_url(deriveTrustLevel(views), f)
  \/ /\ sourceUrl(views) = {}
     /\ card' = [row |-> NoFrame, level |-> deriveTrustLevel(views), out |-> {}]
     /\ UNCHANGED <<disclosures, pageFaults>>

\* With it off, the row's picture and its video as they are.
renderRow(views) ==
  LET video == IF "video" \in views /\ "video_url" \in published.keys THEN {published.frame} ELSE {}
  IN  /\ card' = [row |-> published.frame, level |-> "projected",
                  out |-> {[trust_level |-> "projected", kinds |-> views, audit_required |-> FALSE,
                            image |-> {[frame |-> f, blurred |-> {}, original |-> TRUE]
                                         : f \in sourceUrl(views) \cup video}]}]
      /\ UNCHANGED <<disclosures, pageFaults>>

\* The page loads a row with the views of its token; the switch of the semantic mode loads it anew.
load(views, useSemantic) ==
  /\ published.frame # NoFrame
  /\ IF useSemantic THEN renderRowSemantic(views) ELSE renderRow(views)
  /\ UNCHANGED <<media, onScreen, uploads, lastUpload, lastSourceBlob, analyzeBtn, analyses, previews,
                 published, recording, picks, analysed, inStep>>

PagesInit ==
  /\ media = {} /\ onScreen = NoFrame /\ uploads = {} /\ analyses = {} /\ previews = {}
  /\ analyzeBtn = FALSE /\ recording = FALSE
  /\ lastUpload = [frame |-> NoFrame, cid |-> FALSE] /\ lastSourceBlob = NoFrame
  /\ published = [frame |-> NoFrame, keys |-> {}, redacted |-> {}]
  /\ card = [row |-> NoFrame, level |-> "anonymous", out |-> {}] /\ disclosures = [p \in {"render", "render_url"} |-> {}]
  /\ picks = 0 /\ analysed = 0 /\ pageFaults = 0 /\ inStep = TRUE

PagesNext ==
  \/ \E f \in Frames : bindFileInput(f)
  \/ recStart \/ recStop
  \/ \E u \in uploads : upload_answered(u)
  \/ analyze_click
  \/ \E a \in analyses : analyze_answered(a)
  \/ publish_click
  \/ \E v \in ViewerViews, useSemantic \in BOOLEAN : load(v, useSemantic)

PagesSpec == PagesInit /\ [][PagesNext]_pagesVars

-----------------------------------------------------------------------------
\* However picks, answers and clicks interleave, Publish and Analyse take the picture on the screen
\* unless its upload is under way, failed, or was answered before an older one's; a preview shows
\* the picture analysed unless an upload was answered while the analysis ran; and even then the
\* boxes found are hidden where they lie in the picture shown (uploadBlob, the analyse and publish
\* buttons, lastUpload and lastSourceBlob).
PageConsistent ==
  /\ inStep => lastUpload.frame = onScreen /\ lastSourceBlob = onScreen
  /\ \A p \in previews : \A i \in p.out.image :
       /\ p.overtaken \/ i.frame = p.analysed
       /\ \A r \in p.sir.regions : Hidden(r, i)

\* In the semantic mode what the viewer's page shows of a row's picture, raw or redacted, has every
\* region that the analyzer finds in this very picture blurred up to its last two columns, is never
\* the original, and is in the audit log, whichever of fetch, analysis, evaluation, decoding and
\* audit fails (render_url).
ViewersSeeMasked ==
  card.level # "projected" =>
    \A out \in card.out : \A i \in out.image :
      /\ i.frame = card.row /\ ~i.original
      /\ \A r \in Analyze(Backend, card.row).regions : Hidden(r, i)
      /\ Analyze(Backend, card.row).risk < _MEDIUM_RISK_CEILING
      /\ disclosures["render_url"] = {out}
=================================================================================
