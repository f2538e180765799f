-------------------------------- MODULE Semantic --------------------------------
(***************************************************************************)
(* What a viewer of some trust level is shown of a frame: the analyzer     *)
(* finds sensitive regions, the policy grants kinds of output and plans    *)
(* masks, the renderer blurs.  Pure operators; Pages calls them.           *)
(*                                                                         *)
(* One dimension stands for both.  A frame is known by its width in        *)
(* pixels, its faces (pixel intervals) and its high-contrast hull, if any. *)
(* A box is a pair of shares of the frame, kept as whole numbers of its    *)
(* unit: hundredths for the stub, pixels of the analysed frame for OpenCV. *)
(***************************************************************************)
EXTENDS Integers, FiniteSets, FiniteSetsExt

\* The code computes with doubles: a share times a width that is a whole number of columns may
\* come out a hair less, and int() cuts a whole column off (int(0.29 * 100) is 28, and 1.0 - 0.9
\* is less than 0.1).  Short has <<"x" or "width", box, width of the frame>> where that happens.
CONSTANT Short

ViewerTrustLevel == {"anonymous", "low", "medium", "high", "owner", "admin"}
ImageKinds == {"redactedImage", "lowResolutionImage", "maskedVideoFrame", "originalFrame"}

-----------------------------------------------------------------------------
(***************************************************************************)
(* The analyzer.                                                           *)
(***************************************************************************)
Region(type, x, width, unit) == [type |-> type, x |-> x, width |-> width, unit |-> unit]
clamped(r) == [r EXCEPT !.width = IF r.unit - r.x < r.width THEN r.unit - r.x ELSE r.width]

\* An analysis that failed: no regions, the highest risk.
empty == [regions |-> {}, risk |-> 100]

\* The stub: the same regions for every frame.
MockAnalyze(frame) ==
  [regions |-> {Region("face", 18, 8, 100), Region("text", 52, 30, 100), Region("unknown_sensitive", 75, 15, 100)},
   risk |-> 78]

\* OpenCV: faces, and one hull around high contrast if it is wide enough; each adds to the risk.
VisionAnalyze(frame) ==
  LET box(type, i) == clamped(Region(type, i[1], i[2], frame.width))
      faces == {box("face", i) : i \in frame.faces}
      hulls == {box("unknown_sensitive", i) : i \in {h \in frame.hull : 100 * h[2] > 5 * frame.width}}
      risk  == 40 * Cardinality(faces) + 50 * Cardinality(hulls)
  IN  [regions |-> faces \cup hulls, risk |-> IF risk > 100 THEN 100 ELSE risk]

Analyze(backend, frame) == IF backend \in {"vision", "opencv"} THEN VisionAnalyze(frame) ELSE MockAnalyze(frame)

-----------------------------------------------------------------------------
(***************************************************************************)
(* The policy.                                                             *)
(***************************************************************************)
_BASE_OUTPUTS(level) ==
  {"eventList"}
  \cup (IF level = "anonymous" THEN {} ELSE {"textSummary"})
  \cup (IF level \in {"anonymous", "low"} THEN {} ELSE {"redactedImage", "lowResolutionImage"})
  \cup (IF level \in {"high", "owner", "admin"} THEN {"maskedVideoFrame"} ELSE {})
  \cup (IF level \in {"owner", "admin"} THEN {"originalFrame"} ELSE {})

_MEDIUM_RISK_CEILING == 90
Privileged == {"owner", "admin"}

\* Mutant of _compute_mask_plan: unknown regions are not masked at "high" in any case.
_compute_lenient_plan(level, sir, allow_unknown_at_high) ==
  IF level \in Privileged THEN {}
  ELSE {r \in sir.regions : ~(level = "high" /\ r.type = "unknown_sensitive")}

\* Everything the analyzer found is masked, except for the privileged, and, where the
\* operator allows it, unknown regions at "high".
_compute_mask_plan(level, sir, allow_unknown_at_high) ==
  IF level \in Privileged THEN {}
  ELSE {r \in sir.regions : ~(level = "high" /\ r.type = "unknown_sensitive" /\ allow_unknown_at_high)}

\* A level that is not one of the enumeration's counts as anonymous.
_coerce_trust_level(level) == IF level \in ViewerTrustLevel THEN level ELSE "anonymous"

Evaluate(viewer_trust, sir, allow_unknown_at_high) ==
  LET level == _coerce_trust_level(viewer_trust)
      risky == sir.risk >= _MEDIUM_RISK_CEILING /\ level \notin Privileged
  IN  [trust_level |-> level,
       allowed |-> _BASE_OUTPUTS(level) \ (IF risky THEN ImageKinds ELSE {}),
       masks |-> _compute_mask_plan(level, sir, allow_unknown_at_high),
       audit_required |-> level \in Privileged]

\* evaluate_safe: whatever raises leaves nothing allowed.
NoDisclosure == [trust_level |-> "anonymous", allowed |-> {}, masks |-> {}, audit_required |-> FALSE]

-----------------------------------------------------------------------------
(***************************************************************************)
(* The renderer.  An image is the frame it shows and the columns blurred.  *)
(***************************************************************************)
int(n, unit, short) == (n \div unit) - (IF short /\ n % unit = 0 /\ n > 0 THEN 1 ELSE 0)

MaskedColumns(r, width) ==
  LET b  == clamped(r)
      x  == int(b.x * width, b.unit, <<"x", b, width>> \in Short)
      rw == int(b.width * width, b.unit, <<"width", b, width>> \in Short)
  IN  x .. x + rw - 1

BlurredColumns(masks, width) == UNION {MaskedColumns(r, width) : r \in masks}

\* The bytes may be missing ("bytes" is a set of at most one frame) and may not decode.
Render(policy, bytes, decodes) ==
  [trust_level |-> policy.trust_level,
   kinds |-> policy.allowed,
   audit_required |-> policy.audit_required,
   image |-> CASE "originalFrame" \in policy.allowed /\ policy.trust_level \in Privileged ->
                    {[frame |-> f, blurred |-> {}, original |-> TRUE] : f \in bytes}
               [] ~("originalFrame" \in policy.allowed /\ policy.trust_level \in Privileged)
                  /\ policy.allowed \cap ImageKinds # {} /\ decodes ->
                    {[frame |-> f, blurred |-> BlurredColumns(policy.masks, f.width), original |-> FALSE] : f \in bytes}
               [] OTHER -> {}]

-----------------------------------------------------------------------------
\* What masking achieves.  Position and width of a box are cut to columns one by one, so that up
\* to two columns are lost: the last two whole columns of a box, and the columns that it covers
\* in part, may stay as they were.  All others are blurred.
WholeColumns(r, width) ==
  {c \in 0 .. width - 1 : r.unit * c >= r.x * width /\ r.unit * (c + 1) <= (r.x + r.width) * width}

Hidden(r, image) ==
  \A c \in WholeColumns(r, image.frame.width) \ image.blurred :
    \A d \in WholeColumns(r, image.frame.width) : d <= c + 1
=================================================================================
