------------------------------ MODULE PagesProofs ------------------------------
(***************************************************************************)
(* What the two pages show of a picture, proved for any files, analyzers   *)
(* and views.  The first part is about whole numbers: the columns the      *)
(* renderer blurs are computed by cutting off fractions, and the lemmas    *)
(* say how much of a box that may leave.                                   *)
(***************************************************************************)
EXTENDS Pages, FiniteSetTheorems, TLAPS

-----------------------------------------------------------------------------
(***************************************************************************)
(* Whole numbers.                                                          *)
(***************************************************************************)
\* Division by the unit of a box.
LEMMA Cut == \A n \in Int, d \in Nat \ {0} : /\ n \div d \in Int /\ n % d \in 0 .. d - 1
                                             /\ n = d * (n \div d) + (n % d)
  OBVIOUS

\* A factor may be dropped from a comparison.
LEMMA Drop == \A m \in Int, n \in Int, d \in Nat \ {0} : d * m < d * n => m < n
<1> SUFFICES ASSUME NEW m \in Int, NEW n \in Int, NEW d \in Nat \ {0}, d * m < d * n, n <= m
             PROVE  FALSE
  OBVIOUS
<1>1. PICK k \in Nat : m = n + k
  <2>1. m - n \in Nat /\ m = n + (m - n)
    OBVIOUS
  <2>2. QED
    BY <2>1
<1>2. d * m = d * n + d * k /\ d * k \in Nat /\ d * n \in Int
  BY <1>1
<1>3. QED
  BY <1>2

\* A box from a to a + b, in columns of d, has its whole columns among the blurred ones but for
\* the last two, whichever of the two products falls short (int).
LEMMA WholeColumnsCut ==
  ASSUME NEW a \in Nat, NEW b \in Int, NEW d \in Nat \ {0}, NEW c \in Int, d * c >= a, d * (c + 1) <= a + b,
         NEW s \in BOOLEAN, NEW t \in BOOLEAN
  PROVE  /\ int(a, d, s) \in Int /\ int(b, d, t) \in Int
         /\ c >= int(a, d, s) /\ c <= int(a, d, s) + int(b, d, t) + 1
<1> DEFINE x == a \div d
           y == b \div d
           p == a % d
           q == b % d
<1>1. x \in Int /\ y \in Int /\ p \in 0 .. d - 1 /\ q \in 0 .. d - 1 /\ a = d * x + p /\ b = d * y + q
  BY Cut
<1>2. /\ int(a, d, s) \in {x - 1, x} /\ (p # 0 => int(a, d, s) = x)
      /\ int(b, d, t) \in {y - 1, y} /\ (q # 0 => int(b, d, t) = y)
  BY <1>1 DEF int
<1> HIDE DEF x, y, p, q
<1>3. c >= x
  <2>1. d * x < d * (c + 1)
    <3>1. d * (c + 1) = d * c + d /\ d * c \in Int /\ d * x \in Int
      BY <1>1
    <3>2. QED
      BY <1>1, <3>1
  <2>2. QED
    BY <1>1, <2>1, Drop
<1>4. c <= x + y /\ (p = 0 \/ q = 0 => c <= x + y - 1)
  <2>1. d * (c + 1) <= d * (x + y) + p + q
    <3>1. d * (x + y) = d * x + d * y /\ d * x \in Int /\ d * y \in Int /\ d * (c + 1) \in Int
      BY <1>1
    <3>2. QED
      BY <1>1, <3>1
  <2>2. /\ d * (x + y + 1) = d * (x + y) + d /\ d * (x + y + 2) = d * (x + y) + 2 * d
        /\ d * (x + y) \in Int /\ d * (c + 1) \in Int
    BY <1>1
  <2>3. d * (c + 1) < d * (x + y + 2) /\ (p = 0 \/ q = 0 => d * (c + 1) < d * (x + y + 1))
    BY <1>1, <2>1, <2>2
  <2>4. c + 1 < x + y + 2 /\ (p = 0 \/ q = 0 => c + 1 < x + y + 1)
    BY <1>1, <2>3, Drop
  <2>5. QED
    BY <1>1, <2>4
<1>5. QED
  BY <1>1, <1>2, <1>3, <1>4
-----------------------------------------------------------------------------
(***************************************************************************)
(* The renderer hides what it is told to mask.                             *)
(***************************************************************************)
RegionTypes == {"face", "text", "unknown_sensitive"}
Boxes == [type : RegionTypes, x : Nat, width : Int, unit : Nat \ {0}]

\* A box whose columns are among the blurred ones is hidden, whether or not it lies on the pixel
\* grid, reaches beyond the frame or is empty, and whatever its products lose (Hidden, clamped,
\* MaskedColumns).
LEMMA BoxHidden ==
  ASSUME NEW f \in Frames, NEW r \in Boxes, NEW image, image.frame = f,
         MaskedColumns(r, f.width) \subseteq image.blurred
  PROVE  Hidden(r, image)
<1> DEFINE w == f.width
           d == r.unit
           b == clamped(r)
           k == IF d - r.x < r.width THEN d - r.x ELSE r.width
           X == int(r.x * w, d, <<"x", b, w>> \in Short)
           R == int(k * w, d, <<"width", b, w>> \in Short)
<1>1. w \in Nat \ {0} /\ d \in Nat \ {0}
  BY PagesAssumption DEF Boxes
<1>2. r.x \in Nat /\ r.width \in Int /\ k \in Int /\ k <= d - r.x /\ k <= r.width
  BY <1>1 DEF Boxes
<1>3. r.x * w \in Nat /\ k * w \in Int
  BY <1>1, <1>2
<1>4. MaskedColumns(r, w) = X .. X + R - 1
  <2>1. b.x = r.x /\ b.width = k /\ b.unit = d
    BY DEF clamped, Boxes
  <2> HIDE DEF k, d
  <2>2. QED
    BY <2>1 DEF MaskedColumns
<1>5. ASSUME NEW c \in WholeColumns(r, w)
      PROVE  c \in Int /\ d * c >= r.x * w /\ d * (c + 1) <= r.x * w + k * w
  <2>1. c \in 0 .. w - 1 /\ d * c >= r.x * w /\ d * (c + 1) <= (r.x + r.width) * w
    BY DEF WholeColumns
  <2>2. c \in Int /\ d * (c + 1) <= d * w
    <3>1. d * w \in Int /\ d * (c + 1) \in Int /\ c + 1 \in Int /\ ~(w < c + 1)
      BY <1>1, <2>1
    <3>2. d * w < d * (c + 1) => w < c + 1
      BY <1>1, <3>1, Drop
    <3>3. QED
      BY <2>1, <3>1, <3>2
  <2>3. CASE k = r.width
    <3>1. (r.x + r.width) * w = r.x * w + k * w
      BY <1>1, <1>2, <2>3
    <3>2. QED
      BY <2>1, <2>2, <3>1
  <2>4. CASE k = d - r.x
    <3>1. d * w = r.x * w + k * w
      BY <1>1, <1>2, <2>4
    <3>2. QED
      BY <2>1, <2>2, <3>1
  <2>5. QED
    BY <2>3, <2>4
<1> HIDE DEF w, d, b, k
<1>6. ASSUME NEW c \in WholeColumns(r, w)
      PROVE  X \in Int /\ R \in Int /\ c \in Int /\ c >= X /\ c <= X + R + 1
  <2>1. (<<"x", b, w>> \in Short) \in BOOLEAN /\ (<<"width", b, w>> \in Short) \in BOOLEAN
    OBVIOUS
  <2>2. c \in Int /\ d * c >= r.x * w /\ d * (c + 1) <= r.x * w + k * w
    BY <1>5
  <2>3. QED
    BY <1>1, <1>3, <2>1, <2>2, WholeColumnsCut
<1> HIDE DEF X, R
<1>7. ASSUME NEW c \in WholeColumns(r, w) \ image.blurred, NEW e \in WholeColumns(r, w)
      PROVE  e <= c + 1
  <2>1. c \notin X .. X + R - 1
    BY <1>4 DEF w
  <2>2. QED
    BY <1>6, <2>1
<1>8. QED
  BY <1>7 DEF Hidden, w
\* What any analyzer finds in a file of the gateway are boxes, and the risk is a number (Analyze).
LEMMA RegionsAreBoxes ==
  ASSUME NEW f \in Frames
  PROVE  /\ Analyze(Backend, f).regions \subseteq Boxes
         /\ Analyze(Backend, f).risk \in Int
<1>1. MockAnalyze(f).regions \subseteq Boxes /\ MockAnalyze(f).risk \in Int
  <2>1. Region("face", 18, 8, 100) \in Boxes /\ Region("text", 52, 30, 100) \in Boxes
        /\ Region("unknown_sensitive", 75, 15, 100) \in Boxes
    BY DEF Region, Boxes, RegionTypes
  <2>2. QED
    BY <2>1 DEF MockAnalyze
<1>2. VisionAnalyze(f).regions \subseteq Boxes /\ VisionAnalyze(f).risk \in Int
  <2> DEFINE box(type, i) == clamped(Region(type, i[1], i[2], f.width))
             faces == {box("face", i) : i \in f.faces}
             wide == {h \in f.hull : 100 * h[2] > 5 * f.width}
             hulls == {box("unknown_sensitive", i) : i \in wide}
             risk == 40 * Cardinality(faces) + 50 * Cardinality(hulls)
  <2>1. /\ f.width \in Nat \ {0}
        /\ f.faces \subseteq Nat \X Nat /\ IsFiniteSet(f.faces)
        /\ f.hull \subseteq Nat \X Nat /\ IsFiniteSet(f.hull)
    BY PagesAssumption
  <2>2. \A type \in RegionTypes, i \in Nat \X Nat : box(type, i) \in Boxes
    <3> SUFFICES ASSUME NEW type \in RegionTypes, NEW i \in Nat \X Nat
                 PROVE  box(type, i) \in Boxes
      OBVIOUS
    <3> DEFINE x == i[1]
               n == i[2]
    <3>1. x \in Nat /\ n \in Nat
      OBVIOUS
    <3> HIDE DEF x, n
    <3>2. clamped(Region(type, x, n, f.width)) \in Boxes
      BY <2>1, <3>1 DEF clamped, Region, Boxes
    <3>3. QED
      BY <3>2 DEF x, n
  <2> HIDE DEF box
  <2>3. IsFiniteSet(faces)
    <3> DEFINE g == [i \in f.faces |-> box("face", i)]
    <3>1. g \in Surjection(f.faces, faces)
      BY DEF Surjection
    <3>2. QED
      BY <2>1, <3>1, FS_Surjection
  <2>4. IsFiniteSet(hulls)
    <3> DEFINE g == [i \in wide |-> box("unknown_sensitive", i)]
    <3>1. IsFiniteSet(wide)
      BY <2>1, FS_Subset
    <3>2. g \in Surjection(wide, hulls)
      BY DEF Surjection
    <3>3. QED
      BY <3>1, <3>2, FS_Surjection
  <2>5. faces \subseteq Boxes /\ hulls \subseteq Boxes
    <3>1. \A i \in f.faces : box("face", i) \in Boxes
      BY <2>1, <2>2 DEF RegionTypes
    <3>2. \A i \in wide : box("unknown_sensitive", i) \in Boxes
      BY <2>1, <2>2 DEF RegionTypes
    <3>3. QED
      BY <3>1, <3>2
  <2>6. Cardinality(faces) \in Nat /\ Cardinality(hulls) \in Nat
    BY <2>3, <2>4, FS_CardinalityType
  <2>7. VisionAnalyze(f) = [regions |-> faces \cup hulls, risk |-> IF risk > 100 THEN 100 ELSE risk]
    BY DEF VisionAnalyze, box
  <2> HIDE DEF faces, hulls
  <2>8. QED
    BY <2>5, <2>6, <2>7
<1>3. QED
  BY <1>1, <1>2 DEF Analyze
\* The picture the renderer answers with, for a viewer without privileges and with no region
\* let through: it is one of the given bytes, blurred over every region, not the original, and
\* the risk allowed it (Evaluate, Render).
LEMMA Rendered ==
  ASSUME ~AllowUnknownAtHigh, NEW level \in {"anonymous", "low", "medium", "high"}, NEW sir, sir.risk \in Int,
         NEW bytes \in SUBSET Frames, NEW decodes \in BOOLEAN,
         NEW i \in Render(Evaluate(level, sir, AllowUnknownAtHigh), bytes, decodes).image
  PROVE  /\ i.frame \in bytes /\ ~i.original
         /\ i.blurred = BlurredColumns(sir.regions, i.frame.width)
         /\ sir.risk < _MEDIUM_RISK_CEILING
<1> DEFINE policy == Evaluate(level, sir, AllowUnknownAtHigh)
<1>1. /\ policy.trust_level = level
      /\ policy.masks = _compute_mask_plan(level, sir, AllowUnknownAtHigh)
      /\ policy.allowed = _BASE_OUTPUTS(level) \ (IF sir.risk >= _MEDIUM_RISK_CEILING /\ level \notin Privileged
                                                    THEN ImageKinds ELSE {})
  BY DEF Evaluate, _coerce_trust_level, ViewerTrustLevel
<1>2. level \notin Privileged /\ policy.masks = sir.regions
  BY <1>1 DEF _compute_mask_plan, Privileged
<1> HIDE DEF policy
<1>3. ~("originalFrame" \in policy.allowed /\ policy.trust_level \in Privileged)
  BY <1>1, <1>2
<1>4. /\ policy.allowed \cap ImageKinds # {}
      /\ i \in {[frame |-> f, blurred |-> BlurredColumns(policy.masks, f.width), original |-> FALSE] : f \in bytes}
  <2>1. i \in Render(policy, bytes, decodes).image
    BY DEF policy
  <2>2. QED
    BY <1>3, <2>1 DEF Render
<1>5. sir.risk < _MEDIUM_RISK_CEILING
  BY <1>1, <1>2, <1>4 DEF _MEDIUM_RISK_CEILING
<1>6. PICK f \in bytes : i = [frame |-> f, blurred |-> BlurredColumns(policy.masks, f.width), original |-> FALSE]
  BY <1>4
<1>7. QED
  BY <1>2, <1>5, <1>6

\* Such a picture hides every region of a SIR made of boxes.
LEMMA AllHidden ==
  ASSUME NEW i, i.frame \in Frames, NEW regions \in SUBSET Boxes,
         i.blurred = BlurredColumns(regions, i.frame.width)
  PROVE  \A r \in regions : Hidden(r, i)
<1> SUFFICES ASSUME NEW r \in regions
             PROVE  Hidden(r, i)
  OBVIOUS
<1>1. MaskedColumns(r, i.frame.width) \subseteq i.blurred
  BY DEF BlurredColumns
<1>2. QED
  BY <1>1, BoxHidden

-----------------------------------------------------------------------------
(***************************************************************************)
(* The viewer's page.                                                      *)
(***************************************************************************)
MediaOK == /\ media \subseteq Frames
           /\ \A u \in uploads : u.frame \in Frames
           /\ DOMAIN disclosures = {"render", "render_url"}

\* Uploads bring only files of the provider's into the gateway.
LEMMA MediaStep ==
  ASSUME MediaOK, [PagesNext]_pagesVars
  PROVE  MediaOK'
<1>1. ASSUME NEW f \in Frames, uploadBlob(f)
      PROVE  MediaOK'
  <2>1. PICK u : u.frame = f /\ uploads' = uploads \cup {u}
    <3>1. [pick |-> picks + 1, frame |-> f].frame = f
      OBVIOUS
    <3>2. QED
      BY <1>1, <3>1 DEF uploadBlob
  <2>2. QED
    BY <1>1, <2>1 DEF uploadBlob, MediaOK
<1>2. CASE \E f \in Frames : bindFileInput(f)
  BY <1>1, <1>2 DEF bindFileInput
<1>3. CASE recStart
  BY <1>3 DEF recStart, MediaOK
<1>4. CASE recStop
  BY <1>1, <1>4, PagesAssumption DEF recStop
<1>5. CASE \E u \in uploads : upload_answered(u)
  <2>1. PICK u \in uploads : upload_answered(u)
    BY <1>5
  <2>2. uploads' = uploads \ {u} /\ UNCHANGED disclosures /\ media' \subseteq media \cup {u.frame}
    BY <2>1 DEF upload_answered, media_upload
  <2>3. QED
    BY <2>2 DEF MediaOK
<1>6. CASE analyze_click
  BY <1>6 DEF analyze_click, MediaOK
<1>7. CASE \E a \in analyses : analyze_answered(a)
  <2>1. PICK out : disclosures' \in {disclosures, _maybe_audit("render", out)}
    BY <1>7 DEF analyze_answered
  <2>2. DOMAIN disclosures' = DOMAIN disclosures
    BY <2>1 DEF _maybe_audit
  <2>3. QED
    BY <1>7, <2>2 DEF analyze_answered, MediaOK
<1>8. CASE publish_click
  <2>1. PICK redacted \in {{}} \cup {{r[2]} : r \in {q \in Redacted : q[1] = lastUpload.frame}} :
          media' = media \cup redacted
    BY <1>8 DEF publish_click
  <2>2. redacted \subseteq Frames
    BY PagesAssumption
  <2>3. QED
    BY <1>8, <2>1, <2>2 DEF publish_click, MediaOK
<1>9. CASE \E v \in ViewerViews, useSemantic \in BOOLEAN : load(v, useSemantic)
  <2>1. PICK out : disclosures' \in {disclosures, _maybe_audit("render_url", out)}
    BY <1>9 DEF load, renderRow, renderRowSemantic, render_url
  <2>2. DOMAIN disclosures' = DOMAIN disclosures
    BY <2>1 DEF _maybe_audit
  <2>3. QED
    BY <1>9, <2>2 DEF load, MediaOK
<1>10. CASE UNCHANGED pagesVars
  BY <1>10 DEF pagesVars, MediaOK
<1>11. QED
  BY <1>2, <1>3, <1>4, <1>5, <1>6, <1>7, <1>8, <1>9, <1>10 DEF PagesNext
\* Whatever fails on the way, the answer of render_url hides what the analyzer finds in the
\* picture, and the record of the disclosure precedes it.
LEMMA RenderUrlMasks ==
  ASSUME ~AllowUnknownAtHigh, MediaOK, NEW level \in {"anonymous", "low", "medium", "high"},
         NEW f, render_url(level, f)
  PROVE  ViewersSeeMasked'
<1>1. PICK failed \in MayFail({"fetch", "analysis", "policy", "decode", "audit"}) :
        LET sir == IF failed \cap {"fetch", "analysis"} = {} THEN Analysis(f) ELSE empty
            policy == IF "policy" \in failed THEN NoDisclosure ELSE Evaluate(level, sir, AllowUnknownAtHigh)
            out == Render(policy, IF "fetch" \in failed THEN {} ELSE media_get(f), "decode" \notin failed)
        IN  /\ IF "audit" \in failed THEN UNCHANGED disclosures ELSE disclosures' = _maybe_audit("render_url", out)
            /\ card' = [row |-> f, level |-> level, out |-> IF "audit" \in failed THEN {} ELSE {out}]
  BY DEF render_url
<1> DEFINE sir == IF failed \cap {"fetch", "analysis"} = {} THEN Analysis(f) ELSE empty
           policy == IF "policy" \in failed THEN NoDisclosure ELSE Evaluate(level, sir, AllowUnknownAtHigh)
           bytes == IF "fetch" \in failed THEN {} ELSE media_get(f)
           decodes == "decode" \notin failed
           out == Render(policy, bytes, decodes)
<1>2. /\ "audit" \notin failed => disclosures' = _maybe_audit("render_url", out)
      /\ card' = [row |-> f, level |-> level, out |-> IF "audit" \in failed THEN {} ELSE {out}]
  BY <1>1
<1>3. bytes \subseteq Frames \cap {f} /\ decodes \in BOOLEAN
  BY DEF media_get, MediaOK
<1>4. ASSUME "audit" \notin failed, NEW i \in out.image
      PROVE  /\ i.frame = f /\ ~i.original
             /\ \A r \in Analyze(Backend, f).regions : Hidden(r, i)
             /\ Analyze(Backend, f).risk < _MEDIUM_RISK_CEILING
             /\ disclosures'["render_url"] = {out}
  <2>1. "policy" \notin failed
    <3>1. Render(NoDisclosure, bytes, decodes).image = {}
      BY DEF Render, NoDisclosure
    <3>2. QED
      BY <1>4, <3>1
  <2>2. f \in Frames
    <3>1. bytes # {}
      <4>1. bytes = {} => Render(policy, bytes, decodes).image = {}
        <5> HIDE DEF policy, bytes, decodes
        <5>1. QED
          BY DEF Render
      <4>2. QED
        BY <1>4, <4>1
    <3>2. QED
      BY <1>3, <3>1
  <2>3. empty.risk \in Int /\ ~(empty.risk < _MEDIUM_RISK_CEILING)
    BY DEF empty, _MEDIUM_RISK_CEILING
  <2>4. sir \in {empty, Analyze(Backend, f)} /\ sir.risk \in Int
    BY <2>2, <2>3, RegionsAreBoxes DEF Analysis
  <2>5. i \in Render(Evaluate(level, sir, AllowUnknownAtHigh), bytes, decodes).image
    BY <1>4, <2>1
  <2> HIDE DEF sir, bytes, decodes
  <2>6. /\ i.frame \in bytes /\ ~i.original
        /\ i.blurred = BlurredColumns(sir.regions, i.frame.width)
        /\ sir.risk < _MEDIUM_RISK_CEILING
    BY <1>3, <2>4, <2>5, Rendered
  <2>7. i.frame = f /\ sir = Analyze(Backend, f)
    BY <1>3, <2>3, <2>4, <2>6
  <2>8. \A r \in Analyze(Backend, f).regions : Hidden(r, i)
    BY <2>2, <2>6, <2>7, RegionsAreBoxes, AllHidden
  <2>9. disclosures'["render_url"] = {out}
    <3>1. disclosures' = [disclosures EXCEPT !["render_url"] = {out}]
      BY <1>2, <1>4 DEF _maybe_audit
    <3>2. QED
      BY <3>1 DEF MediaOK
  <2>10. QED
    BY <2>6, <2>7, <2>8, <2>9
<1> HIDE DEF out
<1>5. /\ card'.row = f
      /\ \A o \in card'.out : o = out /\ "audit" \notin failed
  BY <1>2
<1>6. QED
  BY <1>4, <1>5 DEF ViewersSeeMasked

\* The level the page derives is never a privileged one.
LEMMA DerivedLevel == \A views : deriveTrustLevel(views) \in {"anonymous", "low", "medium", "high"}
  BY DEF deriveTrustLevel

\* No step shows a viewer more; only load changes the card.
LEMMA CardStep ==
  ASSUME ~AllowUnknownAtHigh, MediaOK, ViewersSeeMasked, [PagesNext]_pagesVars
  PROVE  ViewersSeeMasked'
<1>1. ASSUME UNCHANGED card, disclosures'["render_url"] = disclosures["render_url"]
      PROVE  ViewersSeeMasked'
  BY <1>1 DEF ViewersSeeMasked
<1>2. CASE (\E f \in Frames : bindFileInput(f)) \/ recStop
  BY <1>1, <1>2 DEF bindFileInput, recStop, uploadBlob
<1>3. CASE recStart \/ analyze_click \/ publish_click \/ UNCHANGED pagesVars
  BY <1>1, <1>3 DEF recStart, analyze_click, publish_click, pagesVars
<1>4. CASE \E u \in uploads : upload_answered(u)
  BY <1>1, <1>4 DEF upload_answered
<1>5. CASE \E a \in analyses : analyze_answered(a)
  <2>1. PICK out : disclosures' \in {disclosures, _maybe_audit("render", out)}
    BY <1>5 DEF analyze_answered
  <2>2. disclosures'["render_url"] = disclosures["render_url"]
    BY <2>1 DEF _maybe_audit, MediaOK
  <2>3. QED
    BY <1>1, <1>5, <2>2 DEF analyze_answered
<1>6. CASE \E v \in ViewerViews, useSemantic \in BOOLEAN : load(v, useSemantic)
  <2>1. PICK v \in ViewerViews, useSemantic \in BOOLEAN : load(v, useSemantic)
    BY <1>6
  <2>2. CASE \E f \in sourceUrl(v) : render_url(deriveTrustLevel(v), f)
    BY <2>2, DerivedLevel, RenderUrlMasks
  <2>3. CASE ~ \E f \in sourceUrl(v) : render_url(deriveTrustLevel(v), f)
    <3>1. card'.level = "projected" \/ card'.out = {}
      BY <2>1, <2>3 DEF load, renderRow, renderRowSemantic
    <3>2. QED
      BY <3>1 DEF ViewersSeeMasked
  <2>4. QED
    BY <2>2, <2>3
<1>7. QED
  BY <1>2, <1>3, <1>4, <1>5, <1>6 DEF PagesNext
-----------------------------------------------------------------------------
(***************************************************************************)
(* The provider's page.  What makes PageConsistent inductive is that the   *)
(* page's two variables speak of one upload, that only the newest pick has *)
(* its number, and that an analysis which has not been overtaken is of the *)
(* picture uploaded last.                                                  *)
(***************************************************************************)
PreviewsOK == \A p \in previews : \A i \in p.out.image :
                /\ p.overtaken \/ i.frame = p.analysed
                /\ \A r \in p.sir.regions : Hidden(r, i)

PicksOK == /\ picks \in Nat /\ lastSourceBlob = lastUpload.frame
           /\ \A u \in uploads : u.pick \in Nat /\ u.pick <= picks /\ (u.pick = picks => u.frame = onScreen)
           /\ inStep => lastUpload.frame = onScreen

AnalysesOK == /\ analyzeBtn \/ analyses # {} => lastSourceBlob \in Frames
              /\ \A a \in analyses : a.frame \in Frames /\ (a.overtaken \/ a.frame = lastUpload.frame)

PageOK == PicksOK /\ AnalysesOK /\ PreviewsOK

\* The answer to an analysis previews the picture uploaded last with every box hidden.
LEMMA AnalysisPreviewed ==
  ASSUME ~AllowUnknownAtHigh, MediaOK, NEW a \in analyses, a.overtaken \/ a.frame = lastUpload.frame,
         analyze_answered(a), a.frame \in Frames, PreviewsOK
  PROVE  PreviewsOK'
<1>1. PICK failed \in MayFail({"analysis", "fetch", "decode"}) \cup MayFail({"answer"}) :
       LET sir == IF "analysis" \in failed THEN empty ELSE Analysis(a.frame)
           shown(tier) == renderOneTier(tier, sir, lastUpload.frame, failed)
       IN  IF "answer" \in failed
             THEN UNCHANGED <<previews, disclosures>>
             ELSE previews' = {[analysed |-> a.frame, overtaken |-> a.overtaken, sir |-> sir, out |-> shown(t)]
                                 : t \in Tiers}
  BY DEF analyze_answered
<1> DEFINE f == lastUpload.frame
           sir == IF "analysis" \in failed THEN empty ELSE Analysis(a.frame)
           bytes(t) == IF t \in {"medium", "high"} /\ "fetch" \notin failed THEN media_get(f) ELSE {}
           decodes == "decode" \notin failed /\ f \notin Videos
           out(t) == Render(Evaluate(t, sir, AllowUnknownAtHigh), bytes(t), decodes)
<1>2. CASE "answer" \in failed
  BY <1>1, <1>2 DEF PreviewsOK
<1>3. CASE "answer" \notin failed
  <2>1. previews' = {[analysed |-> a.frame, overtaken |-> a.overtaken, sir |-> sir, out |-> out(t)] : t \in Tiers}
    BY <1>1, <1>3 DEF renderOneTier
  <2>2. ASSUME NEW t \in Tiers, NEW i \in out(t).image
        PROVE  i.frame = f /\ \A r \in sir.regions : Hidden(r, i)
    <3>1. bytes(t) \subseteq Frames \cap {f} /\ decodes \in BOOLEAN /\ t \in {"anonymous", "low", "medium", "high"}
      BY DEF media_get, MediaOK, Tiers
    <3>2. sir.regions \subseteq Boxes /\ sir.risk \in Int
      <4>1. empty.regions \subseteq Boxes /\ empty.risk \in Int
        BY DEF empty
      <4>2. QED
        BY <4>1, RegionsAreBoxes DEF Analysis
    <3> HIDE DEF sir, bytes, decodes, f
    <3>3. i.frame \in bytes(t) /\ i.blurred = BlurredColumns(sir.regions, i.frame.width)
      BY <2>2, <3>1, <3>2, Rendered
    <3>4. QED
      BY <3>1, <3>2, <3>3, AllHidden
  <2> HIDE DEF out, sir
  <2>3. ASSUME NEW p \in previews', NEW i \in p.out.image
        PROVE  (p.overtaken \/ i.frame = p.analysed) /\ \A r \in p.sir.regions : Hidden(r, i)
    <3>1. PICK t \in Tiers : p = [analysed |-> a.frame, overtaken |-> a.overtaken, sir |-> sir, out |-> out(t)]
      BY <2>1
    <3>2. QED
      BY <2>2, <3>1
  <2>4. QED
    BY <2>3 DEF PreviewsOK
<1>4. QED
  BY <1>2, <1>3

\* Every step of the page keeps its variables, uploads, analyses and previews together.
LEMMA PageStep ==
  ASSUME ~AllowUnknownAtHigh, MediaOK, PageOK, [PagesNext]_pagesVars
  PROVE  PageOK'
<1> USE DEF PageOK
<1>1. ASSUME NEW f \in Frames, uploadBlob(f)
      PROVE  PageOK'
  <2> DEFINE new == [pick |-> picks + 1, frame |-> f]
  <2>1. /\ picks' = picks + 1 /\ onScreen' = f /\ uploads' = uploads \cup {new} /\ inStep' = FALSE
        /\ UNCHANGED <<lastUpload, lastSourceBlob, analyzeBtn, analyses, previews>>
    BY <1>1 DEF uploadBlob
  <2>2. new.pick = picks + 1 /\ new.frame = f
    OBVIOUS
  <2> HIDE DEF new
  <2>3. PicksOK'
    BY <2>1, <2>2 DEF PicksOK
  <2>4. AnalysesOK' /\ PreviewsOK'
    BY <2>1 DEF AnalysesOK, PreviewsOK
  <2>5. QED
    BY <2>3, <2>4
<1>2. CASE (\E f \in Frames : bindFileInput(f)) \/ recStop
  BY <1>1, <1>2, PagesAssumption DEF bindFileInput, recStop
<1>3. CASE recStart \/ publish_click \/ (\E v \in ViewerViews, useSemantic \in BOOLEAN : load(v, useSemantic))
           \/ UNCHANGED pagesVars
  <2>1. UNCHANGED <<onScreen, uploads, lastUpload, lastSourceBlob, analyzeBtn, analyses, previews, picks, inStep>>
    BY <1>3 DEF recStart, publish_click, load, pagesVars
  <2>2. PicksOK'
    BY <2>1 DEF PicksOK
  <2>3. AnalysesOK' /\ PreviewsOK'
    BY <2>1 DEF AnalysesOK, PreviewsOK
  <2>4. QED
    BY <2>2, <2>3
<1>4. CASE \E u \in uploads : upload_answered(u)
  <2>1. PICK u \in uploads : upload_answered(u)
    BY <1>4
  <2>2. /\ uploads' \subseteq uploads /\ UNCHANGED <<onScreen, previews, picks>>
        /\ \/ UNCHANGED <<lastUpload, lastSourceBlob, analyzeBtn, analyses, inStep>>
           \/ /\ lastUpload'.frame = u.frame /\ lastSourceBlob' = u.frame
              /\ inStep' = (u.pick = picks) /\ analyses' = Overtaken
    <3>1. PICK failed \in MayFail({"ipfs"}) \cup MayFail({"answer"}) :
            IF failed = {"answer"}
              THEN UNCHANGED <<lastUpload, lastSourceBlob, analyzeBtn, analyses, inStep>>
              ELSE /\ media_upload(u.frame, failed = {})
                   /\ lastSourceBlob' = u.frame
                   /\ inStep' = (u.pick = picks) /\ analyses' = Overtaken
      BY <2>1 DEF upload_answered
    <3>2. CASE failed = {"answer"}
      BY <2>1, <3>1, <3>2 DEF upload_answered
    <3>3. CASE failed # {"answer"}
      <4>1. lastUpload' = [frame |-> u.frame, cid |-> failed = {}]
        BY <3>1, <3>3 DEF media_upload
      <4>2. lastUpload'.frame = u.frame
        BY <4>1
      <4>3. QED
        BY <2>1, <3>1, <3>3, <4>2 DEF upload_answered
    <3>4. QED
      BY <3>2, <3>3
  <2>3. CASE UNCHANGED <<lastUpload, lastSourceBlob, analyzeBtn, analyses, inStep>>
    <3>1. PicksOK'
      BY <2>2, <2>3 DEF PicksOK
    <3>2. AnalysesOK' /\ PreviewsOK'
      BY <2>2, <2>3 DEF AnalysesOK, PreviewsOK
    <3>3. QED
      BY <3>1, <3>2
  <2>4. CASE /\ lastUpload'.frame = u.frame /\ lastSourceBlob' = u.frame
             /\ inStep' = (u.pick = picks) /\ analyses' = Overtaken
    <3>1. PicksOK'
      BY <2>1, <2>2, <2>4 DEF PicksOK
    <3>2. \A b \in Overtaken : b.frame \in Frames /\ b.overtaken
      <4>1. \A a \in analyses : LET b == [n |-> a.n, frame |-> a.frame, overtaken |-> TRUE]
                                IN  b.frame \in Frames /\ b.overtaken
        BY DEF AnalysesOK
      <4>2. QED
        BY <4>1 DEF Overtaken
    <3>3. AnalysesOK'
      BY <2>1, <2>4, <3>2 DEF AnalysesOK, MediaOK
    <3>4. PreviewsOK'
      BY <2>2 DEF PreviewsOK
    <3>5. QED
      BY <3>1, <3>3, <3>4
  <2>5. QED
    BY <2>2, <2>3, <2>4
<1>5. CASE analyze_click
  <2> DEFINE new == [n |-> analysed + 1, frame |-> lastSourceBlob, overtaken |-> FALSE]
  <2>1. /\ analyzeBtn /\ analyses' = analyses \cup {new} /\ previews' = {}
        /\ UNCHANGED <<onScreen, uploads, lastUpload, lastSourceBlob, picks, inStep>>
    BY <1>5 DEF analyze_click
  <2>2. new.frame = lastSourceBlob
    OBVIOUS
  <2> HIDE DEF new
  <2>3. PicksOK'
    BY <2>1 DEF PicksOK
  <2>4. AnalysesOK'
    BY <2>1, <2>2 DEF AnalysesOK, PicksOK
  <2>5. PreviewsOK'
    BY <2>1 DEF PreviewsOK
  <2>6. QED
    BY <2>3, <2>4, <2>5
<1>6. CASE \E a \in analyses : analyze_answered(a)
  <2>1. PICK a \in analyses : analyze_answered(a)
    BY <1>6
  <2>2. analyses' \subseteq analyses /\ UNCHANGED <<onScreen, uploads, lastUpload, lastSourceBlob, picks, inStep>>
    BY <2>1 DEF analyze_answered
  <2>3. PicksOK'
    BY <2>2 DEF PicksOK
  <2>4. AnalysesOK'
    BY <2>1, <2>2 DEF AnalysesOK
  <2>5. PreviewsOK'
    BY <2>1, AnalysisPreviewed DEF AnalysesOK
  <2>6. QED
    BY <2>3, <2>4, <2>5
<1>7. QED
  BY <1>2, <1>3, <1>4, <1>5, <1>6 DEF PagesNext

-----------------------------------------------------------------------------
(***************************************************************************)
(* The results.                                                            *)
(***************************************************************************)
PagesInv == MediaOK /\ ViewersSeeMasked /\ PageOK

\* With unknown regions masked at every level, as the publisher is configured by default, the
\* invariant holds in every state of the two pages.
LEMMA PagesInvariance ==
  ASSUME ~AllowUnknownAtHigh
  PROVE  PagesSpec => []PagesInv
<1>1. PagesInit => PagesInv
  BY DEF PagesInit, PagesInv, MediaOK, ViewersSeeMasked, PageOK, PicksOK, AnalysesOK, PreviewsOK
<1>2. PagesInv /\ [PagesNext]_pagesVars => PagesInv'
  BY MediaStep, CardStep, PageStep DEF PagesInv
<1>3. QED
  BY <1>1, <1>2, PTL DEF PagesSpec

\* In the semantic mode a viewer of any trust level never sees the original, nor more of a region
\* that the analyzer finds in the picture, raw or redacted, than its last two columns and those
\* it covers in part, wherever the doubles fall short and whichever steps of render_url fail;
\* and what is shown is in the audit log.  Where the operator lets unknown regions through at "high", this is not
\* what the code does, nor what it is meant to do.
THEOREM ViewersMasked ==
  ASSUME ~AllowUnknownAtHigh
  PROVE  PagesSpec => []ViewersSeeMasked
<1>1. PagesInv => ViewersSeeMasked
  BY DEF PagesInv
<1>2. QED
  BY <1>1, PagesInvariance, PTL

\* In any order of picks, answers and clicks, Publish and Analyse take the picture on the screen
\* when the last answer was to its upload; a preview is of the picture analysed unless an upload
\* was answered meanwhile; and it hides the boxes found in either case.
THEOREM PageShowsUpload ==
  ASSUME ~AllowUnknownAtHigh
  PROVE  PagesSpec => []PageConsistent
<1>1. PagesInv => PageConsistent
  BY DEF PagesInv, PageOK, PicksOK, PreviewsOK, PageConsistent
<1>2. QED
  BY <1>1, PagesInvariance, PTL
================================================================================
