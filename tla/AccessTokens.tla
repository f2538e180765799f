------------------------------ MODULE AccessTokens ------------------------------
(***************************************************************************)
(* Presentations and what they open.  A wallet answers a verification      *)
(* request with a credential; the publisher checks it, with the PEX        *)
(* sidecar or alone, and mints a token of the kind the request asked for:  *)
(* a policy token stores one row, a service token many, a viewer token     *)
(* reads the rows of its dataset through its views, a seller token binds   *)
(* contracts to the seller.  A desktop page polls for the outcome.         *)
(*                                                                         *)
(* Handlers run in a thread pool: what a handler read under one lock it    *)
(* may use long after, so every handler that calls out between two touches *)
(* of the state is two actions with the request in "pending" between them. *)
(* Tokens, request states and claims are random strings in the code and    *)
(* named by their index here.  Records of denials are left out of "audit". *)
(***************************************************************************)
EXTENDS Naturals, Sequences, FiniteSets, TrustScore

CONSTANTS
  Datasets, Sellers, Merchandises,
  AnyDataset,         \* "*", what requests for credentials without a dataset carry
  NoSeller,
  Definitions,        \* the presentation definitions on disk: <<vc_kind, dataset>>
  DefaultPurposes,    \* DEFAULT_ALLOWED_PURPOSES
  AskedPurposes,      \* purposes a request for a ConsentVC may name
  Licences,           \* licensed_datasets of the SellerVCs, none of them empty
  VlmSettings,        \* values VLM_ENABLED may have
  Bought,             \* datasets that purchases name
  Users,              \* what a claim says of its buyer: {} or one attribute record
  RequestTTL, PolicyTTL, ViewerTTL, ServiceTTL, SellerTTL,
  MaxTime,            \* bound: ticks of the clock
  MaxTokens,          \* bound: tokens in the stores when one of a kind is minted
  MaxRequests, MaxClaims, MaxRows, MaxUses, MaxPending,   \* bounds
  MaxAuditFailures    \* bound: writes to the audit database that raise

Kinds == {"ConsentVC", "ViewerVC", "ServiceVC", "PurchaseViewerVC", "SellerVC", "DataUserVC"}
DatasetKinds == Kinds \ {"SellerVC", "DataUserVC"}
PageKinds == {"ViewerVC", "PurchaseViewerVC", "SellerVC"}

ASSUME AccessAssumption ==
  /\ Licences \subseteq (SUBSET Datasets) \ {{}}
  /\ MaxTokens \in [Kinds -> Nat]
  /\ AnyDataset \notin Datasets /\ NoSeller \notin Sellers
  /\ Definitions \subseteq Kinds \X (Datasets \cup {AnyDataset})
  /\ (\A u \in Users : u \subseteq Attributes) /\ Bought \subseteq Datasets /\ VlmSettings \subseteq BOOLEAN
  /\ {RequestTTL, PolicyTTL, ViewerTTL, ServiceTTL, SellerTTL} \subseteq Nat
  /\ {MaxTime, MaxClaims, MaxUses, MaxAuditFailures} \subseteq Nat

VARIABLES
  now,               \* time.time()
  vlm,               \* settings.vlm_enabled
  requests,          \* VerificationRequests
  store,             \* tokens of the four stores, in the order they were minted
  claims,            \* MarketplaceClaims
  merchandise_dataset, merchandise_seller,
  ingested,          \* app.state.ingested
  pending,           \* handlers that run
  page,              \* the page each request was made for
  served,            \* history: replies of /platform/data
  audit,             \* history: allow records
  failures           \* audit writes that have raised

accessVars == <<now, vlm, requests, store, claims, merchandise_dataset, merchandise_seller,
                ingested, pending, page, served, audit, failures>>

NoToken == 0
NoClaim == 0
Unanswered == [known |-> FALSE, verified |-> FALSE, token |-> NoToken]

-----------------------------------------------------------------------------
(***************************************************************************)
(* Credentials, by what their claims say.                                  *)
(***************************************************************************)

\* allowed_purposes of an offer; a SellerVC keeps its licensed datasets in the same field.
Offered(kind, d, purpose) ==
  CASE kind = "ConsentVC" -> IF d \in DOMAIN DefaultPurposes THEN DefaultPurposes[d] ELSE {purpose}
    [] kind \in {"ViewerVC", "PurchaseViewerVC"} -> {"read"}
    [] kind = "ServiceVC" -> {"write_continuous"}
    [] OTHER -> {}

\* The claims a credential is issued with; a ViewerVC, and a PurchaseViewerVC of an offer
\* without a claim, has no allowed_views.
PlainClaims(kind, d, allowed, claim, holder) ==
  [kind |-> kind, dataset |-> d, allowed |-> allowed, claim |-> claim, holder |-> holder,
   views |-> IF claim = NoClaim THEN {} ELSE claims[claim].views]

Credentials ==
  {PlainClaims(k, d, Offered(k, d, p), NoClaim, NoSeller) :
     k \in DatasetKinds, d \in Datasets, p \in AskedPurposes}
  \cup {PlainClaims("PurchaseViewerVC", claims[c].dataset, {"read"}, c, NoSeller) : c \in DOMAIN claims}
  \cup {PlainClaims("SellerVC", AnyDataset, l, NoClaim, s) :
          l \in Licences, s \in Sellers}
  \cup {PlainClaims("DataUserVC", AnyDataset, {}, NoClaim, NoSeller)}

-----------------------------------------------------------------------------
(***************************************************************************)
(* The token stores.                                                       *)
(***************************************************************************)

Mint(kind, scope, holder, views, ttl, r, vc) ==
  Append(store, [kind |-> kind, scope |-> scope, holder |-> holder, views |-> views,
                 expires_at |-> now + ttl, uses |-> 0, vc |-> vc, request |-> r])

create_policy_token(d, r, vc) == Mint("policy", {d}, NoSeller, {}, PolicyTTL, r, vc)
\* Mutant of create_viewer_token: no views mean no restriction.
create_unrestricted_token(d, views, r, vc) ==
  Mint("viewer", {d}, NoSeller, IF views = {} THEN AllViews ELSE views, ViewerTTL, r, vc)

create_viewer_token(d, views, r, vc) ==
  Mint("viewer", {d}, NoSeller, IF views = {} THEN {"event"} ELSE views, ViewerTTL, r, vc)
create_service_token(d, r, vc) == Mint("service", {d}, NoSeller, {}, ServiceTTL, r, vc)
create_seller_token(licensed, seller, r, vc) == Mint("seller", licensed, seller, {}, SellerTTL, r, vc)

\* Why a token of one of the stores may not be used for a dataset; "ok" when it may.
Reason(kind, t, d) ==
  CASE t = NoToken \/ store[t].kind # kind -> "unknown"
    [] OTHER -> IF now > store[t].expires_at THEN "expired"
                ELSE IF kind = "policy" /\ store[t].uses > 0 THEN "already_consumed"
                ELSE IF d \notin store[t].scope THEN "mismatch" ELSE "ok"

\* Mutant of consume_policy_token: a token is found as long as it has not expired.
consume_again(t, d) == IF Reason("policy", t, d) = "already_consumed" THEN "ok" ELSE Reason("policy", t, d)

\* Mutant of use_seller_token: a seller may register any dataset.
use_any_dataset(t, d) == IF Reason("seller", t, d) = "mismatch" THEN "ok" ELSE Reason("seller", t, d)

consume_policy_token(t, d) == Reason("policy", t, d)
use_viewer_token(t, d) == Reason("viewer", t, d)
use_service_token(t, d) == Reason("service", t, d)
use_seller_token(t, d) == Reason("seller", t, d)

Count(t) == store' = [store EXCEPT ![t].uses = @ + 1]
Countable(t) == t # NoToken => store[t].uses < MaxUses

\* A write to the audit database; when it raises, the handler ends with a 500.
Audited(rec) == audit' = audit \cup {rec} /\ UNCHANGED failures
AuditRaises == failures < MaxAuditFailures /\ failures' = failures + 1 /\ UNCHANGED audit

\* The handlers that run, each on a worker of its own.
FreeWorker == CHOOSE w \in 1..MaxPending : \A p \in pending : p.worker # w
Start(op) == Cardinality(pending) < MaxPending /\ pending' = pending \cup {op}
Finish(op) == pending' = pending \ {op}
-----------------------------------------------------------------------------
(***************************************************************************)
(* Verification requests.                                                  *)
(***************************************************************************)

\* The definition of a request, or none.
find_for_dataset(d, kind) == Definitions \cap {<<kind, d>>}

\* The pages ask for the kinds of PageKinds.  On a desktop they then show a QR code and poll, on
\* a mobile the wallet takes over.
bootstrap(kind) == IF kind \in PageKinds THEN {"polling", "away"} ELSE {"none"}

\* GET /verifier/request.  Bound: no request is made that could not expire within MaxTime.
verifier_request(kind, d, purpose) ==
  /\ Len(requests) < MaxRequests /\ now + RequestTTL < MaxTime
  /\ kind \in DatasetKinds => d # AnyDataset
  /\ find_for_dataset(d, kind) # {}
  /\ requests' = Append(requests, [kind |-> kind, dataset |-> d, purpose |-> purpose,
                                   created_at |-> now, result |-> Unanswered])
  /\ \E start \in bootstrap(kind) : page' = Append(page, start)
  /\ UNCHANGED <<now, vlm, store, claims, merchandise_dataset, merchandise_seller,
                 ingested, pending, served, audit, failures>>

Findable(r) == now - requests[r].created_at <= RequestTTL

\* What the wallet is asked for: the type, and for the kinds that have one the dataset.
request_object(req) == [kind |-> req.kind, dataset |-> IF req.kind \in DatasetKinds THEN req.dataset ELSE AnyDataset]

MatchesDefinition(req, vc) == vc.kind = request_object(req).kind /\ vc.dataset = request_object(req).dataset

\* What the kind requires besides.
KindAllows(req, vc) ==
  CASE req.kind \in {"ViewerVC", "PurchaseViewerVC"} -> "read" \in vc.allowed
    [] req.kind = "ServiceVC" -> "write_continuous" \in vc.allowed
    [] req.kind = "SellerVC" -> vc.allowed # {}
    [] req.kind = "ConsentVC" -> req.purpose \in vc.allowed
    [] OTHER -> TRUE

\* Verification by the publisher itself, which knows definition and kind.
LocalPexFallback(req, vc) == MatchesDefinition(req, vc) /\ KindAllows(req, vc)

\* Verification by the sidecar, which knows the definition only and may refuse for reasons
\* of its own.
Sidecar(req, vc) == {FALSE} \cup {MatchesDefinition(req, vc)}

\* Mutant of BeltAndBraces: the sidecar is trusted with purposes.
DatasetOnly(req, vc) == req.kind \in DatasetKinds => vc.dataset = req.dataset

\* The claim of a credential that says what it allows.
AllowedClaim(kind) ==
  CASE kind \in {"ViewerVC", "PurchaseViewerVC", "ServiceVC"} -> "allowed_actions"
    [] kind = "SellerVC" -> "licensed_datasets"
    [] kind = "ConsentVC" -> "allowed_purposes"
    [] OTHER -> "none"

\* The handler's own check of what either of them let through.  A claim that is not there is
\* let pass, except a seller's.
BeltAndBraces(req, vc) ==
  /\ req.kind \in DatasetKinds => vc.dataset \in {AnyDataset, req.dataset}
  /\ req.kind = "SellerVC" \/ AllowedClaim(vc.kind) = AllowedClaim(req.kind) => KindAllows(req, vc)

\* POST /verifier/response up to the record of the verdict: the sidecar answers, or is down
\* and the publisher answers itself.
verifier_response(r, vc) ==
  LET req == requests[r]
  IN  /\ Findable(r)
      /\ \E verified \in {LocalPexFallback(req, vc)} \cup Sidecar(req, vc) :
           LET allowed == verified /\ BeltAndBraces(req, vc)
           IN  Start([op |-> "verified", worker |-> FreeWorker, request |-> r, vc |-> IF allowed THEN {vc} ELSE {}])
      /\ UNCHANGED <<now, vlm, requests, store, claims, merchandise_dataset, merchandise_seller,
                     ingested, page, served, audit, failures>>

Result(verified, token) == [known |-> TRUE, verified |-> verified, token |-> token]

\* The handler records the verdict, then writes the audit record.
record_verification_result(p) ==
  /\ p \in pending /\ p.op = "verified"
  /\ requests' = [requests EXCEPT ![p.request].result = Result(p.vc # {}, NoToken)]
  /\ \/ /\ IF p.vc # {} THEN Audited([topic |-> "oid4vp/response", request |-> p.request])
                         ELSE UNCHANGED <<audit, failures>>
        /\ pending' = (pending \ {p}) \cup {[p EXCEPT !.op = "recorded"]}
     \/ AuditRaises /\ Finish(p)
  /\ UNCHANGED <<now, vlm, store, claims, merchandise_dataset, merchandise_seller,
                 ingested, page, served>>

\* The token for each kind of request, or no token for a DataUserVC.
MintFor(r, vc) ==
  LET req == requests[r]
  IN  CASE req.kind \in {"ViewerVC", "PurchaseViewerVC"} -> create_viewer_token(req.dataset, vc.views, r, vc)
        [] req.kind = "SellerVC" -> create_seller_token(vc.allowed, vc.holder, r, vc)
        [] req.kind = "ServiceVC" -> create_service_token(req.dataset, r, vc)
        [] req.kind = "ConsentVC" -> create_policy_token(req.dataset, r, vc)
        [] OTHER -> store

\* Mutant of mint_token: the token is announced before it is stored, and its storing forgotten.
mint_token_unsaved(p) ==
  /\ p \in pending /\ p.op = "recorded"
  /\ \E vc \in p.vc :
       requests' = [requests EXCEPT ![p.request].result = Result(TRUE, Len(MintFor(p.request, vc)))]
  /\ Finish(p)
  /\ UNCHANGED <<now, vlm, store, claims, merchandise_dataset, merchandise_seller,
                 ingested, page, served, audit, failures>>

\* The rest of the handler: the token, and for the kinds a page waits for, a second record
\* that carries it; a denial is recorded again with its message.
mint_token(p) ==
  /\ p \in pending /\ p.op = "recorded"
  /\ \/ /\ p.vc = {}
        /\ requests' = [requests EXCEPT ![p.request].result = Result(FALSE, NoToken)]
        /\ UNCHANGED store
     \/ \E vc \in p.vc :
          /\ Len(store) < MaxTokens[requests[p.request].kind]
          /\ store' = MintFor(p.request, vc)
          /\ requests' = IF requests[p.request].kind \in PageKinds
                           THEN [requests EXCEPT ![p.request].result = Result(TRUE, Len(store) + 1)]
                           ELSE requests
  /\ Finish(p)
  /\ UNCHANGED <<now, vlm, claims, merchandise_dataset, merchandise_seller,
                 ingested, page, served, audit, failures>>

\* GET /verifier/status.
verifier_status(r) == [status |-> IF Findable(r) THEN 200 ELSE 404, result |-> requests[r].result]

\* Mutant of poll: the page takes a request that is not found for one not yet answered.
poll_on(r) ==
  /\ page[r] = "polling" /\ Findable(r) /\ requests[r].result.token # NoToken
  /\ page' = [page EXCEPT ![r] = "done"]
  /\ UNCHANGED <<now, vlm, requests, store, claims, merchandise_dataset, merchandise_seller,
                 ingested, pending, served, audit, failures>>

\* One poll by the page: a token moves it on, a denial ends it, and so does a request the
\* publisher no longer finds.
poll(r) ==
  LET answer == verifier_status(r)
      result == answer.result
      next == CASE answer.status = 404 -> "expired"
                [] answer.status = 200 /\ result.token # NoToken -> "done"
                [] answer.status = 200 /\ result.known /\ ~result.verified -> "denied"
                [] OTHER -> "polling"
  IN  /\ page[r] = "polling"
      /\ page' = [page EXCEPT ![r] = next]
      /\ UNCHANGED <<now, vlm, requests, store, claims, merchandise_dataset, merchandise_seller,
                     ingested, pending, served, audit, failures>>

\* On a mobile, the answer to a presentation that was accepted sends the browser back: the
\* buyer's to the rows, the seller's to a page that polls for the token.
redirect(r) ==
  /\ page[r] = "away" /\ \E t \in DOMAIN store : store[t].request = r
  /\ page' = [page EXCEPT ![r] = IF requests[r].kind = "SellerVC" THEN "polling" ELSE "done"]
  /\ UNCHANGED <<now, vlm, requests, store, claims, merchandise_dataset, merchandise_seller,
                 ingested, pending, served, audit, failures>>
-----------------------------------------------------------------------------
(***************************************************************************)
(* Writing rows.                                                           *)
(***************************************************************************)

\* Mutant of platform_ingest: what the audit database says is ignored.
platform_ingest_anyway(t, d) ==
  /\ t \in DOMAIN store /\ Countable(t)
  /\ consume_policy_token(t, d) = "ok"
  /\ Count(t)
  /\ Audited([topic |-> "platform/ingest", token |-> t, dataset |-> d]) \/ AuditRaises
  /\ Start([op |-> "append", worker |-> FreeWorker, token |-> t, dataset |-> d, at |-> now])
  /\ UNCHANGED <<now, vlm, requests, claims, merchandise_dataset, merchandise_seller,
                 ingested, page, served>>

\* POST /platform/ingest with a bearer token: the policy store first, the service store only
\* for a token unknown there; then the audit record, which may raise.
platform_ingest(t, d) ==
  /\ t \in DOMAIN store /\ Countable(t)
  /\ \/ consume_policy_token(t, d) = "ok"
     \/ consume_policy_token(t, d) = "unknown" /\ use_service_token(t, d) = "ok"
  /\ Count(t)
  /\ \/ /\ Audited([topic |-> "platform/ingest", token |-> t, dataset |-> d])
        /\ Start([op |-> "append", worker |-> FreeWorker, token |-> t, dataset |-> d, at |-> now])
     \/ AuditRaises /\ UNCHANGED pending
  /\ UNCHANGED <<now, vlm, requests, claims, merchandise_dataset, merchandise_seller,
                 ingested, page, served>>

\* The end of the handler.
append_row(p) ==
  /\ p \in pending /\ p.op = "append"
  /\ Len(ingested) < MaxRows
  /\ ingested' = Append(ingested, [dataset |-> p.dataset, token |-> p.token, at |-> p.at])
  /\ Finish(p)
  /\ UNCHANGED <<now, vlm, requests, store, claims, merchandise_dataset, merchandise_seller,
                 page, served, audit, failures>>

\* POST /platform/ingest without an authorization header, the way of the pipeline.
ingest_legacy(d) ==
  /\ Len(ingested) < MaxRows
  /\ ingested' = Append(ingested, [dataset |-> d, token |-> NoToken, at |-> now])
  /\ UNCHANGED <<now, vlm, requests, store, claims, merchandise_dataset, merchandise_seller,
                 pending, page, served, audit, failures>>
-----------------------------------------------------------------------------
(***************************************************************************)
(* Reading rows.                                                           *)
(***************************************************************************)

\* The keys of a row, each named by the view it needs; those of the event itself need none.
Project(views) == {"event"} \cup (AllViews \cap views)

\* GET /platform/data: the token, then the rows of its dataset, projected.
platform_data(t, d) ==
  /\ t \in DOMAIN store /\ Countable(t)
  /\ use_viewer_token(t, d) = "ok"
  /\ Count(t)
  /\ \/ /\ Audited([topic |-> "platform/data", token |-> t, dataset |-> d])
        /\ served' = served \cup
             {[token |-> t, dataset |-> ingested[i].dataset, keys |-> Project(store[t].views)] :
                i \in {j \in DOMAIN ingested : ingested[j].dataset = d}}
     \/ AuditRaises /\ UNCHANGED served
  /\ UNCHANGED <<now, vlm, requests, claims, merchandise_dataset, merchandise_seller,
                 ingested, pending, page>>

\* The same for ?merchandise=, whose dataset is looked up among the claims.
platform_data_of(t, m) ==
  /\ merchandise_dataset[m] \in Datasets
  /\ platform_data(t, merchandise_dataset[m])
-----------------------------------------------------------------------------
(***************************************************************************)
(* Purchases and sellers.                                                  *)
(***************************************************************************)

\* POST /marketplace/claim for a new transaction, with or without the buyer's attributes
\* (PurchaseDelivery has its offer, its retries and its credential).
marketplace_claim(m, d, attrs) ==
  LET level == AccessLevel(CHOOSE a \in attrs : TRUE, vlm)
      views == IF attrs = {} THEN {} ELSE Views(level, vlm)
  IN  /\ Len(claims) < MaxClaims
      /\ claims' = Append(claims, [dataset |-> d, attrs |-> attrs,
                                   views |-> IF views = {} THEN {"event"} ELSE views])
      /\ merchandise_dataset' = [merchandise_dataset EXCEPT ![m] = d]
      /\ UNCHANGED <<now, vlm, requests, store, merchandise_seller, ingested, pending, page,
                     served, audit, failures>>

\* POST /marketplace/register up to the call that asks the chain for the contract's owner.
use_for_registration(t, m, d) ==
  /\ t \in DOMAIN store /\ Countable(t)
  /\ use_seller_token(t, d) = "ok"
  /\ Count(t)
  /\ Start([op |-> "owner", worker |-> FreeWorker, token |-> t, merchandise |-> m, dataset |-> d, at |-> now])
  /\ UNCHANGED <<now, vlm, requests, claims, merchandise_dataset, merchandise_seller,
                 ingested, page, served, audit, failures>>

\* The rest: refused when the chain does not answer or names another owner, else bound and
\* then audited.
marketplace_register(p) ==
  /\ p \in pending /\ p.op = "owner"
  /\ Finish(p)
  /\ \/ UNCHANGED <<merchandise_seller, audit, failures>>
     \/ /\ merchandise_seller' = [merchandise_seller EXCEPT ![p.merchandise] =
                                    [seller |-> store[p.token].holder, token |-> p.token,
                                     dataset |-> p.dataset, at |-> p.at]]
        /\ \/ Audited([topic |-> "marketplace/seller_registered", token |-> p.token])
           \/ AuditRaises
  /\ UNCHANGED <<now, vlm, requests, store, claims, merchandise_dataset, ingested, page, served>>
-----------------------------------------------------------------------------
Tick == /\ now < MaxTime
        /\ now' = now + 1
        /\ UNCHANGED <<vlm, requests, store, claims, merchandise_dataset, merchandise_seller,
                       ingested, pending, page, served, audit, failures>>

NoBinding == [seller |-> NoSeller, token |-> NoToken, dataset |-> AnyDataset, at |-> 0]

AccessInit ==
  /\ now = 0 /\ vlm \in VlmSettings
  /\ requests = <<>> /\ store = <<>> /\ claims = <<>> /\ ingested = <<>> /\ page = <<>>
  /\ merchandise_dataset = [m \in Merchandises |-> AnyDataset]
  /\ merchandise_seller = [m \in Merchandises |-> NoBinding]
  /\ pending = {} /\ served = {} /\ audit = {} /\ failures = 0

Responding == \E p \in pending : record_verification_result(p) \/ mint_token(p)

AccessNext ==
  \/ \E k \in Kinds, d \in Datasets \cup {AnyDataset} :
       \E p \in IF k = "ConsentVC" THEN AskedPurposes ELSE {"read"} : verifier_request(k, d, p)
  \/ \E r \in DOMAIN requests : \/ \E vc \in Credentials : verifier_response(r, vc)
                                \/ poll(r) \/ redirect(r)
  \/ Responding
  \/ \E t \in DOMAIN store, d \in Datasets : platform_ingest(t, d) \/ platform_data(t, d)
  \/ \E p \in pending : append_row(p) \/ marketplace_register(p)
  \/ \E d \in Datasets : ingest_legacy(d)
  \/ \E t \in DOMAIN store, m \in Merchandises : platform_data_of(t, m)
  \/ \E m \in Merchandises, d \in Bought, attrs \in Users : marketplace_claim(m, d, attrs)
  \/ \E t \in DOMAIN store, m \in Merchandises, d \in Datasets : use_for_registration(t, m, d)
  \/ Tick

AccessSpec == AccessInit /\ [][AccessNext]_accessVars

AccessFairness == /\ WF_accessVars(Tick)
                  /\ \A r \in 1..MaxRequests : WF_accessVars(r \in DOMAIN requests /\ poll(r))

-----------------------------------------------------------------------------
(***************************************************************************)
(* Properties.                                                             *)
(***************************************************************************)

Credential == [kind : Kinds, dataset : Datasets \cup {AnyDataset}, views : SUBSET AllViews,
               allowed : SUBSET (Datasets \cup AskedPurposes \cup {"read", "write_continuous"}
                                  \cup UNION {DefaultPurposes[d] : d \in DOMAIN DefaultPurposes}),
               claim : 0..MaxClaims, holder : Sellers \cup {NoSeller}]

\* The state of the publisher's stores and of the handlers that run.
AccessTypeOK ==
  /\ now \in 0..MaxTime /\ vlm \in BOOLEAN /\ failures \in 0..MaxAuditFailures
  /\ \A r \in DOMAIN requests :
       /\ requests[r].kind \in Kinds /\ requests[r].created_at \in 0..now
       /\ requests[r].result.token \in 0..Len(store)
  /\ \A t \in DOMAIN store :
       /\ store[t].kind \in {"policy", "viewer", "service", "seller"}
       /\ store[t].scope \in (SUBSET Datasets) \ {{}}
       /\ store[t].views \subseteq AllViews
       /\ store[t].uses \in 0..MaxUses /\ store[t].vc \in Credential
  /\ \A p \in pending : p.op \in {"verified", "recorded", "append", "owner"}
  /\ DOMAIN page = DOMAIN requests
  /\ \A r \in DOMAIN page : page[r] \in {"none", "away", "polling", "done", "denied", "expired"}

\* Every token was minted on a credential that grants what the token grants: of the kind and
\* dataset the request asked for, for its purpose when it is a consent, with the credential's
\* datasets, and with no view that the credential does not name, unless it names none: then a
\* viewer token opens the events (verifier_response, whichever of sidecar and fallback answered it).
TokensBacked ==
  \A t \in DOMAIN store :
    LET req == requests[store[t].request]
        vc  == store[t].vc
    IN  /\ vc.kind = req.kind
        /\ req.kind \in DatasetKinds => vc.dataset = req.dataset /\ store[t].scope = {vc.dataset}
        /\ req.kind = "ConsentVC" => req.purpose \in vc.allowed
        /\ req.kind = "SellerVC" => store[t].scope \subseteq vc.allowed /\ store[t].holder = vc.holder
        /\ store[t].views \subseteq vc.views \/ (vc.views = {} /\ store[t].views = {"event"})

\* A row stored under a token lies in the token's dataset and was let in before the token
\* expired, and a policy token lets in one row at most, whatever requests present it at once
\* (platform_ingest, consume_policy_token).
WritesAuthorised ==
  \A t \in DOMAIN store :
    LET rows == {i \in DOMAIN ingested : ingested[i].token = t}
        soon == {p \in pending : p.op = "append" /\ p.token = t}
    IN  /\ \A i \in rows : /\ store[t].kind \in {"policy", "service"}
                          /\ ingested[i].dataset \in store[t].scope
                          /\ ingested[i].at <= store[t].expires_at
        /\ store[t].kind = "policy" => Cardinality(rows) + Cardinality(soon) <= 1

\* No row is stored under a token, and none is about to be, that the audit log does not
\* tell of, although the audit database may refuse a write at any moment (platform_ingest).
RowsAudited ==
  /\ \A i \in DOMAIN ingested : ingested[i].token # NoToken =>
       [topic |-> "platform/ingest", token |-> ingested[i].token, dataset |-> ingested[i].dataset] \in audit
  /\ \A p \in pending : p.op = "append" =>
       [topic |-> "platform/ingest", token |-> p.token, dataset |-> p.dataset] \in audit

\* The views of the access level that the attributes a credential was bought with give.
TierViews(vc) ==
  UNION {Views(AccessLevel(a, vlm), vlm) : a \in IF vc.claim = NoClaim THEN {} ELSE claims[vc.claim].attrs}

\* What a buyer ever reads is of the dataset bought, and no image, video or description of it
\* goes beyond the views of the access level the buyer's attributes had when the purchase was
\* claimed (marketplace_claim, the credential, verifier_response, use_viewer_token and the
\* projection of platform_data).  Of the events it says nothing: see DeniedReadNothing.
MediaWithinTier ==
  \A s \in served :
    LET vc == store[s.token].vc
    IN  s.dataset = vc.dataset /\ s.keys \ {"event"} \subseteq TierViews(vc)

\* What trust_score.py says of its lowest level: it has no views ("denied -> []", lines 12 and
\* 22), since "the claim is still rejected outright" (line 62).  A buyer whose attributes were
\* evaluated reads no key, events included, beyond the views of the level they gave.
DeniedReadNothing ==
  \A s \in served :
    LET vc == store[s.token].vc
    IN  vc.claim # NoClaim /\ claims[vc.claim].attrs # {} => s.keys \subseteq TierViews(vc)

\* A contract is bound only to the holder of a seller token that licenses the dataset it was
\* registered for, checked before the token expired, and the use is counted although
\* other registrations and uploads ran between check and binding (marketplace_register).
BindingsLicensed ==
  \A m \in Merchandises : merchandise_seller[m].seller # NoSeller =>
    LET b == merchandise_seller[m]
    IN  /\ b.token \in DOMAIN store /\ store[b.token].kind = "seller"
        /\ b.dataset \in store[b.token].vc.allowed /\ b.seller = store[b.token].vc.holder
        /\ b.at <= store[b.token].expires_at
        /\ Cardinality({n \in Merchandises : merchandise_seller[n].token = b.token}) <= store[b.token].uses

\* A page that shows a QR code does not poll for ever: it ends with a token, a denial, or
\* the expiry of the request, also when a handler died between verdict and token.
PagesEnd ==
  \A r \in 1..MaxRequests :
    (r \in DOMAIN page /\ page[r] = "polling") ~> (r \in DOMAIN page /\ page[r] # "polling")
=================================================================================
