-------------------------- MODULE AccessTokensProofs --------------------------
(***************************************************************************)
(* Proofs about AccessTokens, for any datasets, sellers, users and bounds, *)
(* and, at the end, about DataUsers.                                       *)
(*                                                                         *)
(* Handlers come back to the stores after others had them: the inductive   *)
(* invariant says of every handler that runs what it has checked and still *)
(* relies on, and StepKeeps why it may: the stores only grow.              *)
(***************************************************************************)
EXTENDS AccessTokens, DataUsers, SequenceTheorems, FiniteSetTheorems, TLAPS

VerificationRequest == [kind: Kinds, dataset: Datasets \cup {AnyDataset}, purpose: AskedPurposes \cup {"read"},
                        created_at: Nat, result: [known: BOOLEAN, verified: BOOLEAN, token: Nat]]
Token == [kind: {"policy", "viewer", "service", "seller"}, scope: SUBSET Datasets,
          holder: Sellers \cup {NoSeller}, views: SUBSET AllViews, expires_at: Nat, uses: Nat,
          vc: Credential, request: Nat]
MarketplaceClaim == [dataset: Datasets, attrs: SUBSET Attributes, views: SUBSET AllViews]
Row == [dataset: Datasets, token: Nat, at: Nat]
Binding == [seller: Sellers \cup {NoSeller}, token: Nat, dataset: Datasets \cup {AnyDataset}, at: Nat]
PageStates == {"none", "away", "polling", "done", "denied", "expired"}

\* Every variable has its type; handlers differ, and are described by HandlerOK.
Types ==
  /\ now \in 0..MaxTime /\ vlm \in BOOLEAN /\ failures \in 0..MaxAuditFailures
  /\ requests \in Seq(VerificationRequest)
  /\ \A r \in DOMAIN requests :
       /\ requests[r].created_at <= now /\ requests[r].result.token <= Len(store)
       /\ requests[r].kind \in DatasetKinds => requests[r].dataset \in Datasets
  /\ store \in Seq(Token)
  /\ claims \in Seq(MarketplaceClaim) /\ Len(claims) <= MaxClaims
  /\ merchandise_dataset \in [Merchandises -> Datasets \cup {AnyDataset}]
  /\ merchandise_seller \in [Merchandises -> Binding]
  /\ ingested \in Seq(Row)
  /\ page \in Seq(PageStates) /\ Len(page) = Len(requests)
  /\ IsFiniteSet(pending)

\* A credential whose claim is the one it was issued for.
Granted(vc) == /\ vc.claim \in 0..Len(claims)
               /\ vc.views = IF vc.claim = NoClaim THEN {} ELSE claims[vc.claim].views
               /\ vc.kind = "SellerVC" => vc.allowed \in (SUBSET Datasets) \ {{}}

\* A credential that a request asks for.
Answers(r, vc) == /\ vc \in Credential /\ Granted(vc)
                  /\ vc.kind = requests[r].kind
                  /\ requests[r].kind \in DatasetKinds => vc.dataset = requests[r].dataset
                  /\ requests[r].kind = "ConsentVC" => requests[r].purpose \in vc.allowed

IngestRecord(t, d) == [topic |-> "platform/ingest", token |-> t, dataset |-> d]

\* What a handler that runs has made sure of, and what it leaves behind shows.
MayUse(p, kinds) == /\ p.token \in DOMAIN store /\ store[p.token].kind \in kinds
                    /\ p.dataset \in store[p.token].scope /\ p.at \in Nat
                    /\ p.at <= store[p.token].expires_at
HandlerOK(p) ==
  \/ /\ p.op \in {"verified", "recorded"} /\ p.request \in DOMAIN requests
     /\ DOMAIN p = {"op", "worker", "request", "vc"}
     /\ \A vc \in p.vc : Answers(p.request, vc)
  \/ p.op = "append" /\ MayUse(p, {"policy", "service"}) /\ IngestRecord(p.token, p.dataset) \in audit
  \/ p.op = "owner" /\ MayUse(p, {"seller"})
HandlersOK == \A p \in pending : HandlerOK(p)

\* Views that a credential names, or the events where it names none.
OpensNoMore(views, vc) == views \subseteq vc.views \/ (vc.views = {} /\ views = {"event"})

\* A token is what its credential grants.
TokenOK(t) ==
  LET kind == requests[store[t].request].kind
  IN  /\ store[t].request \in DOMAIN requests /\ Answers(store[t].request, store[t].vc)
      /\ store[t].kind = CASE kind = "ConsentVC" -> "policy" [] kind = "ServiceVC" -> "service"
                           [] kind = "SellerVC" -> "seller" [] OTHER -> "viewer"
      /\ kind # "DataUserVC"
      /\ kind \in DatasetKinds => store[t].scope = {store[t].vc.dataset}
      /\ kind = "SellerVC" => store[t].scope = store[t].vc.allowed /\ store[t].holder = store[t].vc.holder
      /\ OpensNoMore(store[t].views, store[t].vc)
      /\ store[t].scope # {} /\ store[t].uses <= MaxUses
      /\ store[t].kind = "policy" => store[t].uses <= 1
TokensOK == \A t \in DOMAIN store : TokenOK(t)

\* Views are of the level of the buyer's attributes.
ViewsOf(attrs) == {"event"} \cup UNION {Views(AccessLevel(a, vlm), vlm) : a \in attrs}
ClaimsOK == \A c \in DOMAIN claims : claims[c].views \subseteq ViewsOf(claims[c].attrs)

\* The uses of a token are the rows and the bindings it let in, and the ones it is about to.
Rows(t) == {i \in DOMAIN ingested : ingested[i].token = t}
Running(op, t) == {p \in pending : p.op = op /\ p.token = t}
BoundBy(t) == {m \in Merchandises : merchandise_seller[m].token = t}
RowsOK ==
  /\ \A i \in DOMAIN ingested : ingested[i].token # NoToken =>
       /\ MayUse(ingested[i], {"policy", "service"})
       /\ IngestRecord(ingested[i].token, ingested[i].dataset) \in audit
  /\ \A t \in DOMAIN store : Cardinality(Rows(t)) + Cardinality(Running("append", t)) <= store[t].uses
BindingsOK ==
  /\ \A m \in Merchandises : merchandise_seller[m].token # NoToken =>
       LET b == merchandise_seller[m]
       IN  MayUse(b, {"seller"}) /\ b.seller = store[b.token].holder
  /\ \A m \in Merchandises : merchandise_seller[m].token = NoToken => merchandise_seller[m].seller = NoSeller
  /\ \A t \in DOMAIN store : /\ IsFiniteSet(BoundBy(t))
                            /\ Cardinality(BoundBy(t)) + Cardinality(Running("owner", t)) <= store[t].uses
ServedOK == MediaWithinTier /\ \A s \in served : s.token \in DOMAIN store

AccessInv == Types /\ HandlersOK /\ TokensOK /\ ClaimsOK /\ RowsOK /\ BindingsOK /\ ServedOK
-----------------------------------------------------------------------------
\* The bounds are numbers.
LEMMA Bounds ==
  /\ {MaxTime, MaxClaims, MaxUses, MaxAuditFailures} \subseteq Nat
  /\ {RequestTTL, PolicyTTL, ViewerTTL, ServiceTTL, SellerTTL} \subseteq Nat
  BY AccessAssumption DEF AccessAssumption

\* The views of a level are views.
LEMMA ViewsTyped == ASSUME NEW level, NEW v \in BOOLEAN PROVE Views(level, v) \subseteq AllViews
  BY DEF Views, VlmViews, LegacyViews, AllViews

\* What the types say of the sequences.
LEMMA Shapes ==
  ASSUME Types
  PROVE  /\ Len(requests) \in Nat /\ DOMAIN requests = 1..Len(requests) /\ DOMAIN page = DOMAIN requests
         /\ \A r \in DOMAIN requests : requests[r] \in VerificationRequest
         /\ Len(store) \in Nat /\ DOMAIN store = 1..Len(store)
         /\ \A t \in DOMAIN store : store[t] \in Token
         /\ Len(claims) \in Nat /\ DOMAIN claims = 1..Len(claims)
         /\ \A c \in DOMAIN claims : claims[c] \in MarketplaceClaim
         /\ Len(ingested) \in Nat /\ DOMAIN ingested = 1..Len(ingested)
         /\ \A i \in DOMAIN ingested : ingested[i] \in Row
         /\ now \in Nat
  BY Bounds DEF Types

\* Every credential a wallet may hold grants what it was issued for.
LEMMA CredentialsTyped ==
  ASSUME Types, NEW vc \in Credentials
  PROVE  vc \in Credential /\ Granted(vc)
<1>a. /\ {} \in SUBSET AllViews /\ NoClaim \in 0..MaxClaims /\ NoClaim \in 0..Len(claims)
      /\ NoSeller \in Sellers \cup {NoSeller}
  BY Bounds, Shapes DEF NoClaim
<1> DEFINE Allowed == SUBSET (Datasets \cup AskedPurposes \cup {"read", "write_continuous"}
                               \cup UNION {DefaultPurposes[d] : d \in DOMAIN DefaultPurposes})
<1>1. ASSUME NEW k \in DatasetKinds, NEW d \in Datasets, NEW p \in AskedPurposes,
             vc = PlainClaims(k, d, Offered(k, d, p), NoClaim, NoSeller)
      PROVE  vc \in Credential /\ Granted(vc)
  <2>1. Offered(k, d, p) \in Allowed
    BY DEF Offered
  <2>2. k \in Kinds /\ k # "SellerVC"
    BY DEF DatasetKinds
  <2>3. /\ vc = [kind |-> k, dataset |-> d, allowed |-> Offered(k, d, p), claim |-> NoClaim,
                 holder |-> NoSeller, views |-> {}]
    BY <1>1 DEF PlainClaims
  <2>4. QED
    BY <1>a, <2>1, <2>2, <2>3 DEF Credential, Granted
<1>2. ASSUME NEW c \in DOMAIN claims,
             vc = PlainClaims("PurchaseViewerVC", claims[c].dataset, {"read"}, c, NoSeller)
      PROVE  vc \in Credential /\ Granted(vc)
  <2>1. claims[c].dataset \in Datasets /\ claims[c].views \subseteq AllViews
    BY Shapes DEF MarketplaceClaim
  <2>2. c # NoClaim /\ c \in 0..MaxClaims /\ c \in 0..Len(claims)
    BY Shapes, Bounds DEF NoClaim, Types
  <2>3. vc = [kind |-> "PurchaseViewerVC", dataset |-> claims[c].dataset, allowed |-> {"read"}, claim |-> c,
              holder |-> NoSeller, views |-> claims[c].views]
    BY <1>2, <2>2 DEF PlainClaims
  <2>4. "PurchaseViewerVC" \in Kinds /\ {"read"} \in Allowed
    BY DEF Kinds
  <2>5. QED
    BY <1>a, <2>1, <2>2, <2>3, <2>4 DEF Credential, Granted
<1>3. ASSUME NEW l \in Licences, NEW s \in Sellers, vc = PlainClaims("SellerVC", AnyDataset, l, NoClaim, s)
      PROVE  vc \in Credential /\ Granted(vc)
  <2>1. l \in (SUBSET Datasets) \ {{}} /\ l \in Allowed
    BY AccessAssumption DEF AccessAssumption
  <2>2. vc = [kind |-> "SellerVC", dataset |-> AnyDataset, allowed |-> l, claim |-> NoClaim,
              holder |-> s, views |-> {}]
    BY <1>3 DEF PlainClaims
  <2>3. "SellerVC" \in Kinds
    BY DEF Kinds
  <2>4. QED
    BY <1>a, <2>1, <2>2, <2>3 DEF Credential, Granted
<1>4. ASSUME vc = PlainClaims("DataUserVC", AnyDataset, {}, NoClaim, NoSeller)
      PROVE  vc \in Credential /\ Granted(vc)
  <2>1. vc = [kind |-> "DataUserVC", dataset |-> AnyDataset, allowed |-> {}, claim |-> NoClaim,
              holder |-> NoSeller, views |-> {}]
    BY <1>4 DEF PlainClaims
  <2>2. "DataUserVC" \in Kinds /\ {} \in Allowed
    BY DEF Kinds
  <2>3. QED
    BY <1>a, <2>1, <2>2 DEF Credential, Granted
<1>5. QED
  BY <1>1, <1>2, <1>3, <1>4 DEF Credentials

\* Every behaviour starts within the invariant.
LEMMA AccessInitInv == AccessInit => AccessInv
<1> SUFFICES ASSUME AccessInit
             PROVE  AccessInv
  OBVIOUS
<1>1. Types
  <2>1. NoBinding \in Binding /\ AnyDataset \in Datasets \cup {AnyDataset}
    BY DEF NoBinding, Binding, NoToken
  <2>2. IsFiniteSet({})
    BY FS_EmptySet
  <2>3. /\ merchandise_dataset \in [Merchandises -> Datasets \cup {AnyDataset}]
        /\ merchandise_seller \in [Merchandises -> Binding]
    BY <2>1 DEF AccessInit
  <2>4. vlm \in BOOLEAN
    BY AccessAssumption DEF AccessAssumption, AccessInit
  <2>5. QED
    BY <2>2, <2>3, <2>4, Bounds DEF AccessInit, Types
<1>2. HandlersOK /\ TokensOK /\ ClaimsOK /\ RowsOK
  BY DEF AccessInit, HandlersOK, TokensOK, ClaimsOK, RowsOK
<1>3. BindingsOK
  BY DEF AccessInit, BindingsOK, NoBinding
<1>4. ServedOK
  BY DEF AccessInit, ServedOK, MediaWithinTier
<1>5. QED
  BY <1>1, <1>2, <1>3, <1>4 DEF AccessInv
-----------------------------------------------------------------------------
(***************************************************************************)
(* What the stores keep.                                                   *)
(***************************************************************************)

TokenKind(kind) == CASE kind = "ConsentVC" -> "policy" [] kind = "ServiceVC" -> "service"
                     [] kind = "SellerVC" -> "seller" [] OTHER -> "viewer"

\* A credential that answers a request gives a token of the request's kind and dataset.
LEMMA Minted ==
  ASSUME Types, NEW r \in DOMAIN requests, NEW vc, Answers(r, vc), requests[r].kind # "DataUserVC"
  PROVE  \E tok \in Token :
           /\ MintFor(r, vc) = Append(store, tok)
           /\ tok.request = r /\ tok.vc = vc /\ tok.uses = 0
           /\ tok.kind = TokenKind(requests[r].kind)
           /\ requests[r].kind \in DatasetKinds => tok.scope = {vc.dataset}
           /\ requests[r].kind = "SellerVC" => tok.scope = vc.allowed /\ tok.holder = vc.holder
           /\ tok.scope # {} /\ OpensNoMore(tok.views, vc)
<1>a. r \in Nat /\ now \in Nat /\ requests[r] \in VerificationRequest
  BY Shapes
<1>b. /\ now + PolicyTTL \in Nat /\ now + ViewerTTL \in Nat /\ now + ServiceTTL \in Nat /\ now + SellerTTL \in Nat
      /\ NoSeller \in Sellers \cup {NoSeller} /\ 0 \in Nat
  BY <1>a, Bounds
<1>c. /\ vc \in Credential /\ vc.views \subseteq AllViews /\ vc.holder \in Sellers \cup {NoSeller}
      /\ {"event"} \subseteq AllViews /\ {} \subseteq AllViews
  BY DEF Answers, Credential, AllViews
<1>d. requests[r].kind \in DatasetKinds => requests[r].dataset = vc.dataset
  BY DEF Answers
<1>e. requests[r].kind \in DatasetKinds => vc.dataset \in Datasets
  BY <1>d DEF Types
<1>1. CASE requests[r].kind \in {"ViewerVC", "PurchaseViewerVC"}
  <2> DEFINE tok == [kind |-> "viewer", scope |-> {vc.dataset}, holder |-> NoSeller,
                     views |-> IF vc.views = {} THEN {"event"} ELSE vc.views,
                     expires_at |-> now + ViewerTTL, uses |-> 0, vc |-> vc, request |-> r]
  <2>1. requests[r].kind \in DatasetKinds /\ TokenKind(requests[r].kind) = "viewer"
    BY <1>1 DEF DatasetKinds, Kinds, TokenKind
  <2>2. MintFor(r, vc) = Append(store, tok)
    BY <1>1, <1>d, <2>1 DEF MintFor, create_viewer_token, Mint
  <2>3. tok \in Token
    BY <1>a, <1>b, <1>c, <1>e, <2>1 DEF Token
  <2>4. QED
    BY <1>1, <2>1, <2>2, <2>3 DEF OpensNoMore
<1>2. CASE requests[r].kind = "SellerVC"
  <2> DEFINE tok == [kind |-> "seller", scope |-> vc.allowed, holder |-> vc.holder, views |-> {},
                     expires_at |-> now + SellerTTL, uses |-> 0, vc |-> vc, request |-> r]
  <2>1. requests[r].kind \notin DatasetKinds /\ TokenKind(requests[r].kind) = "seller"
    BY <1>2 DEF DatasetKinds, TokenKind
  <2>2. MintFor(r, vc) = Append(store, tok)
    BY <1>2 DEF MintFor, create_seller_token, Mint
  <2>3. vc.allowed \in (SUBSET Datasets) \ {{}}
    BY <1>2 DEF Answers, Granted
  <2>4. tok \in Token
    BY <1>a, <1>b, <1>c, <2>3 DEF Token
  <2>5. /\ tok.request = r /\ tok.vc = vc /\ tok.uses = 0 /\ tok.kind = "seller"
        /\ tok.scope = vc.allowed /\ tok.holder = vc.holder /\ tok.views = {} /\ vc.allowed # {}
    BY <2>3
  <2> HIDE DEF tok
  <2>6. OpensNoMore(tok.views, vc) /\ tok.scope # {}
    BY <2>5 DEF OpensNoMore
  <2>7. QED
    BY <2>1, <2>2, <2>4, <2>5, <2>6
<1>3. CASE requests[r].kind = "ServiceVC"
  <2> DEFINE tok == [kind |-> "service", scope |-> {vc.dataset}, holder |-> NoSeller, views |-> {},
                     expires_at |-> now + ServiceTTL, uses |-> 0, vc |-> vc, request |-> r]
  <2>1. requests[r].kind \in DatasetKinds /\ TokenKind(requests[r].kind) = "service"
    BY <1>3 DEF DatasetKinds, Kinds, TokenKind
  <2>2. MintFor(r, vc) = Append(store, tok)
    BY <1>3, <1>d, <2>1 DEF MintFor, create_service_token, Mint
  <2>3. tok \in Token
    BY <1>a, <1>b, <1>c, <1>e, <2>1 DEF Token
  <2>4. QED
    BY <1>3, <2>1, <2>2, <2>3 DEF OpensNoMore
<1>4. CASE requests[r].kind = "ConsentVC"
  <2> DEFINE tok == [kind |-> "policy", scope |-> {vc.dataset}, holder |-> NoSeller, views |-> {},
                     expires_at |-> now + PolicyTTL, uses |-> 0, vc |-> vc, request |-> r]
  <2>1. requests[r].kind \in DatasetKinds /\ TokenKind(requests[r].kind) = "policy"
    BY <1>4 DEF DatasetKinds, Kinds, TokenKind
  <2>2. MintFor(r, vc) = Append(store, tok)
    BY <1>4, <1>d, <2>1 DEF MintFor, create_policy_token, Mint
  <2>3. tok \in Token
    BY <1>a, <1>b, <1>c, <1>e, <2>1 DEF Token
  <2>4. QED
    BY <1>4, <2>1, <2>2, <2>3 DEF OpensNoMore
<1>5. QED
  BY <1>1, <1>2, <1>3, <1>4, <1>a DEF VerificationRequest, Kinds

\* A use is counted at its token and changes nothing else of it.
LEMMA Counted ==
  ASSUME Types, NEW t \in DOMAIN store, Count(t), store[t].uses < MaxUses
  PROVE  /\ store' \in Seq(Token) /\ Len(store') = Len(store) /\ DOMAIN store' = DOMAIN store
         /\ \A u \in DOMAIN store :
              /\ store'[u].kind = store[u].kind /\ store'[u].scope = store[u].scope
              /\ store'[u].holder = store[u].holder /\ store'[u].views = store[u].views
              /\ store'[u].expires_at = store[u].expires_at
              /\ store'[u].vc = store[u].vc /\ store'[u].request = store[u].request
              /\ store'[u].uses = IF u = t THEN store[u].uses + 1 ELSE store[u].uses
<1>1. store[t] \in Token /\ store \in Seq(Token)
  BY Shapes DEF Types
<1> DEFINE tok == [store[t] EXCEPT !.uses = @ + 1]
<1>a. /\ DOMAIN store[t] = {"kind", "scope", "holder", "views", "expires_at", "uses", "vc", "request"}
      /\ store[t].uses + 1 \in Nat
  BY <1>1 DEF Token
<1>b. tok \in Token
  BY <1>1, <1>a DEF Token
<1>2. /\ tok.uses = store[t].uses + 1 /\ tok.kind = store[t].kind /\ tok.scope = store[t].scope
      /\ tok.holder = store[t].holder /\ tok.views = store[t].views /\ tok.expires_at = store[t].expires_at
      /\ tok.vc = store[t].vc /\ tok.request = store[t].request
  BY <1>a
<1>3. store' = [store EXCEPT ![t] = tok]
  BY DEF Count
<1> HIDE DEF tok
<1>4. store' \in Seq(Token) /\ Len(store') = Len(store) /\ DOMAIN store' = DOMAIN store
  BY <1>1, <1>b, <1>3
<1>5. store'[t] = tok /\ \A u \in DOMAIN store \ {t} : store'[u] = store[u]
  BY <1>1, <1>3
<1>6. QED
  BY <1>2, <1>4, <1>5
\* A sequence with one more element.
LEMMA Appended ==
  ASSUME NEW S, NEW s \in Seq(S), NEW e \in S
  PROVE  /\ Append(s, e) \in Seq(S) /\ Len(Append(s, e)) = Len(s) + 1
         /\ DOMAIN s = 1..Len(s) /\ Len(s) \in Nat
         /\ DOMAIN Append(s, e) = 1..(Len(s) + 1)
         /\ DOMAIN Append(s, e) = DOMAIN s \cup {Len(s) + 1} /\ Len(s) + 1 \notin DOMAIN s
         /\ \A i \in DOMAIN s : Append(s, e)[i] = s[i]
         /\ Append(s, e)[Len(s) + 1] = e
  OBVIOUS

\* A recorded verdict changes nothing else of its request.
LEMMA Recorded ==
  ASSUME Types, NEW r \in DOMAIN requests, NEW res \in [known: BOOLEAN, verified: BOOLEAN, token: Nat],
         requests' = [requests EXCEPT ![r].result = res]
  PROVE  /\ requests' \in Seq(VerificationRequest) /\ Len(requests') = Len(requests)
         /\ DOMAIN requests' = DOMAIN requests
         /\ \A q \in DOMAIN requests :
              /\ requests'[q].kind = requests[q].kind /\ requests'[q].dataset = requests[q].dataset
              /\ requests'[q].purpose = requests[q].purpose /\ requests'[q].created_at = requests[q].created_at
              /\ requests'[q].result = IF q = r THEN res ELSE requests[q].result
<1> DEFINE req == [requests[r] EXCEPT !.result = res]
<1>1. requests[r] \in VerificationRequest /\ requests \in Seq(VerificationRequest)
  BY Shapes DEF Types
<1>2. DOMAIN requests[r] = {"kind", "dataset", "purpose", "created_at", "result"}
  BY <1>1 DEF VerificationRequest
<1>3. req \in VerificationRequest
  BY <1>1, <1>2 DEF VerificationRequest
<1>4. /\ req.kind = requests[r].kind /\ req.dataset = requests[r].dataset /\ req.purpose = requests[r].purpose
      /\ req.created_at = requests[r].created_at /\ req.result = res
  BY <1>2
<1>5. requests' = [requests EXCEPT ![r] = req]
  OBVIOUS
<1> HIDE DEF req
<1>6. requests' \in Seq(VerificationRequest) /\ Len(requests') = Len(requests) /\ DOMAIN requests' = DOMAIN requests
  BY <1>1, <1>3, <1>5
<1>7. requests'[r] = req /\ \A q \in DOMAIN requests \ {r} : requests'[q] = requests[q]
  BY <1>1, <1>5
<1>8. QED
  BY <1>4, <1>6, <1>7

\* What a step may never take back.
Keeps ==
  /\ \A r \in DOMAIN requests :
       /\ r \in DOMAIN requests' /\ requests'[r].kind = requests[r].kind
       /\ requests'[r].dataset = requests[r].dataset /\ requests'[r].purpose = requests[r].purpose
  /\ \A t \in DOMAIN store :
       /\ t \in DOMAIN store'
       /\ store'[t].kind = store[t].kind /\ store'[t].scope = store[t].scope
       /\ store'[t].holder = store[t].holder /\ store'[t].views = store[t].views
       /\ store'[t].expires_at = store[t].expires_at
       /\ store'[t].vc = store[t].vc /\ store'[t].request = store[t].request
       /\ store[t].uses <= store'[t].uses
  /\ \A c \in DOMAIN claims : c \in DOMAIN claims' /\ claims'[c] = claims[c]
  /\ Len(claims) <= Len(claims')
  /\ vlm' = vlm /\ audit \subseteq audit'

\* The audit log only grows, and the database raises only so often.
LEMMA AuditGrows ==
  ASSUME Types, (\E rec : Audited(rec)) \/ AuditRaises \/ UNCHANGED <<audit, failures>>
  PROVE  audit \subseteq audit' /\ failures' \in 0..MaxAuditFailures
  BY Bounds DEF Types, Audited, AuditRaises

\* Verifications: requests, verdicts and tokens.
LEMMA VerifyStep ==
  ASSUME AccessInv,
         \/ \E k \in Kinds, d \in Datasets \cup {AnyDataset}, p \in AskedPurposes \cup {"read"} : verifier_request(k, d, p)
         \/ \E r \in DOMAIN requests : \/ \E vc \in Credentials : verifier_response(r, vc)
                                       \/ poll(r) \/ redirect(r)
         \/ Responding
  PROVE  Types' /\ Keeps
<1>a. Types /\ HandlersOK
  BY DEF AccessInv
<1>b. \A t \in DOMAIN store : store[t].uses <= store[t].uses
  BY <1>a, Shapes DEF Token
<1>c. \A p : IsFiniteSet(pending \cup {p}) /\ IsFiniteSet(pending \ {p})
  BY <1>a, FS_AddElement, FS_RemoveElement DEF Types
<1>d. \A q \in DOMAIN requests : /\ requests[q].created_at <= now /\ requests[q].result.token <= Len(store)
                                 /\ requests[q].kind \in DatasetKinds => requests[q].dataset \in Datasets
  BY <1>a DEF Types
<1>1. ASSUME NEW k \in Kinds, NEW d \in Datasets \cup {AnyDataset}, NEW p \in AskedPurposes \cup {"read"},
             verifier_request(k, d, p)
      PROVE  Types' /\ Keeps
  <2> DEFINE req == [kind |-> k, dataset |-> d, purpose |-> p, created_at |-> now, result |-> Unanswered]
  <2>1. req \in VerificationRequest
    BY <1>a, Shapes DEF VerificationRequest, Unanswered, NoToken
  <2>2. requests' = Append(requests, req) /\ \E start \in PageStates : page' = Append(page, start)
    BY <1>1 DEF verifier_request, bootstrap, PageStates
  <2>3. req.kind \in DatasetKinds => req.dataset \in Datasets
    BY <1>1 DEF verifier_request
  <2>4. req.created_at = now /\ req.result.token = 0
    BY DEF Unanswered, NoToken
  <2> HIDE DEF req
  <2>5. page' \in Seq(PageStates) /\ Len(page') = Len(page) + 1
    BY <1>a, <2>2, Appended DEF Types
  <2>6. /\ requests' \in Seq(VerificationRequest) /\ Len(requests') = Len(requests) + 1
        /\ DOMAIN requests' = DOMAIN requests \cup {Len(requests) + 1}
        /\ \A r \in DOMAIN requests : requests'[r] = requests[r]
        /\ requests'[Len(requests) + 1] = req
    BY <1>a, <2>1, <2>2, Appended DEF Types
  <2>7. UNCHANGED <<now, vlm, store, claims, merchandise_dataset, merchandise_seller,
                    ingested, pending, served, audit, failures>>
    BY <1>1 DEF verifier_request
  <2>8. \A r \in DOMAIN requests' :
          /\ requests'[r].created_at <= now /\ requests'[r].result.token <= Len(store)
          /\ requests'[r].kind \in DatasetKinds => requests'[r].dataset \in Datasets
    BY <1>a, <2>3, <2>4, <2>6, Shapes DEF Types
  <2>9. Types'
    BY <1>a, <2>5, <2>6, <2>7, <2>8 DEF Types
  <2>10. Keeps
    BY <1>a, <1>b, <2>6, <2>7, Shapes DEF Keeps
  <2>11. QED
    BY <2>9, <2>10
<1>2. ASSUME UNCHANGED <<now, vlm, requests, store, claims, merchandise_dataset, merchandise_seller,
                         ingested, served, audit, failures>>,
             page' \in Seq(PageStates), Len(page') = Len(page), IsFiniteSet(pending')
      PROVE  Types' /\ Keeps
  BY <1>2, <1>a, <1>b, Shapes DEF Types, Keeps
<1>3. ASSUME NEW r \in DOMAIN requests, NEW vc \in Credentials, verifier_response(r, vc)
      PROVE  Types' /\ Keeps
  <2>1. IsFiniteSet(pending')
    BY <1>3, <1>c DEF verifier_response, Start
  <2>2. QED
    BY <1>2, <1>3, <1>a, <2>1 DEF verifier_response, Types
<1>4. ASSUME NEW r \in DOMAIN requests, poll(r) \/ redirect(r)
      PROVE  Types' /\ Keeps
  <2>1. PICK s \in PageStates : page' = [page EXCEPT ![r] = s]
    BY <1>4 DEF poll, redirect, PageStates
  <2>2. page' \in Seq(PageStates) /\ Len(page') = Len(page)
    BY <1>a, <2>1, Shapes DEF Types
  <2>3. QED
    BY <1>2, <1>4, <1>a, <2>2 DEF poll, redirect, Types
<1>5. ASSUME NEW p \in pending, record_verification_result(p)
      PROVE  Types' /\ Keeps
  <2> DEFINE res == Result(p.vc # {}, NoToken)
  <2>1. p.request \in DOMAIN requests
    BY <1>5, <1>a DEF record_verification_result, HandlersOK, HandlerOK
  <2>2. res \in [known: BOOLEAN, verified: BOOLEAN, token: Nat] /\ res.token = 0
    BY DEF Result, NoToken
  <2>3. requests' = [requests EXCEPT ![p.request].result = res]
    BY <1>5 DEF record_verification_result
  <2> HIDE DEF res
  <2>4. /\ requests' \in Seq(VerificationRequest) /\ Len(requests') = Len(requests)
        /\ DOMAIN requests' = DOMAIN requests
        /\ \A q \in DOMAIN requests :
              /\ requests'[q].kind = requests[q].kind /\ requests'[q].dataset = requests[q].dataset
              /\ requests'[q].purpose = requests[q].purpose /\ requests'[q].created_at = requests[q].created_at
              /\ requests'[q].result = IF q = p.request THEN res ELSE requests[q].result
    BY <1>a, <2>1, <2>2, <2>3, Recorded
  <2>5. IsFiniteSet(pending')
    <3>1. CASE pending' = (pending \ {p}) \cup {[p EXCEPT !.op = "recorded"]}
      BY <1>c, <3>1, FS_AddElement
    <3>2. CASE Finish(p)
      BY <1>c, <3>2 DEF Finish
    <3>3. QED
      BY <1>5, <3>1, <3>2 DEF record_verification_result
  <2>6. audit \subseteq audit' /\ failures' \in 0..MaxAuditFailures
    BY <1>5, <1>a, AuditGrows DEF record_verification_result
  <2>7. UNCHANGED <<now, vlm, store, claims, merchandise_dataset, merchandise_seller, ingested, page, served>>
    BY <1>5 DEF record_verification_result
  <2>a. \A q \in DOMAIN requests' : /\ requests'[q].created_at <= now /\ requests'[q].result.token <= Len(store)
                                    /\ requests'[q].kind \in DatasetKinds => requests'[q].dataset \in Datasets
    <3>1. 0 <= Len(store)
      BY <1>a, Shapes
    <3>2. QED
      BY <1>d, <2>2, <2>4, <3>1
  <2>8. Types'
    BY <1>a, <2>4, <2>5, <2>6, <2>7, <2>a DEF Types
  <2>9. Keeps
    BY <1>a, <1>b, <2>4, <2>6, <2>7, Shapes DEF Keeps
  <2>10. QED
    BY <2>8, <2>9
<1>6. ASSUME NEW p \in pending, mint_token(p)
      PROVE  Types' /\ Keeps
  <2> DEFINE r == p.request
  <2>1. r \in DOMAIN requests /\ \A vc \in p.vc : Answers(r, vc)
    BY <1>6, <1>a DEF mint_token, HandlersOK, HandlerOK
  <2>2. IsFiniteSet(pending')
    BY <1>6, <1>c DEF mint_token, Finish
  <2>3. UNCHANGED <<now, vlm, claims, merchandise_dataset, merchandise_seller, ingested, page, served, audit, failures>>
    BY <1>6 DEF mint_token
  <2> HIDE DEF r
  <2>4. ASSUME NEW res \in [known: BOOLEAN, verified: BOOLEAN, token: Nat],
               requests' = [requests EXCEPT ![r].result = res] \/ requests' = requests,
               store' = store \/ \E tok \in Token : store' = Append(store, tok),
               requests' = requests \/ res.token <= Len(store')
        PROVE  Types' /\ Keeps
    <3>1. /\ requests' \in Seq(VerificationRequest) /\ Len(requests') = Len(requests)
          /\ DOMAIN requests' = DOMAIN requests
          /\ \A q \in DOMAIN requests :
                /\ requests'[q].kind = requests[q].kind /\ requests'[q].dataset = requests[q].dataset
                /\ requests'[q].purpose = requests[q].purpose /\ requests'[q].created_at = requests[q].created_at
                /\ requests'[q].result = requests[q].result \/ requests'[q].result.token <= Len(store')
      <4>1. CASE requests' = requests
        BY <1>a, <4>1 DEF Types
      <4>2. CASE requests' = [requests EXCEPT ![r].result = res] /\ res.token <= Len(store')
        <5>1. /\ requests' \in Seq(VerificationRequest) /\ Len(requests') = Len(requests)
              /\ DOMAIN requests' = DOMAIN requests
              /\ \A q \in DOMAIN requests :
                   /\ requests'[q].kind = requests[q].kind /\ requests'[q].dataset = requests[q].dataset
                   /\ requests'[q].purpose = requests[q].purpose /\ requests'[q].created_at = requests[q].created_at
                   /\ requests'[q].result = IF q = r THEN res ELSE requests[q].result
          BY <1>a, <2>1, <4>2, Recorded
        <5>2. QED
          BY <4>2, <5>1
      <4>3. QED
        BY <2>4, <4>1, <4>2
    <3>2. /\ store' \in Seq(Token) /\ Len(store) <= Len(store')
          /\ \A t \in DOMAIN store : t \in DOMAIN store' /\ store'[t] = store[t]
      <4>1. CASE store' = store
        BY <1>a, <4>1, Shapes DEF Types
      <4>2. ASSUME NEW tok \in Token, store' = Append(store, tok)
            PROVE  /\ store' \in Seq(Token) /\ Len(store) <= Len(store')
                   /\ \A t \in DOMAIN store : t \in DOMAIN store' /\ store'[t] = store[t]
        <5>1. store \in Seq(Token)
          BY <1>a DEF Types
        <5>2. QED
          BY <4>2, <5>1, Appended, Shapes
      <4>3. QED
        BY <2>4, <4>1, <4>2
    <3>3. \A q \in DOMAIN requests : requests[q].result.token \in Nat
      BY <1>a, Shapes DEF VerificationRequest
    <3>4. \A q \in DOMAIN requests' : /\ requests'[q].created_at <= now /\ requests'[q].result.token <= Len(store')
                                      /\ requests'[q].kind \in DatasetKinds => requests'[q].dataset \in Datasets
      <4>1. Len(store) \in Nat /\ Len(store') \in Nat
        BY <1>a, <3>2, Shapes
      <4>2. QED
        BY <1>d, <3>1, <3>2, <3>3, <4>1
    <3>5. Types'
      BY <1>a, <2>2, <2>3, <3>1, <3>2, <3>4 DEF Types
    <3>6. Keeps
      BY <1>a, <1>b, <2>3, <3>1, <3>2, Shapes DEF Keeps
    <3>7. QED
      BY <3>5, <3>6
  <2>5. CASE p.vc = {}
    <3>1. Result(FALSE, NoToken) \in [known: BOOLEAN, verified: BOOLEAN, token: Nat] /\ Result(FALSE, NoToken).token = 0
      BY DEF Result, NoToken
    <3>2. requests' = [requests EXCEPT ![r].result = Result(FALSE, NoToken)] /\ store' = store
      BY <1>6, <2>5 DEF mint_token, r
    <3>3. 0 <= Len(store')
      BY <1>a, <3>2, Shapes
    <3>4. QED
      BY <2>4, <3>1, <3>2, <3>3
  <2>6. ASSUME NEW vc \in p.vc, store' = MintFor(r, vc),
               requests' = IF requests[r].kind \in PageKinds
                             THEN [requests EXCEPT ![r].result = Result(TRUE, Len(store) + 1)] ELSE requests
        PROVE  Types' /\ Keeps
    <3>1. /\ Result(TRUE, Len(store) + 1) \in [known: BOOLEAN, verified: BOOLEAN, token: Nat]
          /\ Result(TRUE, Len(store) + 1).token = Len(store) + 1
      BY <1>a, Shapes DEF Result
    <3>2. CASE requests[r].kind = "DataUserVC"
      <4>1. store' = store /\ requests' = requests
        BY <2>6, <3>2 DEF MintFor, PageKinds
      <4>2. QED
        BY <2>4, <3>1, <4>1
    <3>3. CASE requests[r].kind # "DataUserVC"
      <4>1. PICK tok \in Token : store' = Append(store, tok)
        BY <1>a, <2>1, <2>6, <3>3, Minted
      <4>2. Len(store') = Len(store) + 1 /\ Len(store) + 1 <= Len(store')
        BY <1>a, <4>1, Shapes DEF Types
      <4>3. requests' = [requests EXCEPT ![r].result = Result(TRUE, Len(store) + 1)] \/ requests' = requests
        BY <2>6
      <4>4. QED
        BY <2>4, <3>1, <4>1, <4>2, <4>3
    <3>4. QED
      BY <3>2, <3>3
  <2>7. QED
    BY <1>6, <2>5, <2>6 DEF mint_token, r
<1>7. QED
  BY <1>1, <1>3, <1>4, <1>5, <1>6 DEF Responding
\* Uploads, reads, registrations, purchases and the clock.
UseActions ==
  \/ \E t \in DOMAIN store, d \in Datasets : platform_ingest(t, d) \/ platform_data(t, d)
  \/ \E p \in pending : append_row(p) \/ marketplace_register(p)
  \/ \E d \in Datasets : ingest_legacy(d)
  \/ \E m \in Merchandises, d \in Bought, attrs \in Users : marketplace_claim(m, d, attrs)
  \/ \E t \in DOMAIN store, m \in Merchandises, d \in Datasets : use_for_registration(t, m, d)
  \/ Tick
  \/ UNCHANGED accessVars

\* What a use of a token leaves behind, whatever it is for.
LEMMA UseStep ==
  ASSUME AccessInv, UseActions
  PROVE  Types' /\ Keeps
<1>a. Types /\ HandlersOK
  BY DEF AccessInv
<1>b. \A t \in DOMAIN store : store[t].uses <= store[t].uses
  BY <1>a, Shapes DEF Token
<1>c. \A p : IsFiniteSet(pending \cup {p}) /\ IsFiniteSet(pending \ {p})
  BY <1>a, FS_AddElement, FS_RemoveElement DEF Types
<1>d. \A q \in DOMAIN requests : /\ requests[q].created_at <= now /\ requests[q].result.token <= Len(store)
                                 /\ requests[q].kind \in DatasetKinds => requests[q].dataset \in Datasets
  BY <1>a DEF Types
<1>e. \A t \in DOMAIN store : t # NoToken /\ store[t].uses \in Nat /\ store[t].holder \in Sellers \cup {NoSeller}
                              /\ store[t].scope \subseteq Datasets
  BY <1>a, Shapes DEF NoToken, Token
<1>f. \A q \in DOMAIN requests : requests[q] \in VerificationRequest
  BY <1>a, Shapes
<1>1. ASSUME NEW t \in DOMAIN store, Count(t), Countable(t),
             UNCHANGED <<now, vlm, requests, claims, merchandise_dataset, merchandise_seller, ingested, page>>,
             audit \subseteq audit', failures' \in 0..MaxAuditFailures, IsFiniteSet(pending')
      PROVE  Types' /\ Keeps
  <2>1. store[t].uses < MaxUses
    BY <1>1, <1>e DEF Countable
  <2>2. /\ store' \in Seq(Token) /\ Len(store') = Len(store) /\ DOMAIN store' = DOMAIN store
        /\ \A u \in DOMAIN store :
              /\ store'[u].kind = store[u].kind /\ store'[u].scope = store[u].scope
              /\ store'[u].holder = store[u].holder /\ store'[u].views = store[u].views
              /\ store'[u].expires_at = store[u].expires_at
              /\ store'[u].vc = store[u].vc /\ store'[u].request = store[u].request
              /\ store'[u].uses = IF u = t THEN store[u].uses + 1 ELSE store[u].uses
    BY <1>1, <1>a, <2>1, Counted
  <2>3. Types'
    BY <1>1, <1>a, <2>2 DEF Types
  <2>4. \A u \in DOMAIN store : store[u].uses <= store'[u].uses
    BY <1>e, <2>2
  <2>5. Keeps
    BY <1>1, <1>a, <2>2, <2>4, Shapes DEF Keeps
  <2>6. QED
    BY <2>3, <2>5
<1>2. ASSUME UNCHANGED <<vlm, requests, store, claims, page>>, now' \in 0..MaxTime, now <= now',
             merchandise_dataset' = merchandise_dataset, merchandise_seller' \in [Merchandises -> Binding],
             ingested' \in Seq(Row), audit \subseteq audit', failures' \in 0..MaxAuditFailures, IsFiniteSet(pending')
      PROVE  Types' /\ Keeps
  <2>1. \A q \in DOMAIN requests : requests[q].created_at <= now'
    <3>1. now \in Nat /\ now' \in Nat /\ \A q \in DOMAIN requests : requests[q].created_at \in Nat
      BY <1>2, <1>f, <1>a, Shapes, Bounds DEF VerificationRequest
    <3>2. QED
      BY <1>2, <1>d, <3>1
  <2>2. Types'
    BY <1>2, <1>a, <2>1 DEF Types
  <2>3. Keeps
    BY <1>2, <1>a, <1>b, Shapes DEF Keeps
  <2>4. QED
    BY <2>2, <2>3
<1>3. ASSUME NEW t \in DOMAIN store, NEW d \in Datasets, platform_ingest(t, d)
      PROVE  Types' /\ Keeps
  <2>1. IsFiniteSet(pending')
    BY <1>3, <1>a, <1>c DEF platform_ingest, Start, Types
  <2>2. audit \subseteq audit' /\ failures' \in 0..MaxAuditFailures
    BY <1>3, <1>a, AuditGrows DEF platform_ingest
  <2>3. QED
    BY <1>1, <1>3, <2>1, <2>2 DEF platform_ingest
<1>4. ASSUME NEW t \in DOMAIN store, NEW d \in Datasets, platform_data(t, d)
      PROVE  Types' /\ Keeps
  <2>1. IsFiniteSet(pending')
    BY <1>4, <1>a DEF platform_data, Types
  <2>2. audit \subseteq audit' /\ failures' \in 0..MaxAuditFailures
    BY <1>4, <1>a, AuditGrows DEF platform_data
  <2>3. QED
    BY <1>1, <1>4, <2>1, <2>2 DEF platform_data
<1>5. ASSUME NEW t \in DOMAIN store, NEW m \in Merchandises, NEW d \in Datasets, use_for_registration(t, m, d)
      PROVE  Types' /\ Keeps
  <2>1. IsFiniteSet(pending')
    BY <1>5, <1>c DEF use_for_registration, Start
  <2>2. audit \subseteq audit' /\ failures' \in 0..MaxAuditFailures
    BY <1>5, <1>a, AuditGrows DEF use_for_registration
  <2>3. QED
    BY <1>1, <1>5, <2>1, <2>2 DEF use_for_registration
<1>g. /\ now \in 0..MaxTime /\ now <= now /\ merchandise_seller \in [Merchandises -> Binding]
      /\ ingested \in Seq(Row) /\ failures \in 0..MaxAuditFailures /\ audit \subseteq audit /\ now \in Nat
  BY <1>a, Bounds DEF Types
<1>6. ASSUME NEW p \in pending, append_row(p)
      PROVE  Types' /\ Keeps
  <2>1. p.token \in DOMAIN store /\ p.dataset \in store[p.token].scope /\ p.at \in Nat
    BY <1>6, <1>a DEF append_row, HandlersOK, HandlerOK, MayUse
  <2>2. [dataset |-> p.dataset, token |-> p.token, at |-> p.at] \in Row
    BY <1>a, <1>e, <2>1, Shapes DEF Row
  <2>3. ingested' \in Seq(Row)
    BY <1>6, <1>g, <2>2 DEF append_row
  <2>4. QED
    BY <1>2, <1>6, <1>c, <1>g, <2>3 DEF append_row, Finish
<1>7. ASSUME NEW p \in pending, marketplace_register(p)
      PROVE  Types' /\ Keeps
  <2>1. p.token \in DOMAIN store /\ p.dataset \in store[p.token].scope /\ p.at \in Nat
    BY <1>7, <1>a DEF marketplace_register, HandlersOK, HandlerOK, MayUse
  <2>2. [seller |-> store[p.token].holder, token |-> p.token, dataset |-> p.dataset, at |-> p.at] \in Binding
    BY <1>a, <1>e, <2>1, Shapes DEF Binding
  <2>3. merchandise_seller' \in [Merchandises -> Binding]
    BY <1>7, <1>g, <2>2 DEF marketplace_register
  <2>4. audit \subseteq audit' /\ failures' \in 0..MaxAuditFailures
    BY <1>7, <1>a, AuditGrows DEF marketplace_register
  <2>5. QED
    BY <1>2, <1>7, <1>c, <1>g, <2>3, <2>4 DEF marketplace_register, Finish
<1>8. ASSUME NEW d \in Datasets, ingest_legacy(d)
      PROVE  Types' /\ Keeps
  <2>1. [dataset |-> d, token |-> NoToken, at |-> now] \in Row
    BY <1>g DEF Row, NoToken
  <2>2. ingested' \in Seq(Row) /\ IsFiniteSet(pending)
    BY <1>8, <1>a, <1>g, <2>1 DEF ingest_legacy, Types
  <2>3. QED
    BY <1>2, <1>8, <1>g, <2>2 DEF ingest_legacy
<1>9. ASSUME NEW m \in Merchandises, NEW d \in Bought, NEW attrs \in Users, marketplace_claim(m, d, attrs)
      PROVE  Types' /\ Keeps
  <2> DEFINE level == AccessLevel(CHOOSE a \in attrs : TRUE, vlm)
             views == IF attrs = {} THEN {} ELSE Views(level, vlm)
             claim == [dataset |-> d, attrs |-> attrs, views |-> IF views = {} THEN {"event"} ELSE views]
  <2>1. d \in Datasets /\ attrs \subseteq Attributes /\ vlm \in BOOLEAN
    BY <1>a, AccessAssumption DEF AccessAssumption, Types
  <2>2. views \subseteq AllViews
    BY <2>1, ViewsTyped
  <2>3. claims' = Append(claims, claim)
    BY <1>9 DEF marketplace_claim
  <2> HIDE DEF views
  <2>4. claim \in MarketplaceClaim
    BY <2>1, <2>2 DEF MarketplaceClaim, AllViews
  <2> HIDE DEF claim
  <2>5. /\ claims \in Seq(MarketplaceClaim) /\ Len(claims) \in Nat /\ Len(claims) < MaxClaims
        /\ merchandise_dataset \in [Merchandises -> Datasets \cup {AnyDataset}]
    BY <1>9, <1>a, Shapes DEF Types, marketplace_claim
  <2>6. /\ claims' \in Seq(MarketplaceClaim) /\ Len(claims') = Len(claims) + 1
        /\ \A c \in DOMAIN claims : c \in DOMAIN claims' /\ claims'[c] = claims[c]
    BY <2>3, <2>4, <2>5, Appended
  <2>7. Len(claims') <= MaxClaims /\ Len(claims) <= Len(claims')
    BY <2>5, <2>6, Bounds
  <2>8. merchandise_dataset' \in [Merchandises -> Datasets \cup {AnyDataset}]
    BY <1>9, <2>1, <2>5 DEF marketplace_claim
  <2>9. UNCHANGED <<now, vlm, requests, store, merchandise_seller, ingested, pending, page, served, audit, failures>>
    BY <1>9 DEF marketplace_claim
  <2>10. Types'
    BY <1>a, <2>6, <2>7, <2>8, <2>9 DEF Types
  <2>11. Keeps
    BY <1>a, <1>b, <2>6, <2>7, <2>9, Shapes DEF Keeps
  <2>12. QED
    BY <2>10, <2>11
<1>10. ASSUME Tick
       PROVE  Types' /\ Keeps
  <2>1. now' \in 0..MaxTime /\ now <= now' /\ IsFiniteSet(pending)
    BY <1>10, <1>a, <1>g, Bounds DEF Tick, Types
  <2>2. QED
    BY <1>2, <1>10, <1>g, <2>1 DEF Tick
<1>11. ASSUME UNCHANGED accessVars
       PROVE  Types' /\ Keeps
  BY <1>2, <1>11, <1>a, <1>g DEF accessVars, Types
<1>12. QED
  BY <1>3, <1>4, <1>5, <1>6, <1>7, <1>8, <1>9, <1>10, <1>11 DEF UseActions
\* Requests, verdicts and tokens.
VerifyActions ==
  \/ \E k \in Kinds, d \in Datasets \cup {AnyDataset}, p \in AskedPurposes \cup {"read"} : verifier_request(k, d, p)
  \/ \E r \in DOMAIN requests : \/ \E vc \in Credentials : verifier_response(r, vc)
                                \/ poll(r) \/ redirect(r)
  \/ Responding

\* A step is one of the two kinds; a read of a contract's rows is a read of its dataset's.
LEMMA StepKinds == [AccessNext]_accessVars => VerifyActions \/ UseActions
<1> SUFFICES ASSUME [AccessNext]_accessVars
             PROVE  VerifyActions \/ UseActions
  OBVIOUS
<1>1. ASSUME NEW k \in Kinds, NEW d \in Datasets \cup {AnyDataset},
             NEW p \in IF k = "ConsentVC" THEN AskedPurposes ELSE {"read"}, verifier_request(k, d, p)
      PROVE  VerifyActions
  BY <1>1 DEF VerifyActions
<1>2. ASSUME NEW t \in DOMAIN store, NEW m \in Merchandises, platform_data_of(t, m)
      PROVE  UseActions
  <2>1. merchandise_dataset[m] \in Datasets /\ platform_data(t, merchandise_dataset[m])
    BY <1>2 DEF platform_data_of
  <2>2. QED
    BY <2>1 DEF UseActions
<1>3. CASE \E r \in DOMAIN requests : (\E vc \in Credentials : verifier_response(r, vc)) \/ poll(r) \/ redirect(r)
  BY <1>3 DEF VerifyActions
<1>4. CASE Responding
  BY <1>4 DEF VerifyActions
<1>5. CASE \E t \in DOMAIN store, d \in Datasets : platform_ingest(t, d) \/ platform_data(t, d)
  BY <1>5 DEF UseActions
<1>6. CASE \E p \in pending : append_row(p) \/ marketplace_register(p)
  BY <1>6 DEF UseActions
<1>7. CASE \E d \in Datasets : ingest_legacy(d)
  BY <1>7 DEF UseActions
<1>8. CASE \E m \in Merchandises, d \in Bought, attrs \in Users : marketplace_claim(m, d, attrs)
  BY <1>8 DEF UseActions
<1>9. CASE \E t \in DOMAIN store, m \in Merchandises, d \in Datasets : use_for_registration(t, m, d)
  BY <1>9 DEF UseActions
<1>10. CASE Tick \/ UNCHANGED accessVars
  BY <1>10 DEF UseActions
<1>11. QED
  BY <1>1, <1>2, <1>3, <1>4, <1>5, <1>6, <1>7, <1>8, <1>9, <1>10 DEF AccessNext

\* A step keeps the types and takes nothing back.
LEMMA StepKeeps == AccessInv /\ [AccessNext]_accessVars => Types' /\ Keeps
  BY StepKinds, VerifyStep, UseStep DEF VerifyActions

\* What was made sure of stays so, since nothing it rests on is taken back.
LEMMA Kept ==
  ASSUME Types, Types', Keeps
  PROVE  /\ \A r \in DOMAIN requests : \A vc : Answers(r, vc) => Answers(r, vc)'
         /\ \A p, kinds : MayUse(p, kinds) => MayUse(p, kinds)'
         /\ \A p : HandlerOK(p) => HandlerOK(p)'
         /\ \A t \in DOMAIN store :
              /\ TokenOK(t) /\ store'[t].uses = store[t].uses => TokenOK(t)'
              /\ TokenOK(t) /\ store'[t].uses <= MaxUses /\ (store[t].kind = "policy" => store'[t].uses <= 1)
                   => TokenOK(t)'
<1>1. ASSUME NEW r \in DOMAIN requests, NEW vc, Answers(r, vc)
      PROVE  Answers(r, vc)'
  <2>1. vc.claim \in 0..Len(claims)
    BY <1>1 DEF Answers, Granted
  <2>2. vc.claim # NoClaim => vc.claim \in DOMAIN claims
    BY <2>1, Shapes DEF NoClaim
  <2>3. vc.claim \in 0..Len(claims')
    <3>1. Len(claims) \in Nat /\ Len(claims') \in Nat /\ Len(claims) <= Len(claims')
      BY Shapes DEF Keeps, Types
    <3>2. QED
      BY <2>1, <3>1
  <2>4. vc.views = IF vc.claim = NoClaim THEN {} ELSE claims'[vc.claim].views
    BY <1>1, <2>2 DEF Answers, Granted, Keeps
  <2>5. Granted(vc)'
    BY <1>1, <2>3, <2>4 DEF Answers, Granted
  <2>6. QED
    BY <1>1, <2>5 DEF Answers, Keeps
<1>2. ASSUME NEW p, NEW kinds, MayUse(p, kinds)
      PROVE  MayUse(p, kinds)'
  BY <1>2 DEF MayUse, Keeps
<1>3. ASSUME NEW p, HandlerOK(p)
      PROVE  HandlerOK(p)'
  <2>1. CASE p.op = "append"
    BY <1>2, <1>3, <2>1 DEF HandlerOK, Keeps
  <2>2. CASE p.op = "owner"
    BY <1>2, <1>3, <2>2 DEF HandlerOK
  <2>3. CASE p.op \in {"verified", "recorded"}
    <3>1. /\ p.request \in DOMAIN requests /\ DOMAIN p = {"op", "worker", "request", "vc"}
          /\ \A vc \in p.vc : Answers(p.request, vc)
      BY <1>3, <2>3 DEF HandlerOK
    <3>2. p.request \in DOMAIN requests' /\ \A vc \in p.vc : Answers(p.request, vc)'
      BY <1>1, <3>1 DEF Keeps
    <3>3. QED
      BY <2>3, <3>1, <3>2 DEF HandlerOK
  <2>4. QED
    BY <1>3, <2>1, <2>2, <2>3 DEF HandlerOK
<1>4. ASSUME NEW t \in DOMAIN store, TokenOK(t), store'[t].uses <= MaxUses,
             store[t].kind = "policy" => store'[t].uses <= 1
      PROVE  TokenOK(t)'
  <2>1. store[t].request \in DOMAIN requests /\ Answers(store[t].request, store[t].vc)
    BY <1>4 DEF TokenOK
  <2>2. /\ store'[t].kind = store[t].kind /\ store'[t].scope = store[t].scope
        /\ store'[t].holder = store[t].holder /\ store'[t].views = store[t].views
        /\ store'[t].vc = store[t].vc /\ store'[t].request = store[t].request
    BY DEF Keeps
  <2>3. /\ store[t].request \in DOMAIN requests' /\ requests'[store[t].request].kind = requests[store[t].request].kind
    BY <2>1 DEF Keeps
  <2>4. Answers(store[t].request, store[t].vc)'
    <3>1. ASSUME NEW r \in DOMAIN requests, NEW vc, r = store[t].request, vc = store[t].vc
          PROVE  Answers(r, vc)'
      BY <1>1, <2>1, <3>1
    <3>2. QED
      BY <2>1, <2>2, <3>1 DEF Answers, Granted
  <2>5. QED
    BY <1>4, <2>2, <2>3, <2>4 DEF TokenOK
<1>5. QED
  BY <1>1, <1>2, <1>3, <1>4 DEF TokenOK
\* A token that may be used is of the kind asked for, covers the dataset and has not expired.
LEMMA Usable ==
  ASSUME Types, NEW t \in DOMAIN store, NEW kind, NEW d, Reason(kind, t, d) = "ok"
  PROVE  /\ store[t].kind = kind /\ d \in store[t].scope /\ now <= store[t].expires_at
         /\ kind = "policy" => store[t].uses = 0
<1>1. t # NoToken /\ now \in Nat /\ store[t].expires_at \in Nat /\ store[t].uses \in Nat
  BY Shapes DEF NoToken, Token
<1>2. store[t].kind = kind /\ ~(now > store[t].expires_at) /\ d \in store[t].scope
      /\ ~(kind = "policy" /\ store[t].uses > 0)
  BY <1>1 DEF Reason
<1>3. QED
  BY <1>1, <1>2

\* A wallet's credential that the handler lets through answers the request.
LEMMA Accepted ==
  ASSUME Types, NEW r \in DOMAIN requests, NEW vc \in Credentials,
         MatchesDefinition(requests[r], vc), BeltAndBraces(requests[r], vc)
  PROVE  Answers(r, vc)
<1>1. vc \in Credential /\ Granted(vc)
  BY CredentialsTyped
<1>2. vc.kind = requests[r].kind
  BY DEF MatchesDefinition, request_object
<1>3. requests[r].kind \in DatasetKinds => vc.dataset = requests[r].dataset
  BY DEF MatchesDefinition, request_object
<1>4. requests[r].kind = "ConsentVC" => requests[r].purpose \in vc.allowed
  BY <1>2 DEF BeltAndBraces, KindAllows
<1>5. QED
  BY <1>1, <1>2, <1>3, <1>4 DEF Answers

\* Every handler that runs goes on from what it, or the one before it, made sure of.
LEMMA HandlersStep == AccessInv /\ [AccessNext]_accessVars => HandlersOK'
<1> SUFFICES ASSUME AccessInv, [AccessNext]_accessVars
             PROVE  HandlersOK'
  OBVIOUS
<1>a. Types /\ HandlersOK /\ Types' /\ Keeps
  BY StepKeeps DEF AccessInv
<1>b. \A p \in pending : HandlerOK(p) /\ HandlerOK(p)'
  BY <1>a, Kept DEF HandlersOK
<1>1. ASSUME pending' \subseteq pending
      PROVE  HandlersOK'
  BY <1>1, <1>b DEF HandlersOK
<1>2. ASSUME NEW h, pending' \subseteq pending \cup {h}, HandlerOK(h)'
      PROVE  HandlersOK'
  BY <1>2, <1>b DEF HandlersOK
<1>3. ASSUME NEW r \in DOMAIN requests, NEW vc \in Credentials, verifier_response(r, vc)
      PROVE  HandlersOK'
  <2>1. PICK ok \in BOOLEAN :
          /\ pending' = pending \cup {[op |-> "verified", worker |-> FreeWorker, request |-> r,
                                       vc |-> IF ok THEN {vc} ELSE {}]}
          /\ ok => MatchesDefinition(requests[r], vc) /\ BeltAndBraces(requests[r], vc)
    <3>1. PICK verified \in {LocalPexFallback(requests[r], vc)} \cup Sidecar(requests[r], vc) :
            Start([op |-> "verified", worker |-> FreeWorker, request |-> r,
                   vc |-> IF verified /\ BeltAndBraces(requests[r], vc) THEN {vc} ELSE {}])
      BY <1>3 DEF verifier_response
    <3>2. verified => MatchesDefinition(requests[r], vc)
      BY <3>1 DEF LocalPexFallback, Sidecar
    <3>3. (verified /\ BeltAndBraces(requests[r], vc)) \in BOOLEAN
      OBVIOUS
    <3>4. QED
      BY <3>1, <3>2, <3>3, Zenon DEF Start
  <2>h. PICK h : h = [op |-> "verified", worker |-> FreeWorker, request |-> r, vc |-> IF ok THEN {vc} ELSE {}]
    OBVIOUS
  <2>2. ok => Answers(r, vc)
    BY <1>a, <2>1, Accepted
  <2>3. h.op = "verified" /\ DOMAIN h = {"op", "worker", "request", "vc"} /\ h.request = r
        /\ \A v \in h.vc : ok /\ v = vc
    BY <2>h
  <2>4. pending' = pending \cup {h}
    BY <2>1, <2>h
  <2>5. HandlerOK(h)
    BY <2>2, <2>3 DEF HandlerOK
  <2>6. HandlerOK(h)'
    BY <1>a, <2>5, Kept
  <2>7. QED
    BY <1>2, <2>4, <2>6
<1>4. ASSUME NEW p \in pending, record_verification_result(p)
      PROVE  HandlersOK'
  <2> DEFINE h == [p EXCEPT !.op = "recorded"]
  <2>1. /\ p.op = "verified" /\ DOMAIN p = {"op", "worker", "request", "vc"}
        /\ p.request \in DOMAIN requests /\ \A vc \in p.vc : Answers(p.request, vc)
    BY <1>4, <1>b DEF record_verification_result, HandlerOK
  <2>2. h.op = "recorded" /\ DOMAIN h = {"op", "worker", "request", "vc"} /\ h.request = p.request /\ h.vc = p.vc
    BY <2>1
  <2>3. pending' \subseteq pending \cup {h}
    BY <1>4 DEF record_verification_result, Finish
  <2> HIDE DEF h
  <2>4. HandlerOK(h)
    BY <2>1, <2>2 DEF HandlerOK
  <2>5. HandlerOK(h)'
    BY <1>a, <2>4, Kept
  <2>6. QED
    BY <1>2, <2>3, <2>5
<1>5. ASSUME NEW p \in pending, mint_token(p) \/ append_row(p) \/ marketplace_register(p)
      PROVE  HandlersOK'
  BY <1>1, <1>5 DEF mint_token, append_row, marketplace_register, Finish
<1>6. ASSUME NEW t \in DOMAIN store, NEW d \in Datasets, platform_ingest(t, d)
      PROVE  HandlersOK'
  <2>h. PICK h : h = [op |-> "append", worker |-> FreeWorker, token |-> t, dataset |-> d, at |-> now]
    OBVIOUS
  <2>1. Reason("policy", t, d) = "ok" \/ Reason("service", t, d) = "ok"
    BY <1>6 DEF platform_ingest, consume_policy_token, use_service_token
  <2>2. store[t].kind \in {"policy", "service"} /\ d \in store[t].scope /\ now <= store[t].expires_at /\ now \in Nat
    BY <1>a, <2>1, Usable, Shapes
  <2>3. h.op = "append" /\ h.token = t /\ h.dataset = d /\ h.at = now
    BY <2>h
  <2>4. CASE pending' = pending \cup {h} /\ IngestRecord(t, d) \in audit'
    <3>1. MayUse(h, {"policy", "service"})
      BY <2>2, <2>3 DEF MayUse
    <3>2. MayUse(h, {"policy", "service"})'
      BY <1>a, <3>1, Kept
    <3>3. HandlerOK(h)'
      BY <2>3, <2>4, <3>2 DEF HandlerOK, IngestRecord
    <3>4. QED
      BY <1>2, <2>4, <3>3
  <2>5. CASE pending' = pending
    BY <1>1, <2>5
  <2>6. QED
    BY <1>6, <2>h, <2>4, <2>5 DEF platform_ingest, Audited, Start, IngestRecord
<1>7. ASSUME NEW t \in DOMAIN store, NEW m \in Merchandises, NEW d \in Datasets, use_for_registration(t, m, d)
      PROVE  HandlersOK'
  <2>h. PICK h : h = [op |-> "owner", worker |-> FreeWorker, token |-> t, merchandise |-> m, dataset |-> d, at |-> now]
    OBVIOUS
  <2>1. Reason("seller", t, d) = "ok"
    BY <1>7 DEF use_for_registration, use_seller_token
  <2>2. store[t].kind = "seller" /\ d \in store[t].scope /\ now <= store[t].expires_at /\ now \in Nat
    BY <1>a, <2>1, Usable, Shapes
  <2>3. h.op = "owner" /\ h.token = t /\ h.dataset = d /\ h.at = now
    BY <2>h
  <2>4. pending' = pending \cup {h}
    BY <1>7, <2>h DEF use_for_registration, Start
  <2>5. MayUse(h, {"seller"})
    BY <2>2, <2>3 DEF MayUse
  <2>6. HandlerOK(h)'
    BY <1>a, <2>3, <2>5, Kept DEF HandlerOK
  <2>7. QED
    BY <1>2, <2>4, <2>6
<1>8. ASSUME UNCHANGED pending
      PROVE  HandlersOK'
  BY <1>1, <1>8
<1>9. CASE VerifyActions
  BY <1>3, <1>4, <1>5, <1>8, <1>9 DEF VerifyActions, Responding, verifier_request, poll, redirect
<1>10. CASE UseActions
  BY <1>5, <1>6, <1>7, <1>8, <1>10
     DEF UseActions, platform_data, ingest_legacy, marketplace_claim, Tick, accessVars
<1>11. QED
  BY <1>9, <1>10, StepKinds
\* A use that is counted leaves a token that its credential still grants.
LEMMA UsedTokens ==
  ASSUME AccessInv, Types', Keeps, NEW t \in DOMAIN store, Count(t), Countable(t),
         store[t].kind = "policy" => store[t].uses = 0
  PROVE  /\ TokensOK' /\ DOMAIN store' = DOMAIN store
         /\ \A u \in DOMAIN store : store'[u].uses = IF u = t THEN store[u].uses + 1 ELSE store[u].uses
<1>a. Types /\ TokensOK
  BY DEF AccessInv
<1>b. t # NoToken /\ (\A u \in DOMAIN store : store[u].uses \in Nat) /\ MaxUses \in Nat
  BY <1>a, Shapes, Bounds DEF NoToken, Token
<1>1. store[t].uses < MaxUses
  BY <1>b DEF Countable
<1>2. /\ DOMAIN store' = DOMAIN store
      /\ \A u \in DOMAIN store : store'[u].uses = IF u = t THEN store[u].uses + 1 ELSE store[u].uses
  BY <1>a, <1>1, Counted
<1>3. \A u \in DOMAIN store : TokenOK(u) /\ TokenOK(u) => store[u].uses <= MaxUses
  BY DEF TokenOK
<1>4. \A u \in DOMAIN store : store'[u].uses <= MaxUses
  BY <1>a, <1>b, <1>1, <1>2, <1>3 DEF TokensOK
<1>5. \A u \in DOMAIN store : store[u].kind = "policy" => store'[u].uses <= 1
  BY <1>a, <1>2 DEF TokensOK, TokenOK
<1>6. \A u \in DOMAIN store : TokenOK(u)'
  BY <1>a, <1>4, <1>5, Kept DEF TokensOK
<1>7. QED
  BY <1>2, <1>6 DEF TokensOK

\* A minted token is what its credential grants.
LEMMA MintedToken ==
  ASSUME AccessInv, Types', Keeps, NEW p \in pending, mint_token(p)
  PROVE  /\ TokensOK'
         /\ \A u \in DOMAIN store' \ DOMAIN store : store'[u].uses = 0
         /\ \A u \in DOMAIN store : u \in DOMAIN store' /\ store'[u] = store[u]
<1>a. Types /\ TokensOK /\ HandlersOK
  BY DEF AccessInv
<1>b. MaxUses \in Nat /\ \A u \in DOMAIN store : store[u].uses \in Nat
  BY <1>a, Shapes, Bounds DEF Token
<1>1. p.request \in DOMAIN requests /\ \A vc \in p.vc : Answers(p.request, vc)
  BY <1>a DEF mint_token, HandlersOK, HandlerOK
<1>2. ASSUME store' = store
      PROVE  TokensOK' /\ (\A u \in DOMAIN store : u \in DOMAIN store' /\ store'[u] = store[u])
  BY <1>2, <1>a, Kept DEF TokensOK
<1>3. ASSUME NEW vc \in p.vc, store' = MintFor(p.request, vc), requests[p.request].kind # "DataUserVC"
      PROVE  /\ TokensOK'
             /\ \A u \in DOMAIN store' \ DOMAIN store : store'[u].uses = 0
             /\ \A u \in DOMAIN store : u \in DOMAIN store' /\ store'[u] = store[u]
  <2> DEFINE r == p.request
  <2>n. PICK n : n = Len(store) + 1
    OBVIOUS
  <2>1. r \in DOMAIN requests /\ Answers(r, vc)
    BY <1>1
  <2>2. PICK tok \in Token :
           /\ MintFor(r, vc) = Append(store, tok)
           /\ tok.request = r /\ tok.vc = vc /\ tok.uses = 0
           /\ tok.kind = TokenKind(requests[r].kind)
           /\ requests[r].kind \in DatasetKinds => tok.scope = {vc.dataset}
           /\ requests[r].kind = "SellerVC" => tok.scope = vc.allowed /\ tok.holder = vc.holder
           /\ tok.scope # {} /\ OpensNoMore(tok.views, vc)
    BY <1>a, <1>3, <2>1, Minted
  <2>3. store \in Seq(Token) /\ store' = Append(store, tok)
    BY <1>a, <1>3, <2>2 DEF Types
  <2>4. /\ DOMAIN store' = DOMAIN store \cup {n} /\ n \notin DOMAIN store /\ store'[n] = tok
        /\ \A u \in DOMAIN store : store'[u] = store[u]
    BY <2>n, <2>3, Appended
  <2> HIDE DEF r
  <2>5. r \in DOMAIN requests' /\ requests'[r].kind = requests[r].kind
    BY <2>1 DEF Keeps
  <2>6. ASSUME NEW q \in DOMAIN requests, NEW v, q = r, v = vc
        PROVE  Answers(q, v)'
    BY <1>a, <2>1, <2>6, Kept
  <2>7. Answers(store[n].request, store[n].vc)'
    BY <2>1, <2>2, <2>4, <2>6 DEF Answers, Granted
  <2>8. TokenOK(n)'
    <3>1. store'[n].request = r /\ store'[n].vc = vc /\ store'[n].uses = 0 /\ 0 <= MaxUses
      BY <1>b, <2>2, <2>4
    <3>2. QED
      BY <1>3, <2>2, <2>4, <2>5, <2>7, <3>1 DEF TokenOK, TokenKind, r
  <2>9. \A u \in DOMAIN store : TokenOK(u)'
    BY <1>a, <2>4, Kept DEF TokensOK
  <2>10. TokensOK'
    BY <2>4, <2>8, <2>9 DEF TokensOK
  <2>11. QED
    BY <2>2, <2>4, <2>10
<1>4. ASSUME NEW vc \in p.vc, store' = MintFor(p.request, vc), requests[p.request].kind = "DataUserVC"
      PROVE  store' = store
  BY <1>4 DEF MintFor
<1>5. QED
  BY <1>2, <1>3, <1>4 DEF mint_token

\* Every token is what its credential grants.
LEMMA TokensStep == AccessInv /\ [AccessNext]_accessVars => TokensOK'
<1> SUFFICES ASSUME AccessInv, [AccessNext]_accessVars
             PROVE  TokensOK'
  OBVIOUS
<1>a. Types /\ TokensOK /\ Types' /\ Keeps
  BY StepKeeps DEF AccessInv
<1>1. ASSUME UNCHANGED store
      PROVE  TokensOK'
  BY <1>1, <1>a, Kept DEF TokensOK
<1>2. ASSUME NEW t \in DOMAIN store, NEW d \in Datasets, platform_ingest(t, d)
      PROVE  TokensOK'
  <2>1. Reason("policy", t, d) = "ok" \/ Reason("service", t, d) = "ok"
    BY <1>2 DEF platform_ingest, consume_policy_token, use_service_token
  <2>2. store[t].kind = "policy" => store[t].uses = 0
    BY <1>a, <2>1, Usable
  <2>3. QED
    BY <1>2, <1>a, <2>2, UsedTokens DEF platform_ingest
<1>3. ASSUME NEW t \in DOMAIN store, NEW d \in Datasets, platform_data(t, d)
      PROVE  TokensOK'
  <2>1. store[t].kind = "viewer"
    BY <1>3, <1>a, Usable DEF platform_data, use_viewer_token
  <2>2. QED
    BY <1>3, <1>a, <2>1, UsedTokens DEF platform_data
<1>4. ASSUME NEW t \in DOMAIN store, NEW m \in Merchandises, NEW d \in Datasets, use_for_registration(t, m, d)
      PROVE  TokensOK'
  <2>1. store[t].kind = "seller"
    BY <1>4, <1>a, Usable DEF use_for_registration, use_seller_token
  <2>2. QED
    BY <1>4, <1>a, <2>1, UsedTokens DEF use_for_registration
<1>5. ASSUME NEW p \in pending, mint_token(p)
      PROVE  TokensOK'
  BY <1>5, <1>a, MintedToken
<1>6. CASE VerifyActions
  BY <1>1, <1>5, <1>6
     DEF VerifyActions, Responding, verifier_request, verifier_response, poll, redirect, record_verification_result
<1>7. CASE UseActions
  BY <1>1, <1>2, <1>3, <1>4, <1>7
     DEF UseActions, append_row, marketplace_register, ingest_legacy, marketplace_claim, Tick, accessVars
<1>8. QED
  BY <1>6, <1>7, StepKinds

\* A claim's views are of the level its buyer's attributes give.
LEMMA ClaimsStep == AccessInv /\ [AccessNext]_accessVars => ClaimsOK'
<1> SUFFICES ASSUME AccessInv, [AccessNext]_accessVars
             PROVE  ClaimsOK'
  OBVIOUS
<1>a. Types /\ ClaimsOK /\ Types' /\ Keeps
  BY StepKeeps DEF AccessInv
<1>1. ASSUME UNCHANGED claims
      PROVE  ClaimsOK'
  BY <1>1, <1>a DEF ClaimsOK, ViewsOf, Keeps
<1>2. ASSUME NEW m \in Merchandises, NEW d \in Bought, NEW attrs \in Users, marketplace_claim(m, d, attrs)
      PROVE  ClaimsOK'
  <2> DEFINE a == CHOOSE x \in attrs : TRUE
             views == IF attrs = {} THEN {} ELSE Views(AccessLevel(a, vlm), vlm)
  <2>1. PICK claim : claim = [dataset |-> d, attrs |-> attrs, views |-> IF views = {} THEN {"event"} ELSE views]
    OBVIOUS
  <2>2. claims' = Append(claims, claim) /\ claims \in Seq(MarketplaceClaim)
    BY <1>2, <1>a, <2>1 DEF marketplace_claim, Types
  <2>3. attrs # {} => a \in attrs
    OBVIOUS
  <2>4. views \subseteq ViewsOf(attrs)
    BY <2>3 DEF ViewsOf
  <2> HIDE DEF views
  <2>5. claim.attrs = attrs /\ claim.views \subseteq ViewsOf(attrs)
    BY <2>1, <2>4 DEF ViewsOf
  <2>6. \A c \in DOMAIN claims' : claims'[c] = claim \/ (c \in DOMAIN claims /\ claims'[c] = claims[c])
    BY <2>2
  <2>7. vlm' = vlm
    BY <1>a DEF Keeps
  <2>8. QED
    BY <1>a, <2>5, <2>6, <2>7 DEF ClaimsOK, ViewsOf
<1>3. CASE VerifyActions
  BY <1>1, <1>3 DEF VerifyActions, Responding, verifier_request, verifier_response, poll, redirect,
                    record_verification_result, mint_token
<1>4. CASE UseActions
  BY <1>1, <1>2, <1>4 DEF UseActions, platform_ingest, platform_data, append_row, marketplace_register,
                          ingest_legacy, use_for_registration, Tick, accessVars
<1>5. QED
  BY <1>3, <1>4, StepKinds
\* A finite set with one more element, or without one.
LEMMA OneMore ==
  ASSUME NEW S, IsFiniteSet(S), NEW T, NEW x, T \subseteq S \cup {x}
  PROVE  /\ IsFiniteSet(T) /\ Cardinality(T) \in Nat /\ Cardinality(S) \in Nat
         /\ Cardinality(T) <= Cardinality(S) + 1
         /\ T \subseteq S => Cardinality(T) <= Cardinality(S)
         /\ x \in S /\ T \subseteq S \ {x} => Cardinality(T) + 1 <= Cardinality(S)
<1>1. /\ IsFiniteSet(S \cup {x}) /\ IsFiniteSet(S \ {x}) /\ Cardinality(S) \in Nat
      /\ Cardinality(S \cup {x}) \in Nat /\ Cardinality(S \cup {x}) <= Cardinality(S) + 1
      /\ x \in S => Cardinality(S \ {x}) = Cardinality(S) - 1
  BY FS_AddElement, FS_RemoveElement, FS_CardinalityType
<1>2. IsFiniteSet(T) /\ Cardinality(T) \in Nat /\ Cardinality(T) <= Cardinality(S \cup {x})
  BY <1>1, FS_Subset, FS_CardinalityType
<1>3. T \subseteq S => Cardinality(T) <= Cardinality(S)
  BY FS_Subset
<1>4. T \subseteq S \ {x} => Cardinality(T) <= Cardinality(S \ {x})
  BY <1>1, FS_Subset
<1>5. QED
  BY <1>1, <1>2, <1>3, <1>4

\* Rows and handlers of a token, counted; a token that is not minted yet has none.
LEMMA Uses ==
  ASSUME AccessInv
  PROVE  /\ \A t \in DOMAIN store : t # NoToken /\ store[t].uses \in Nat
         /\ \A t : IsFiniteSet(Rows(t)) /\ Cardinality(Rows(t)) \in Nat
         /\ \A op, t : IsFiniteSet(Running(op, t)) /\ Cardinality(Running(op, t)) \in Nat
         /\ \A t : t \notin DOMAIN store /\ t # NoToken =>
              Rows(t) = {} /\ Running("append", t) = {} /\ Running("owner", t) = {} /\ BoundBy(t) = {}
<1>a. Types /\ HandlersOK /\ RowsOK /\ BindingsOK
  BY DEF AccessInv
<1>1. \A t \in DOMAIN store : t # NoToken /\ store[t].uses \in Nat
  BY <1>a, Shapes DEF NoToken, Token
<1>2. ASSUME NEW t
      PROVE  IsFiniteSet(Rows(t)) /\ Cardinality(Rows(t)) \in Nat
  <2>1. Rows(t) \subseteq 1..Len(ingested) /\ IsFiniteSet(1..Len(ingested))
    BY <1>a, Shapes, FS_Interval DEF Rows
  <2>2. QED
    BY <2>1, FS_Subset, FS_CardinalityType
<1>3. ASSUME NEW op, NEW t
      PROVE  IsFiniteSet(Running(op, t)) /\ Cardinality(Running(op, t)) \in Nat
  <2>1. Running(op, t) \subseteq pending /\ IsFiniteSet(pending)
    BY <1>a DEF Running, Types
  <2>2. QED
    BY <2>1, FS_Subset, FS_CardinalityType
<1>4. \A p \in pending : p.op \in {"append", "owner"} => p.token \in DOMAIN store
  BY <1>a DEF HandlersOK, HandlerOK, MayUse
<1>5. ASSUME NEW t, t \notin DOMAIN store, t # NoToken
      PROVE  Rows(t) = {} /\ Running("append", t) = {} /\ Running("owner", t) = {} /\ BoundBy(t) = {}
  <2>1. Rows(t) = {}
    BY <1>a, <1>5 DEF Rows, RowsOK, MayUse
  <2>2. BoundBy(t) = {}
    BY <1>a, <1>5 DEF BoundBy, BindingsOK, MayUse
  <2>3. Running("append", t) = {} /\ Running("owner", t) = {}
    BY <1>4, <1>5 DEF Running
  <2>4. QED
    BY <2>1, <2>2, <2>3
<1>6. QED
  BY <1>1, <1>2, <1>3, <1>5

\* Which handlers a step may add: one that uploads, one that registers, or one that verifies.
Adds(op) == \E p \in pending' \ pending : p.op = op

\* An upload starts only in platform_ingest, a registration only in use_for_registration.
LEMMA Starts ==
  ASSUME AccessInv, [AccessNext]_accessVars
  PROVE  /\ Adds("append") => \E t \in DOMAIN store, d \in Datasets : platform_ingest(t, d)
         /\ Adds("owner") => \E t \in DOMAIN store, m \in Merchandises, d \in Datasets : use_for_registration(t, m, d)
<1>a. HandlersOK
  BY DEF AccessInv
<1>1. ASSUME NEW h, h.op \in {"verified", "recorded"}, pending' \subseteq pending \cup {h}
      PROVE  ~Adds("append") /\ ~Adds("owner")
  BY <1>1 DEF Adds
<1>2. ASSUME NEW r \in DOMAIN requests, NEW vc \in Credentials, verifier_response(r, vc)
      PROVE  ~Adds("append") /\ ~Adds("owner")
  <2>1. PICK h : h.op = "verified" /\ pending' = pending \cup {h}
    <3>1. \A W, vcs : [op |-> "verified", worker |-> W, request |-> r, vc |-> vcs].op = "verified"
      OBVIOUS
    <3>2. QED
      BY <1>2, <3>1, Zenon DEF verifier_response, Start
  <2>2. QED
    BY <1>1, <2>1
<1>3. ASSUME NEW p \in pending, record_verification_result(p)
      PROVE  ~Adds("append") /\ ~Adds("owner")
  <2>1. p.op = "verified" /\ DOMAIN p = {"op", "worker", "request", "vc"}
    BY <1>3, <1>a DEF record_verification_result, HandlersOK, HandlerOK
  <2>2. PICK h : h = [p EXCEPT !.op = "recorded"]
    OBVIOUS
  <2>3. h.op = "recorded"
    BY <2>1, <2>2
  <2>4. pending' \subseteq pending \cup {h}
    BY <1>3, <2>2 DEF record_verification_result, Finish
  <2>5. QED
    BY <1>1, <2>3, <2>4
<1>4. ASSUME NEW t \in DOMAIN store, NEW m \in Merchandises, NEW d \in Datasets, use_for_registration(t, m, d)
      PROVE  ~Adds("append")
  <2>1. PICK h : h = [op |-> "owner", worker |-> FreeWorker, token |-> t, merchandise |-> m, dataset |-> d, at |-> now]
    OBVIOUS
  <2>2. h.op = "owner"
    BY <2>1
  <2>3. pending' \subseteq pending \cup {h}
    BY <1>4, <2>1 DEF use_for_registration, Start
  <2>4. QED
    BY <2>2, <2>3 DEF Adds
<1>5. ASSUME NEW t \in DOMAIN store, NEW d \in Datasets, platform_ingest(t, d)
      PROVE  ~Adds("owner")
  <2>1. PICK h : h = [op |-> "append", worker |-> FreeWorker, token |-> t, dataset |-> d, at |-> now]
    OBVIOUS
  <2>2. h.op = "append"
    BY <2>1
  <2>3. pending' \subseteq pending \cup {h}
    BY <1>5, <2>1 DEF platform_ingest, Start
  <2>4. QED
    BY <2>2, <2>3 DEF Adds
<1>6. ASSUME pending' \subseteq pending
      PROVE  ~Adds("append") /\ ~Adds("owner")
  BY <1>6 DEF Adds
<1>7. CASE VerifyActions
  BY <1>2, <1>3, <1>6, <1>7 DEF VerifyActions, Responding, verifier_request, poll, redirect, mint_token, Finish
<1>8. CASE UseActions
  BY <1>4, <1>5, <1>6, <1>8 DEF UseActions, platform_data, append_row, marketplace_register, Finish, ingest_legacy,
                                marketplace_claim, Tick, accessVars
<1>9. QED
  BY <1>7, <1>8, StepKinds

\* What a row shows of its token stays so.
LEMMA RowsKept ==
  ASSUME Types, Types', Keeps, RowsOK
  PROVE  \A i \in DOMAIN ingested : \A row : row = ingested[i] /\ row.token # NoToken =>
           MayUse(row, {"policy", "service"})' /\ IngestRecord(row.token, row.dataset) \in audit'
<1> SUFFICES ASSUME NEW i \in DOMAIN ingested, NEW row, row = ingested[i], row.token # NoToken
             PROVE  MayUse(row, {"policy", "service"})' /\ IngestRecord(row.token, row.dataset) \in audit'
  OBVIOUS
<1>1. MayUse(row, {"policy", "service"}) /\ IngestRecord(row.token, row.dataset) \in audit
  BY DEF RowsOK
<1>2. QED
  BY <1>1, Kept DEF Keeps

\* A step that stores no row and starts no upload.
LEMMA NoUpload ==
  ASSUME AccessInv, Types', Keeps, UNCHANGED ingested, ~Adds("append")
  PROVE  RowsOK'
<1>a. Types /\ RowsOK
  BY DEF AccessInv
<1>1. \A t : Rows(t)' = Rows(t) /\ Running("append", t)' \subseteq Running("append", t)
  BY DEF Rows, Running, Adds
<1>2. \A t \in DOMAIN store' : t \in Nat /\ t # NoToken /\ store'[t].uses \in Nat
  <2>1. DOMAIN store' = 1..Len(store') /\ store' \in Seq(Token)
    BY DEF Types
  <2>2. \A t \in DOMAIN store' : store'[t] \in Token
    BY <2>1
  <2>3. QED
    BY <2>1, <2>2 DEF NoToken, Token
<1>3. ASSUME NEW t \in DOMAIN store'
      PROVE  Cardinality(Rows(t)') + Cardinality(Running("append", t)') <= store'[t].uses
  <2>1. /\ Cardinality(Rows(t)') = Cardinality(Rows(t)) /\ Cardinality(Rows(t)) \in Nat
        /\ Cardinality(Running("append", t)') <= Cardinality(Running("append", t))
        /\ Cardinality(Running("append", t)') \in Nat /\ Cardinality(Running("append", t)) \in Nat
    BY <1>1, Uses, FS_Subset, FS_CardinalityType
  <2>2. CASE t \in DOMAIN store
    <3>1. Cardinality(Rows(t)) + Cardinality(Running("append", t)) <= store[t].uses
      BY <1>a, <2>2 DEF RowsOK
    <3>2. store[t].uses <= store'[t].uses /\ store[t].uses \in Nat
      BY <2>2, Uses DEF Keeps
    <3>3. QED
      BY <1>2, <2>1, <3>1, <3>2
  <2>3. CASE t \notin DOMAIN store
    <3>1. Cardinality(Rows(t)) = 0 /\ Cardinality(Running("append", t)) = 0
      BY <1>2, <2>3, Uses, FS_EmptySet
    <3>2. QED
      BY <1>2, <2>1, <3>1
  <2>4. QED
    BY <2>2, <2>3
<1>4. QED
  BY <1>a, <1>3, RowsKept DEF RowsOK, MayUse
\* A row is stored, and let in, under a token that allows it and has the uses for it.
LEMMA RowsStep == AccessInv /\ [AccessNext]_accessVars => RowsOK'
<1> SUFFICES ASSUME AccessInv, [AccessNext]_accessVars
             PROVE  RowsOK'
  OBVIOUS
<1>a. Types /\ HandlersOK /\ RowsOK /\ Types' /\ Keeps
  BY StepKeeps DEF AccessInv
<1>b. ingested \in Seq(Row) /\ now \in Nat
  BY <1>a, Shapes DEF Types
<1>1. ASSUME NEW t \in DOMAIN store, NEW d \in Datasets, platform_ingest(t, d)
      PROVE  RowsOK'
  <2>1. /\ DOMAIN store' = DOMAIN store
        /\ \A u \in DOMAIN store : store'[u].uses = IF u = t THEN store[u].uses + 1 ELSE store[u].uses
    <3>1. Reason("policy", t, d) = "ok" \/ Reason("service", t, d) = "ok"
      BY <1>1 DEF platform_ingest, consume_policy_token, use_service_token
    <3>2. store[t].kind = "policy" => store[t].uses = 0
      BY <1>a, <3>1, Usable
    <3>3. QED
      BY <1>1, <1>a, <3>2, UsedTokens DEF platform_ingest
  <2>2. PICK h : h.token = t /\ pending' \subseteq pending \cup {h}
    <3>1. PICK h : h = [op |-> "append", worker |-> FreeWorker, token |-> t, dataset |-> d, at |-> now]
      OBVIOUS
    <3>2. h.token = t
      BY <3>1
    <3>3. pending' \subseteq pending \cup {h}
      BY <1>1, <3>1 DEF platform_ingest, Start
    <3>4. QED
      BY <3>2, <3>3
  <2>3. ingested' = ingested
    BY <1>1 DEF platform_ingest
  <2>4. ASSUME NEW u \in DOMAIN store
        PROVE  Cardinality(Rows(u)') + Cardinality(Running("append", u)') <= store'[u].uses
    <3>1. Rows(u)' = Rows(u) /\ Cardinality(Rows(u)) \in Nat
      BY <2>3, Uses DEF Rows
    <3>2. /\ Running("append", u)' \subseteq Running("append", u) \cup {h}
          /\ u # t => Running("append", u)' \subseteq Running("append", u)
      BY <2>2 DEF Running
    <3>3. /\ Cardinality(Running("append", u)') \in Nat /\ Cardinality(Running("append", u)) \in Nat
          /\ Cardinality(Running("append", u)') <= Cardinality(Running("append", u)) + 1
          /\ u # t => Cardinality(Running("append", u)') <= Cardinality(Running("append", u))
      BY <3>2, Uses, OneMore
    <3>4. store[u].uses \in Nat /\ Cardinality(Rows(u)) + Cardinality(Running("append", u)) <= store[u].uses
      BY <1>a, Uses DEF RowsOK
    <3>5. QED
      BY <2>1, <3>1, <3>3, <3>4
  <2>5. QED
    BY <1>a, <2>1, <2>3, <2>4, RowsKept DEF RowsOK, MayUse
<1>2. ASSUME NEW p \in pending, append_row(p)
      PROVE  RowsOK'
  <2>n. PICK n : n = Len(ingested) + 1
    OBVIOUS
  <2>1. PICK row : row = [dataset |-> p.dataset, token |-> p.token, at |-> p.at]
    OBVIOUS
  <2>2. p.op = "append" /\ MayUse(p, {"policy", "service"}) /\ IngestRecord(p.token, p.dataset) \in audit
    BY <1>2, <1>a DEF append_row, HandlersOK, HandlerOK
  <2>3. p.token \in DOMAIN store /\ p.token # NoToken /\ p.at \in Nat /\ p.dataset \in Datasets
    BY <1>a, <2>2, Uses, Shapes DEF MayUse, Token
  <2>4. row \in Row /\ row.token = p.token /\ row.dataset = p.dataset /\ row.at = p.at
    <3>1. p.token \in Nat
      BY <1>a, <2>3, Shapes
    <3>2. QED
      BY <2>1, <2>3, <3>1 DEF Row
  <2>5. /\ DOMAIN ingested' = DOMAIN ingested \cup {n} /\ n \notin DOMAIN ingested
        /\ ingested'[n] = row /\ \A i \in DOMAIN ingested : ingested'[i] = ingested[i]
    BY <1>2, <1>b, <2>n, <2>1, <2>4, Appended DEF append_row
  <2>6. pending' = pending \ {p} /\ store' = store /\ audit' = audit
    BY <1>2 DEF append_row, Finish
  <2>7. ASSUME NEW u \in DOMAIN store
        PROVE  Cardinality(Rows(u)') + Cardinality(Running("append", u)') <= store[u].uses
    <3>1. /\ Rows(u)' \subseteq Rows(u) \cup {n} /\ Running("append", u)' \subseteq Running("append", u)
          /\ u # p.token => Rows(u)' \subseteq Rows(u)
          /\ u = p.token => p \in Running("append", u) /\ Running("append", u)' \subseteq Running("append", u) \ {p}
      BY <2>2, <2>4, <2>5, <2>6 DEF Rows, Running
    <3>2. /\ Cardinality(Rows(u)') \in Nat /\ Cardinality(Rows(u)) \in Nat
          /\ Cardinality(Rows(u)') <= Cardinality(Rows(u)) + 1
          /\ u # p.token => Cardinality(Rows(u)') <= Cardinality(Rows(u))
      BY <3>1, Uses, OneMore
    <3>3. /\ Cardinality(Running("append", u)') \in Nat /\ Cardinality(Running("append", u)) \in Nat
          /\ Cardinality(Running("append", u)') <= Cardinality(Running("append", u))
          /\ u = p.token => Cardinality(Running("append", u)') + 1 <= Cardinality(Running("append", u))
      <4>1. Running("append", u)' \subseteq Running("append", u) \cup {p}
        BY <3>1
      <4>2. QED
        BY <3>1, <4>1, Uses, OneMore
    <3>4. store[u].uses \in Nat /\ Cardinality(Rows(u)) + Cardinality(Running("append", u)) <= store[u].uses
      BY <1>a, Uses DEF RowsOK
    <3>5. QED
      BY <3>2, <3>3, <3>4
  <2>8. MayUse(row, {"policy", "service"}) /\ IngestRecord(row.token, row.dataset) \in audit
    BY <2>2, <2>4 DEF MayUse
  <2>9. ASSUME NEW i \in DOMAIN ingested', ingested'[i].token # NoToken
        PROVE  /\ MayUse(ingested[i], {"policy", "service"})'
               /\ IngestRecord(ingested'[i].token, ingested'[i].dataset) \in audit'
    <3>1. CASE i \in DOMAIN ingested
      BY <1>a, <2>5, <2>6, <2>9, <3>1 DEF RowsOK, MayUse
    <3>2. CASE i = n
      BY <2>5, <2>6, <2>8, <3>2 DEF MayUse
    <3>3. QED
      BY <2>5, <3>1, <3>2
  <2>10. QED
    BY <2>6, <2>7, <2>9 DEF RowsOK
<1>3. ASSUME NEW d \in Datasets, ingest_legacy(d)
      PROVE  RowsOK'
  <2>n. PICK n : n = Len(ingested) + 1
    OBVIOUS
  <2>1. PICK row \in Row : row = [dataset |-> d, token |-> NoToken, at |-> now]
    BY <1>b DEF Row, NoToken
  <2>2. /\ DOMAIN ingested' = DOMAIN ingested \cup {n} /\ n \notin DOMAIN ingested
        /\ ingested'[n] = row /\ \A i \in DOMAIN ingested : ingested'[i] = ingested[i]
    BY <1>3, <1>b, <2>n, <2>1, Appended DEF ingest_legacy
  <2>3. row.token = NoToken /\ UNCHANGED <<pending, store, audit>>
    BY <1>3, <2>1 DEF ingest_legacy
  <2>4. \A u \in DOMAIN store : Rows(u)' = Rows(u) /\ Running("append", u)' = Running("append", u)
    BY <2>2, <2>3, Uses DEF Rows, Running
  <2>5. QED
    BY <1>a, <2>2, <2>3, <2>4 DEF RowsOK, MayUse
<1>4. ASSUME UNCHANGED ingested, ~Adds("append")
      PROVE  RowsOK'
  BY <1>4, <1>a, NoUpload
<1>5. CASE Adds("append")
  BY <1>1, <1>5, Starts
<1>6. CASE VerifyActions
  BY <1>4, <1>5, <1>6 DEF VerifyActions, Responding, verifier_request, verifier_response, poll, redirect,
                          record_verification_result, mint_token
<1>7. CASE UseActions
  BY <1>1, <1>2, <1>3, <1>4, <1>5, <1>7
     DEF UseActions, platform_data, marketplace_register, marketplace_claim, use_for_registration, Tick, accessVars
<1>8. QED
  BY <1>6, <1>7, StepKinds
\* What a binding shows of its token.
BindingOK(b) ==
  IF b.token = NoToken THEN b.seller = NoSeller
                       ELSE MayUse(b, {"seller"}) /\ b.seller = store[b.token].holder

\* What a binding shows of its token stays so.
LEMMA BindingsKept ==
  ASSUME Types, Types', Keeps, BindingsOK
  PROVE  \A m \in Merchandises : \A b : b = merchandise_seller[m] => BindingOK(b) /\ BindingOK(b)'
<1> SUFFICES ASSUME NEW m \in Merchandises, NEW b, b = merchandise_seller[m]
             PROVE  BindingOK(b) /\ BindingOK(b)'
  OBVIOUS
<1>1. BindingOK(b)
  BY DEF BindingsOK, BindingOK
<1>2. CASE b.token = NoToken
  BY <1>1, <1>2 DEF BindingOK
<1>3. CASE b.token # NoToken
  <2>1. MayUse(b, {"seller"}) /\ b.seller = store[b.token].holder
    BY <1>1, <1>3 DEF BindingOK
  <2>2. MayUse(b, {"seller"})' /\ b.seller = store'[b.token].holder
    BY <2>1, Kept DEF Keeps, MayUse
  <2>3. QED
    BY <1>1, <1>3, <2>2 DEF BindingOK
<1>4. QED
  BY <1>2, <1>3

\* A contract is bound under a seller token that allows it and has the uses for it.
LEMMA BindingsStep == AccessInv /\ [AccessNext]_accessVars => BindingsOK'
<1> SUFFICES ASSUME AccessInv, [AccessNext]_accessVars
             PROVE  BindingsOK'
  OBVIOUS
<1>a. Types /\ HandlersOK /\ BindingsOK /\ Types' /\ Keeps
  BY StepKeeps DEF AccessInv
<1>b. \A t \in DOMAIN store' : t \in Nat /\ t # NoToken /\ store'[t].uses \in Nat
  <2>1. DOMAIN store' = 1..Len(store') /\ store' \in Seq(Token)
    BY <1>a DEF Types
  <2>2. \A t \in DOMAIN store' : store'[t] \in Token
    BY <2>1
  <2>3. QED
    BY <2>1, <2>2 DEF NoToken, Token
<1>c. \A t \in DOMAIN store : /\ IsFiniteSet(BoundBy(t)) /\ Cardinality(BoundBy(t)) \in Nat
                              /\ store[t].uses \in Nat
                              /\ Cardinality(BoundBy(t)) + Cardinality(Running("owner", t)) <= store[t].uses
  BY <1>a, Uses, FS_CardinalityType DEF BindingsOK
<1>1. ASSUME UNCHANGED merchandise_seller,
             \A t \in DOMAIN store' : /\ IsFiniteSet(BoundBy(t))
                                      /\ Cardinality(BoundBy(t)) + Cardinality(Running("owner", t)') <= store'[t].uses
      PROVE  BindingsOK'
  <2>1. \A t : BoundBy(t)' = BoundBy(t)
    BY <1>1 DEF BoundBy
  <2>2. \A m \in Merchandises : \A b : b = merchandise_seller[m] => BindingOK(b)'
    BY <1>a, BindingsKept
  <2>3. QED
    BY <1>1, <2>1, <2>2 DEF BindingsOK, BindingOK, MayUse
<1>2. ASSUME NEW t \in DOMAIN store, NEW m \in Merchandises, NEW d \in Datasets, use_for_registration(t, m, d)
      PROVE  BindingsOK'
  <2>1. /\ DOMAIN store' = DOMAIN store
        /\ \A u \in DOMAIN store : store'[u].uses = IF u = t THEN store[u].uses + 1 ELSE store[u].uses
    <3>1. store[t].kind = "seller"
      BY <1>2, <1>a, Usable DEF use_for_registration, use_seller_token
    <3>2. QED
      BY <1>2, <1>a, <3>1, UsedTokens DEF use_for_registration
  <2>2. PICK h : h.token = t /\ pending' \subseteq pending \cup {h}
    <3>1. PICK h : h = [op |-> "owner", worker |-> FreeWorker, token |-> t, merchandise |-> m, dataset |-> d, at |-> now]
      OBVIOUS
    <3>2. h.token = t
      BY <3>1
    <3>3. pending' \subseteq pending \cup {h}
      BY <1>2, <3>1 DEF use_for_registration, Start
    <3>4. QED
      BY <3>2, <3>3
  <2>3. ASSUME NEW u \in DOMAIN store
        PROVE  Cardinality(BoundBy(u)) + Cardinality(Running("owner", u)') <= store'[u].uses
    <3>1. /\ Running("owner", u)' \subseteq Running("owner", u) \cup {h}
          /\ u # t => Running("owner", u)' \subseteq Running("owner", u)
      BY <2>2 DEF Running
    <3>2. /\ Cardinality(Running("owner", u)') \in Nat /\ Cardinality(Running("owner", u)) \in Nat
          /\ Cardinality(Running("owner", u)') <= Cardinality(Running("owner", u)) + 1
          /\ u # t => Cardinality(Running("owner", u)') <= Cardinality(Running("owner", u))
      BY <3>1, Uses, OneMore
    <3>3. QED
      BY <1>c, <2>1, <3>2
  <2>4. UNCHANGED merchandise_seller
    BY <1>2 DEF use_for_registration
  <2>5. QED
    BY <1>1, <1>c, <2>1, <2>3, <2>4
<1>3. ASSUME UNCHANGED merchandise_seller, ~Adds("owner")
      PROVE  BindingsOK'
  <2>1. \A u : Running("owner", u)' \subseteq Running("owner", u)
    BY <1>3 DEF Running, Adds
  <2>2. \A u : /\ Cardinality(Running("owner", u)') <= Cardinality(Running("owner", u))
               /\ Cardinality(Running("owner", u)') \in Nat /\ Cardinality(Running("owner", u)) \in Nat
    BY <2>1, Uses, FS_Subset, FS_CardinalityType
  <2>3. ASSUME NEW u \in DOMAIN store'
        PROVE  /\ IsFiniteSet(BoundBy(u))
               /\ Cardinality(BoundBy(u)) + Cardinality(Running("owner", u)') <= store'[u].uses
    <3>1. CASE u \in DOMAIN store
      <4>1. store[u].uses <= store'[u].uses
        BY <1>a, <3>1 DEF Keeps
      <4>2. QED
        BY <1>b, <1>c, <2>2, <3>1, <4>1
    <3>2. CASE u \notin DOMAIN store
      <4>1. /\ Cardinality(BoundBy(u)) = 0 /\ Cardinality(Running("owner", u)) = 0
            /\ IsFiniteSet(BoundBy(u))
        BY <1>b, <3>2, Uses, FS_EmptySet
      <4>2. QED
        BY <1>b, <2>2, <4>1
    <3>3. QED
      BY <3>1, <3>2
  <2>4. QED
    BY <1>1, <1>3, <2>3
<1>4. ASSUME NEW p \in pending, marketplace_register(p), ~UNCHANGED merchandise_seller
      PROVE  BindingsOK'
  <2>1. p.op = "owner" /\ MayUse(p, {"seller"}) /\ p.token \in DOMAIN store /\ p.token # NoToken
    BY <1>4, <1>a, Uses DEF marketplace_register, HandlersOK, HandlerOK, MayUse
  <2>2. PICK b : b = [seller |-> store[p.token].holder, token |-> p.token, dataset |-> p.dataset, at |-> p.at]
    OBVIOUS
  <2>3. pending' = pending \ {p} /\ store' = store /\ merchandise_seller' = [merchandise_seller EXCEPT ![p.merchandise] = b]
    BY <1>4, <2>2 DEF marketplace_register, Finish
  <2>4. \A m \in Merchandises : \/ merchandise_seller'[m] = merchandise_seller[m]
                                \/ merchandise_seller'[m] = b /\ m = p.merchandise
    BY <1>a, <2>3 DEF Types
  <2>5. b.token = p.token /\ b.dataset = p.dataset /\ b.at = p.at /\ b.seller = store[p.token].holder
    BY <2>2
  <2>6. BindingOK(b)
    BY <2>1, <2>5 DEF BindingOK, MayUse
  <2>7. \A m \in Merchandises : \A c : c = merchandise_seller'[m] => BindingOK(c)'
    <3>1. \A m \in Merchandises : \A c : c = merchandise_seller[m] => BindingOK(c)'
      BY <1>a, BindingsKept
    <3>2. BindingOK(b)'
      BY <2>3, <2>6 DEF BindingOK, MayUse
    <3>3. QED
      BY <2>4, <3>1, <3>2
  <2>8. ASSUME NEW u \in DOMAIN store
        PROVE  /\ IsFiniteSet(BoundBy(u)')
               /\ Cardinality(BoundBy(u)') + Cardinality(Running("owner", u)') <= store[u].uses
    <3>1. /\ BoundBy(u)' \subseteq BoundBy(u) \cup {p.merchandise} /\ Running("owner", u)' \subseteq Running("owner", u)
          /\ u # p.token => BoundBy(u)' \subseteq BoundBy(u)
          /\ u = p.token => p \in Running("owner", u) /\ Running("owner", u)' \subseteq Running("owner", u) \ {p}
      BY <2>1, <2>3, <2>4, <2>5 DEF BoundBy, Running
    <3>2. /\ Cardinality(BoundBy(u)') \in Nat /\ Cardinality(BoundBy(u)) \in Nat /\ IsFiniteSet(BoundBy(u)')
          /\ Cardinality(BoundBy(u)') <= Cardinality(BoundBy(u)) + 1
          /\ u # p.token => Cardinality(BoundBy(u)') <= Cardinality(BoundBy(u))
      BY <1>c, <3>1, OneMore
    <3>3. /\ Cardinality(Running("owner", u)') \in Nat /\ Cardinality(Running("owner", u)) \in Nat
          /\ Cardinality(Running("owner", u)') <= Cardinality(Running("owner", u))
          /\ u = p.token => Cardinality(Running("owner", u)') + 1 <= Cardinality(Running("owner", u))
      <4>1. Running("owner", u)' \subseteq Running("owner", u) \cup {p}
        BY <3>1
      <4>2. QED
        BY <3>1, <4>1, Uses, OneMore
    <3>4. QED
      BY <1>c, <3>2, <3>3
  <2>9. QED
    BY <2>3, <2>7, <2>8 DEF BindingsOK, BindingOK, MayUse
<1>5. CASE Adds("owner")
  BY <1>2, <1>5, Starts
<1>6. CASE VerifyActions
  BY <1>3, <1>5, <1>6 DEF VerifyActions, Responding, verifier_request, verifier_response, poll, redirect,
                          record_verification_result, mint_token
<1>7. CASE UseActions
  BY <1>2, <1>3, <1>4, <1>5, <1>7
     DEF UseActions, platform_ingest, platform_data, append_row, ingest_legacy, marketplace_claim, Tick, accessVars
<1>8. QED
  BY <1>6, <1>7, StepKinds

\* A viewer token reads its credential's dataset, with views of the buyer's tier.
LEMMA ViewerTokens ==
  ASSUME AccessInv, NEW t \in DOMAIN store, store[t].kind = "viewer"
  PROVE  /\ store[t].scope = {store[t].vc.dataset}
         /\ store[t].views \subseteq {"event"} \cup TierViews(store[t].vc)
<1>a. Types /\ TokenOK(t) /\ ClaimsOK
  BY DEF AccessInv, TokensOK
<1> DEFINE vc == store[t].vc
           kind == requests[store[t].request].kind
<1>1. kind \in Kinds /\ Answers(store[t].request, vc)
  BY <1>a, Shapes DEF TokenOK, VerificationRequest
<1>2. kind \in DatasetKinds
  BY <1>a, <1>1 DEF TokenOK, DatasetKinds, Kinds
<1>3. store[t].scope = {vc.dataset} /\ store[t].views \subseteq {"event"} \cup vc.views
  BY <1>a, <1>2 DEF TokenOK, OpensNoMore
<1>4. vc.claim \in 0..Len(claims) /\ vc.views = IF vc.claim = NoClaim THEN {} ELSE claims[vc.claim].views
  BY <1>1 DEF Answers, Granted
<1> HIDE DEF vc
<1>5. vc.views \subseteq {"event"} \cup TierViews(vc)
  <2>1. CASE vc.claim = NoClaim
    BY <1>4, <2>1
  <2>2. CASE vc.claim # NoClaim
    <3>1. vc.claim \in DOMAIN claims
      BY <1>a, <1>4, <2>2, Shapes DEF NoClaim
    <3>2. vc.views \subseteq ViewsOf(claims[vc.claim].attrs)
      BY <1>a, <1>4, <2>2, <3>1 DEF ClaimsOK
    <3>3. QED
      BY <2>2, <3>2 DEF TierViews, ViewsOf
  <2>3. QED
    BY <2>1, <2>2
<1>6. QED
  BY <1>3, <1>5 DEF vc

\* What was served stays within the tier, and so does what is served now.
LEMMA ServedStep == AccessInv /\ [AccessNext]_accessVars => ServedOK'
<1> SUFFICES ASSUME AccessInv, [AccessNext]_accessVars
             PROVE  ServedOK'
  OBVIOUS
<1>a. Types /\ TokensOK /\ ServedOK /\ Types' /\ Keeps
  BY StepKeeps DEF AccessInv
<1> DEFINE Within(s) == /\ s.token \in DOMAIN store /\ s.dataset = store[s.token].vc.dataset
                        /\ s.keys \ {"event"} \subseteq TierViews(store[s.token].vc)
<1>1. \A s \in served : Within(s)
  BY <1>a DEF ServedOK, MediaWithinTier
<1>2. ASSUME NEW s, Within(s)
      PROVE  Within(s)'
  <2>1. s.token \in DOMAIN store' /\ store'[s.token].vc = store[s.token].vc /\ vlm' = vlm
    BY <1>2, <1>a DEF Keeps
  <2>2. store[s.token].vc.claim \in 0..Len(claims)
    BY <1>2, <1>a DEF TokensOK, TokenOK, Answers, Granted
  <2>3. store[s.token].vc.claim # NoClaim => claims'[store[s.token].vc.claim] = claims[store[s.token].vc.claim]
    <3>1. store[s.token].vc.claim # NoClaim => store[s.token].vc.claim \in DOMAIN claims
      BY <1>a, <2>2, Shapes DEF NoClaim
    <3>2. QED
      BY <1>a, <3>1 DEF Keeps
  <2>4. TierViews(store[s.token].vc)' = TierViews(store[s.token].vc)
    BY <2>1, <2>3 DEF TierViews
  <2>5. QED
    BY <1>2, <2>1, <2>4
<1>3. ASSUME \A s \in served' : Within(s)
      PROVE  ServedOK'
  <2>1. \A s \in served' : Within(s)'
    BY <1>2, <1>3
  <2>2. QED
    BY <2>1 DEF ServedOK, MediaWithinTier
<1>4. ASSUME UNCHANGED served
      PROVE  ServedOK'
  BY <1>1, <1>3, <1>4
<1>5. ASSUME NEW t \in DOMAIN store, NEW d \in Datasets, platform_data(t, d)
      PROVE  ServedOK'
  <2>1. store[t].kind = "viewer" /\ d \in store[t].scope
    BY <1>5, <1>a, Usable DEF platform_data, use_viewer_token
  <2>2. store[t].scope = {store[t].vc.dataset} /\ store[t].views \subseteq {"event"} \cup TierViews(store[t].vc)
    BY <2>1, ViewerTokens
  <2>3. Project(store[t].views) \ {"event"} \subseteq TierViews(store[t].vc)
    BY <2>2 DEF Project
  <2>4. ASSUME NEW s, s.token = t, s.dataset = d, s.keys = Project(store[t].views)
        PROVE  Within(s)
    BY <2>1, <2>2, <2>3, <2>4
  <2> HIDE DEF Within
  <2>5. \A s \in served' : s \in served \/ (s.token = t /\ s.dataset = d /\ s.keys = Project(store[t].views))
    BY <1>5 DEF platform_data
  <2>6. QED
    BY <1>1, <1>3, <2>4, <2>5
<1>6. CASE VerifyActions
  BY <1>4, <1>6 DEF VerifyActions, Responding, verifier_request, verifier_response, poll, redirect,
                    record_verification_result, mint_token
<1>7. CASE UseActions
  BY <1>4, <1>5, <1>7 DEF UseActions, platform_ingest, append_row, marketplace_register, ingest_legacy,
                          marketplace_claim, use_for_registration, Tick, accessVars
<1>8. QED
  BY <1>6, <1>7, StepKinds
-----------------------------------------------------------------------------
(***************************************************************************)
(* The properties.                                                         *)
(***************************************************************************)

\* Every step keeps the invariant.
LEMMA AccessInvariance == AccessSpec => []AccessInv
<1>1. AccessInv /\ [AccessNext]_accessVars => AccessInv'
  BY StepKeeps, HandlersStep, TokensStep, ClaimsStep, RowsStep, BindingsStep, ServedStep DEF AccessInv
<1>2. QED
  BY AccessInitInv, <1>1, PTL DEF AccessSpec

\* The publisher's stores and handlers keep their types, however requests, wallets, pages and uploads
\* interleave.
THEOREM AccessTypes == AccessSpec => []AccessTypeOK
<1>1. AccessInv => AccessTypeOK
  <2> SUFFICES ASSUME AccessInv
               PROVE  AccessTypeOK
    OBVIOUS
  <2>a. Types /\ HandlersOK /\ TokensOK
    BY DEF AccessInv
  <2>1. now \in 0..MaxTime /\ vlm \in BOOLEAN /\ failures \in 0..MaxAuditFailures /\ now \in Nat
    BY <2>a, Shapes DEF Types
  <2>2. ASSUME NEW r \in DOMAIN requests
        PROVE  /\ requests[r].kind \in Kinds /\ requests[r].created_at \in 0..now
               /\ requests[r].result.token \in 0..Len(store)
    <3>1. requests[r].kind \in Kinds /\ requests[r].created_at \in Nat /\ requests[r].result.token \in Nat
      BY <2>a, Shapes DEF VerificationRequest
    <3>2. requests[r].created_at <= now /\ requests[r].result.token <= Len(store) /\ Len(store) \in Nat
      BY <2>a, Shapes DEF Types
    <3>3. QED
      BY <2>1, <3>1, <3>2
  <2>3. ASSUME NEW t \in DOMAIN store
        PROVE  /\ store[t].kind \in {"policy", "viewer", "service", "seller"}
               /\ store[t].scope \in (SUBSET Datasets) \ {{}}
               /\ store[t].views \subseteq AllViews
               /\ store[t].uses \in 0..MaxUses /\ store[t].vc \in Credential
    <3>1. /\ store[t].kind \in {"policy", "viewer", "service", "seller"} /\ store[t].scope \subseteq Datasets
          /\ store[t].views \subseteq AllViews /\ store[t].uses \in Nat /\ store[t].vc \in Credential
      BY <2>a, Shapes DEF Token
    <3>2. store[t].scope # {} /\ store[t].uses <= MaxUses /\ MaxUses \in Nat
      BY <2>a, Bounds DEF TokensOK, TokenOK
    <3>3. QED
      BY <3>1, <3>2
  <2>4. \A p \in pending : p.op \in {"verified", "recorded", "append", "owner"}
    BY <2>a DEF HandlersOK, HandlerOK
  <2>5. DOMAIN page = DOMAIN requests /\ \A r \in DOMAIN page : page[r] \in PageStates
    BY <2>a, Shapes DEF Types
  <2>6. QED
    BY <2>1, <2>2, <2>3, <2>4, <2>5 DEF AccessTypeOK, PageStates
<1>2. QED
  BY AccessInvariance, <1>1, PTL

\* Whoever verified it, every token was minted on a credential that grants what the token grants, and a
\* viewer token opens no view beyond the credential's, or the events where it names none.
THEOREM TokensFromCredentials == AccessSpec => []TokensBacked
<1>1. AccessInv => TokensBacked
  BY DEF AccessInv, TokensOK, TokenOK, OpensNoMore, Answers, TokensBacked
<1>2. QED
  BY AccessInvariance, <1>1, PTL

\* Rows are written only within a token's dataset and time, and one at most under a policy token, whatever
\* uploads present it at once.
THEOREM UploadsAuthorised == AccessSpec => []WritesAuthorised
<1>1. AccessInv => WritesAuthorised
  <2> SUFFICES ASSUME AccessInv, NEW t \in DOMAIN store
               PROVE  /\ \A i \in Rows(t) : /\ store[t].kind \in {"policy", "service"}
                                            /\ ingested[i].dataset \in store[t].scope
                                            /\ ingested[i].at <= store[t].expires_at
                      /\ store[t].kind = "policy" => Cardinality(Rows(t)) + Cardinality(Running("append", t)) <= 1
    BY Zenon DEF WritesAuthorised, Rows, Running
  <2>a. t # NoToken /\ store[t].uses \in Nat /\ Cardinality(Rows(t)) \in Nat /\ Cardinality(Running("append", t)) \in Nat
    BY Uses
  <2>1. \A i \in Rows(t) : MayUse(ingested[i], {"policy", "service"}) /\ ingested[i].token = t
    BY <2>a DEF AccessInv, RowsOK, Rows
  <2>2. Cardinality(Rows(t)) + Cardinality(Running("append", t)) <= store[t].uses
    BY DEF AccessInv, RowsOK
  <2>3. store[t].kind = "policy" => store[t].uses <= 1
    BY DEF AccessInv, TokensOK, TokenOK
  <2>4. QED
    BY <2>a, <2>1, <2>2, <2>3 DEF MayUse
<1>2. QED
  BY AccessInvariance, <1>1, PTL

\* Whenever the audit database refuses a write, no row is stored that the audit log does not tell of.
THEOREM UploadsAudited == AccessSpec => []RowsAudited
<1>1. AccessInv => RowsAudited
  BY DEF AccessInv, RowsOK, HandlersOK, HandlerOK, IngestRecord, RowsAudited
<1>2. QED
  BY AccessInvariance, <1>1, PTL

\* A buyer reads the dataset bought, and of its media and descriptions only what the level of the
\* buyer's attributes opens, whatever the profile and however uploads, purchases and expiry interleave.
THEOREM MediaReadWithinTier == AccessSpec => []MediaWithinTier
<1>1. AccessInv => MediaWithinTier
  BY DEF AccessInv, ServedOK
<1>2. QED
  BY AccessInvariance, <1>1, PTL

\* A contract is bound to the holder of a licence for its dataset, and every binding is counted.
THEOREM ContractsLicensed == AccessSpec => []BindingsLicensed
<1>1. AccessInv => BindingsLicensed
  <2> SUFFICES ASSUME AccessInv, NEW m \in Merchandises, merchandise_seller[m].seller # NoSeller,
                      NEW b, b = merchandise_seller[m]
               PROVE  /\ b.token \in DOMAIN store /\ store[b.token].kind = "seller"
                      /\ b.dataset \in store[b.token].vc.allowed /\ b.seller = store[b.token].vc.holder
                      /\ b.at <= store[b.token].expires_at
                      /\ Cardinality(BoundBy(b.token)) <= store[b.token].uses
    BY Zenon DEF BindingsLicensed, BoundBy
  <2>1. MayUse(b, {"seller"}) /\ b.seller = store[b.token].holder
    BY DEF AccessInv, BindingsOK
  <2>2. b.token \in DOMAIN store /\ store[b.token].kind = "seller"
    BY <2>1 DEF MayUse
  <2>3. store[b.token].scope = store[b.token].vc.allowed /\ store[b.token].holder = store[b.token].vc.holder
    BY <2>2 DEF AccessInv, TokensOK, TokenOK
  <2>4. Cardinality(BoundBy(b.token)) <= store[b.token].uses
    <3>1. /\ Cardinality(BoundBy(b.token)) \in Nat /\ Cardinality(Running("owner", b.token)) \in Nat
          /\ store[b.token].uses \in Nat
          /\ Cardinality(BoundBy(b.token)) + Cardinality(Running("owner", b.token)) <= store[b.token].uses
      BY <2>2, Uses, FS_CardinalityType DEF AccessInv, BindingsOK
    <3>2. QED
      BY <3>1
  <2>5. QED
    BY <2>1, <2>2, <2>3, <2>4 DEF MayUse
<1>2. QED
  BY AccessInvariance, <1>1, PTL

(***************************************************************************)
(* The data users and their trust: the three programs that judge a data    *)
(* user agree, and none of their tables lets anybody gain by a worse       *)
(* attribute.                                                              *)
(***************************************************************************)

-----------------------------------------------------------------------------
(***************************************************************************)
(* The circuit's comparison.                                               *)
(***************************************************************************)
LEMMA Powers == /\ 2 ^ 0 = 1 /\ 2 ^ 1 = 2 /\ 2 ^ 2 = 4 /\ 2 ^ 3 = 8 /\ 2 ^ 4 = 16
                /\ 2 ^ 5 = 32 /\ 2 ^ 6 = 64
  OBVIOUS

\* A number that seven bits hold is the sum of its bits.
Value(x) == x[0] + 2 * x[1] + 4 * x[2] + 8 * x[3] + 16 * x[4] + 32 * x[5] + 64 * x[6]

\* Seven bits hold any number up to 127 (Bits7).
LEMMA BitsOf ==
  ASSUME NEW n \in 0 .. 127
  PROVE  /\ \A i \in 0 .. 6 : Bits7(n)[i] \in {0, 1}
         /\ n = Value(Bits7(n))
  BY Powers DEF Bits7, Value

\* From the highest bit down, the first difference decides (LessThanConst7).
LEMMA FirstDifference ==
  ASSUME NEW x, NEW k, \A i \in 0 .. 6 : x[i] \in {0, 1} /\ k[i] \in {0, 1}
  PROVE  LessThanConst7(x, k) <=> Value(x) < Value(k)
<1> DEFINE Below(i) == x[i] = 0 /\ k[i] = 1 /\ \A j \in i + 1 .. 6 : x[j] = k[j]
<1>1. /\ x[0] \in {0, 1} /\ x[1] \in {0, 1} /\ x[2] \in {0, 1} /\ x[3] \in {0, 1}
      /\ x[4] \in {0, 1} /\ x[5] \in {0, 1} /\ x[6] \in {0, 1}
      /\ k[0] \in {0, 1} /\ k[1] \in {0, 1} /\ k[2] \in {0, 1} /\ k[3] \in {0, 1}
      /\ k[4] \in {0, 1} /\ k[5] \in {0, 1} /\ k[6] \in {0, 1}
  OBVIOUS
<1>2. /\ Below(6) <=> x[6] = 0 /\ k[6] = 1
      /\ Below(5) <=> x[5] = 0 /\ k[5] = 1 /\ x[6] = k[6]
      /\ Below(4) <=> x[4] = 0 /\ k[4] = 1 /\ x[5] = k[5] /\ x[6] = k[6]
      /\ Below(3) <=> x[3] = 0 /\ k[3] = 1 /\ x[4] = k[4] /\ x[5] = k[5] /\ x[6] = k[6]
      /\ Below(2) <=> x[2] = 0 /\ k[2] = 1 /\ x[3] = k[3] /\ x[4] = k[4] /\ x[5] = k[5] /\ x[6] = k[6]
      /\ Below(1) <=> x[1] = 0 /\ k[1] = 1 /\ x[2] = k[2] /\ x[3] = k[3] /\ x[4] = k[4] /\ x[5] = k[5]
                      /\ x[6] = k[6]
      /\ Below(0) <=> x[0] = 0 /\ k[0] = 1 /\ x[1] = k[1] /\ x[2] = k[2] /\ x[3] = k[3] /\ x[4] = k[4]
                      /\ x[5] = k[5] /\ x[6] = k[6]
  OBVIOUS
<1>3. LessThanConst7(x, k) <=> Below(0) \/ Below(1) \/ Below(2) \/ Below(3) \/ Below(4) \/ Below(5) \/ Below(6)
  <2>1. LessThanConst7(x, k) <=> \E i \in 0 .. 6 : Below(i)
    BY DEF LessThanConst7
  <2> HIDE DEF Below
  <2>2. QED
    BY <2>1
<1> HIDE DEF Below
<1>4. QED
  BY <1>1, <1>2, <1>3 DEF Value

\* On numbers of seven bits the circuit's comparison is the comparison of numbers.
LEMMA CompareBits ==
  ASSUME NEW n \in 0 .. 127, NEW m \in 0 .. 127
  PROVE  LessThanConst7(Bits7(n), Bits7(m)) <=> n < m
  BY BitsOf, FirstDifference
-----------------------------------------------------------------------------
(***************************************************************************)
(* One score in three arithmetics.                                         *)
(***************************************************************************)
\* Score and entity as the circuit computes them from the codes of the attributes.
LEMMA CircuitScore ==
  ASSUME NEW a \in Attributes
  PROVE  /\ Score(a) \in 0 .. 100
         /\ UserTrustScoreLevel(a) = IF Score(a) >= 80 /\ a.entityType \in HIGH_TRUST_ENTITIES THEN 2
                                     ELSE IF Score(a) >= 60 THEN 1 ELSE 0
<1> DEFINE e == EntityCode(a.entityType)
           p == PurposeCode(a.purpose)
           gov == IsEqual(e, 1) + IsEqual(e, 2)
           other == 1 - (gov + IsEqual(e, 3) + IsEqual(e, 4))
           otherP == 1 - (IsEqual(p, 1) + IsEqual(p, 2) + IsEqual(p, 3))
           entity == 35 * gov + 20 * IsEqual(e, 3) + 15 * IsEqual(e, 4) + 5 * other
           purpose == 25 * IsEqual(p, 1) + 20 * IsEqual(p, 2) + 15 * IsEqual(p, 3) + 5 * otherP
<1>1. /\ gov = IF a.entityType \in HIGH_TRUST_ENTITIES THEN 1 ELSE 0
      /\ entity = EntityScore(a.entityType) /\ entity \in {5, 15, 20, 35}
  <2>1. a.entityType \in {"GOVERNMENTORGANIZATION", "POLICE", "ENTERPRISE", "RESEARCH ORGANIZATION", "OTHER"}
    BY DEF Attributes, EntityTypes, HIGH_TRUST_ENTITIES
  <2>2. CASE a.entityType = "GOVERNMENTORGANIZATION"
    <3>1. e = 1 /\ EntityScore(a.entityType) = 35
      BY <2>2 DEF EntityCode, EntityScore, HIGH_TRUST_ENTITIES
    <3> HIDE DEF e
    <3>2. gov = 1 /\ entity = 35
      BY <3>1 DEF IsEqual
    <3>3. QED
      BY <2>2, <3>1, <3>2 DEF HIGH_TRUST_ENTITIES
  <2>3. CASE a.entityType = "POLICE"
    <3>1. e = 2 /\ EntityScore(a.entityType) = 35
      BY <2>3 DEF EntityCode, EntityScore, HIGH_TRUST_ENTITIES
    <3> HIDE DEF e
    <3>2. gov = 1 /\ entity = 35
      BY <3>1 DEF IsEqual
    <3>3. QED
      BY <2>3, <3>1, <3>2 DEF HIGH_TRUST_ENTITIES
  <2>4. CASE a.entityType = "ENTERPRISE"
    <3>1. e = 3 /\ EntityScore(a.entityType) = 20
      BY <2>4 DEF EntityCode, EntityScore, HIGH_TRUST_ENTITIES
    <3> HIDE DEF e
    <3>2. gov = 0 /\ entity = 20
      BY <3>1 DEF IsEqual
    <3>3. QED
      BY <2>4, <3>1, <3>2 DEF HIGH_TRUST_ENTITIES
  <2>5. CASE a.entityType = "RESEARCH ORGANIZATION"
    <3>1. e = 4 /\ EntityScore(a.entityType) = 15
      BY <2>5 DEF EntityCode, EntityScore, HIGH_TRUST_ENTITIES
    <3> HIDE DEF e
    <3>2. gov = 0 /\ entity = 15
      BY <3>1 DEF IsEqual
    <3>3. QED
      BY <2>5, <3>1, <3>2 DEF HIGH_TRUST_ENTITIES
  <2>6. CASE a.entityType = "OTHER"
    <3>1. e = 0 /\ EntityScore(a.entityType) = 5
      BY <2>6 DEF EntityCode, EntityScore, HIGH_TRUST_ENTITIES
    <3> HIDE DEF e
    <3>2. gov = 0 /\ entity = 5
      BY <3>1 DEF IsEqual
    <3>3. QED
      BY <2>6, <3>1, <3>2 DEF HIGH_TRUST_ENTITIES
  <2>7. QED
    BY <2>1, <2>2, <2>3, <2>4, <2>5, <2>6
<1>2. purpose = PurposeScore(a.purpose) /\ purpose \in {5, 15, 20, 25}
  <2>1. a.purpose \in {"CRIME SEARCH", "TRAFFIC MANAGEMENT", "RESEARCH", "OTHER"}
    BY DEF Attributes, Purposes
  <2>2. CASE a.purpose = "CRIME SEARCH"
    <3>1. p = 1 /\ PurposeScore(a.purpose) = 25
      BY <2>2 DEF PurposeCode, PurposeScore
    <3> HIDE DEF p
    <3>2. purpose = 25
      BY <3>1 DEF IsEqual
    <3>3. QED
      BY <3>1, <3>2
  <2>3. CASE a.purpose = "TRAFFIC MANAGEMENT"
    <3>1. p = 2 /\ PurposeScore(a.purpose) = 20
      BY <2>3 DEF PurposeCode, PurposeScore
    <3> HIDE DEF p
    <3>2. purpose = 20
      BY <3>1 DEF IsEqual
    <3>3. QED
      BY <3>1, <3>2
  <2>4. CASE a.purpose = "RESEARCH"
    <3>1. p = 3 /\ PurposeScore(a.purpose) = 15
      BY <2>4 DEF PurposeCode, PurposeScore
    <3> HIDE DEF p
    <3>2. purpose = 15
      BY <3>1 DEF IsEqual
    <3>3. QED
      BY <3>1, <3>2
  <2>5. CASE a.purpose = "OTHER"
    <3>1. p = 0 /\ PurposeScore(a.purpose) = 5
      BY <2>5 DEF PurposeCode, PurposeScore
    <3> HIDE DEF p
    <3>2. purpose = 5
      BY <3>1 DEF IsEqual
    <3>3. QED
      BY <3>1, <3>2
  <2>6. QED
    BY <2>1, <2>2, <2>3, <2>4, <2>5
<1> DEFINE scoreCalc == 35 * gov + 20 * IsEqual(e, 3) + 15 * IsEqual(e, 4) + 5 * other
                        + 25 * IsEqual(p, 1) + 20 * IsEqual(p, 2) + 15 * IsEqual(p, 3) + 5 * otherP
                        + 15 * Bit(a.legalCompliance) + 15 * Bit(a.dataHandlingPolicy = "ISO27001")
                        + 10 - 20 * Bit(a.misuseRecord)
<1>3. scoreCalc = Score(a) /\ Score(a) \in 0 .. 100
  <2>1. /\ IsEqual(e, 1) \in {0, 1} /\ IsEqual(e, 2) \in {0, 1} /\ IsEqual(e, 3) \in {0, 1} /\ IsEqual(e, 4) \in {0, 1}
        /\ IsEqual(p, 1) \in {0, 1} /\ IsEqual(p, 2) \in {0, 1} /\ IsEqual(p, 3) \in {0, 1}
    BY DEF IsEqual
  <2> HIDE DEF e, p
  <2>2. scoreCalc = entity + purpose + 15 * Bit(a.legalCompliance) + 15 * Bit(a.dataHandlingPolicy = "ISO27001")
                    + 10 - 20 * Bit(a.misuseRecord)
    BY <2>1 DEF Bit
  <2> HIDE DEF scoreCalc, entity, purpose
  <2>3. a.legalCompliance \in BOOLEAN /\ a.misuseRecord \in BOOLEAN
    BY DEF Attributes
  <2>4. QED
    BY <1>1, <1>2, <2>2, <2>3 DEF Bit, Score
<1>4. UserTrustScoreLevel(a) =
        (1 - Bit(LessThanConst7(Bits7(scoreCalc), Bits7(60))))
          * (1 - (1 - Bit(LessThanConst7(Bits7(scoreCalc), Bits7(80)))) * gov)
        + 2 * ((1 - Bit(LessThanConst7(Bits7(scoreCalc), Bits7(80)))) * gov)
  BY DEF UserTrustScoreLevel
<1> HIDE DEF scoreCalc, gov
<1>5. /\ LessThanConst7(Bits7(scoreCalc), Bits7(60)) <=> Score(a) < 60
      /\ LessThanConst7(Bits7(scoreCalc), Bits7(80)) <=> Score(a) < 80
  <2>1. scoreCalc \in 0 .. 127 /\ 60 \in 0 .. 127 /\ 80 \in 0 .. 127
    BY <1>3
  <2>2. QED
    BY <1>3, <2>1, CompareBits
<1>6. QED
  BY <1>1, <1>3, <1>4, <1>5 DEF Bit

\* The contract's unsigned score is the publisher's, and so is its level.
LEMMA ContractLevel ==
  ASSUME NEW a \in Attributes
  PROVE  verifyUserAccess(a) = AccessLevel(a, FALSE)
<1>1. Score(a) \in 0 .. 100
  BY CircuitScore
<1> DEFINE before == EntityScore(a.entityType) + PurposeScore(a.purpose)
                     + (IF a.legalCompliance THEN 15 ELSE 0)
                     + (IF a.dataHandlingPolicy = "ISO27001" THEN 15 ELSE 0)
           score == IF a.misuseRecord THEN before - 10 ELSE before + 10
<1>2. EntityScore(a.entityType) \in Int /\ PurposeScore(a.purpose) \in Int
  BY DEF EntityScore, PurposeScore
<1>3. Score(a) = score
  BY <1>2 DEF Score
<1>4. verifyUserAccess(a) =
        CASE score < 0 -> Reverts
          [] score >= 80 /\ a.entityType \in HIGH_TRUST_ENTITIES -> "full"
          [] score >= 60 /\ ~(score >= 80 /\ a.entityType \in HIGH_TRUST_ENTITIES) -> "access"
          [] score \in 0 .. 59 -> "denied"
  BY DEF verifyUserAccess, EntityScore, PurposeScore, HIGH_TRUST_ENTITIES
<1> HIDE DEF score
<1>5. QED
  BY <1>1, <1>3, <1>4 DEF AccessLevel
-----------------------------------------------------------------------------
(***************************************************************************)
(* Nobody gains by a worse attribute.                                      *)
(***************************************************************************)
LEMMA ScoreMonotone ==
  ASSUME NEW a, NEW b, NoWorse(a, b)
  PROVE  /\ Score(a) \in Int /\ Score(b) \in Int /\ Score(a) <= Score(b)
         /\ a.entityType \in HIGH_TRUST_ENTITIES => b.entityType \in HIGH_TRUST_ENTITIES
<1>1. \A e : EntityScore(e) \in {5, 15, 20, 35} /\ (EntityScore(e) = 35 <=> e \in HIGH_TRUST_ENTITIES)
  <2> SUFFICES ASSUME NEW e
               PROVE  EntityScore(e) \in {5, 15, 20, 35} /\ (EntityScore(e) = 35 <=> e \in HIGH_TRUST_ENTITIES)
    OBVIOUS
  <2>1. CASE e \in HIGH_TRUST_ENTITIES
    BY <2>1 DEF EntityScore, HIGH_TRUST_ENTITIES
  <2>2. CASE e \notin HIGH_TRUST_ENTITIES
    BY <2>2 DEF EntityScore
  <2>3. QED
    BY <2>1, <2>2
<1>2. \A p : PurposeScore(p) \in Int
  BY DEF PurposeScore
<1>3. EntityScore(a.entityType) <= EntityScore(b.entityType) /\ PurposeScore(a.purpose) <= PurposeScore(b.purpose)
  BY DEF NoWorse
<1> DEFINE Rest(u) == (IF u.legalCompliance THEN 15 ELSE 0)
                      + (IF u.dataHandlingPolicy = "ISO27001" THEN 15 ELSE 0)
                      + (IF u.misuseRecord THEN -10 ELSE 10)
<1>4. Rest(a) \in Int /\ Rest(b) \in Int /\ Rest(a) <= Rest(b)
  BY DEF NoWorse
<1>5. \A u : Rest(u) \in Int => Score(u) = EntityScore(u.entityType) + PurposeScore(u.purpose) + Rest(u)
  BY <1>1, <1>2 DEF Score
<1> HIDE DEF Rest
<1>6. QED
  BY <1>1, <1>2, <1>3, <1>4, <1>5

\* Each table row holds the views of the rows below it, in both profiles.
LEMMA ViewsMonotone ==
  ASSUME NEW a, NEW b, NoWorse(a, b), NEW v \in BOOLEAN
  PROVE  Views(AccessLevel(a, v), v) \subseteq Views(AccessLevel(b, v), v)
<1>1. /\ Score(a) \in Int /\ Score(b) \in Int /\ Score(a) <= Score(b)
      /\ a.entityType \in HIGH_TRUST_ENTITIES => b.entityType \in HIGH_TRUST_ENTITIES
  BY ScoreMonotone
<1> DEFINE la == AccessLevel(a, v)
           lb == AccessLevel(b, v)
<1>2. /\ la \in Levels /\ lb \in Levels
      /\ la = "full" => lb = "full"
      /\ la = "access" => lb \in {"full", "access"}
      /\ la = "summary" => v /\ lb \in {"full", "access", "summary"}
  BY <1>1 DEF AccessLevel, Levels, SUMMARY_TIER_FLOOR
<1> HIDE DEF la, lb
<1>3. Views("denied", v) = {}
  BY DEF Views, LegacyViews, VlmViews
<1>4. /\ Views("access", v) \subseteq Views("full", v)
      /\ v => Views("summary", v) \subseteq Views("access", v) /\ Views("summary", v) \subseteq Views("full", v)
  <2>1. CASE v = TRUE
    BY <2>1 DEF Views, VlmViews, AllViews
  <2>2. CASE v = FALSE
    BY <2>2 DEF Views, LegacyViews
  <2>3. QED
    BY <2>1, <2>2
<1>5. Views(la, v) \subseteq Views(lb, v)
  BY <1>2, <1>3, <1>4 DEF Levels
<1>6. QED
  BY <1>5 DEF la, lb

-----------------------------------------------------------------------------
(***************************************************************************)
(* The results.                                                            *)
(***************************************************************************)
IssuedAttributes == dataUser \in Attributes

\* The publisher, the contract and the circuit give every data user one level, although one
\* counts without bounds, one without signs and one in seven bits.
THEOREM OneLevel == DataUserSpec => []PortsAgree
<1>1. DataUserInit => IssuedAttributes
  BY DEF DataUserInit, IssuedAttributes
<1>2. IssuedAttributes /\ [DataUserNext]_dataUser => IssuedAttributes'
  BY DEF DataUserNext, IssueDataUserVC, IssuedAttributes
<1>3. IssuedAttributes => PortsAgree
  <2> SUFFICES ASSUME dataUser \in Attributes
               PROVE  PortsAgree
    BY DEF IssuedAttributes
  <2>1. AccessLevel(dataUser, FALSE) = verifyUserAccess(dataUser)
    BY ContractLevel
  <2>2. Score(dataUser) \in 0 .. 100
    BY CircuitScore
  <2>3. AccessLevel(dataUser, FALSE) = LevelName[UserTrustScoreLevel(dataUser)]
    <3>1. LevelName[0] = "denied" /\ LevelName[1] = "access" /\ LevelName[2] = "full"
      BY DEF LevelName
    <3>2. QED
      BY <2>2, <3>1, CircuitScore DEF AccessLevel
  <2>4. QED
    BY <2>1, <2>3 DEF PortsAgree
<1>4. QED
  BY <1>1, <1>2, <1>3, PTL DEF DataUserSpec

\* A data user whose attributes become no worse keeps every view, in either profile.
THEOREM BetterSeeMore == DataUserSpec => BetterUsersSeeMore
<1>1. [DataUserNext]_dataUser =>
        [NoWorse(dataUser, dataUser') =>
           \A v \in BOOLEAN : Views(AccessLevel(dataUser, v), v) \subseteq Views(AccessLevel(dataUser', v), v)]_dataUser
  BY ViewsMonotone
<1>2. QED
  BY <1>1, PTL DEF DataUserSpec, BetterUsersSeeMore
===============================================================================
