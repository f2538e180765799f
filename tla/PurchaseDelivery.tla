--------------------------- MODULE PurchaseDelivery ---------------------------
(***************************************************************************)
(* How a purchase on the chain becomes a PurchaseViewerVC in a wallet.     *)
(* The bridge polls Purchase logs and posts a claim for each; the buyer's  *)
(* page posts one for its own transaction; the publisher turns the first   *)
(* claim of a transaction into an offer, the wallet redeems the offer for  *)
(* an access token and the token for the credential.  The publisher keeps  *)
(* all of it in memory, and takes what a claim says from its body: it has  *)
(* no access to the chain, and any other client may post one too.          *)
(*                                                                         *)
(* Hardhat mines a block per transaction: the n-th purchase is block and   *)
(* transaction hash n.  Claim ids, pre-authorized codes and access tokens  *)
(* are random in the code and named by the claim they are minted for here. *)
(***************************************************************************)
EXTENDS Naturals, Sequences, FiniteSets

CONSTANTS
  Merchs, Buyers, Wallets,
  DatasetInfo,        \* the dataset_id each contract carries in additionalInfo,
  NoDataset, Empty,   \* where it has one, and where it is not the empty string
  DatasetDefault,     \* what bridge and page fall back to
  NoWallet,
  OtherBodies,        \* bound: what clients other than bridge and page say of a purchase
  MaxPurchases,       \* bound: purchases on the chain
  MaxFailures,        \* bound: calls that fail or whose answer is lost
  MaxRestarts,        \* bound: restarts of bridge and publisher
  MaxOthers,          \* bound: calls by clients other than bridge and page
  MaxFaults           \* bound: all of these together

Txs == 1..MaxPurchases
Claims == 1..(MaxPurchases * (MaxRestarts + 1))
NoClaim == 0
Datasets == ({DatasetInfo[m] : m \in Merchs} \ {NoDataset, Empty}) \cup {DatasetDefault}
PurchaseRecord == [merch: Merchs, buyer: Buyers]
Body == [tx: Txs, purchase: PurchaseRecord, dataset: Datasets \cup {Empty}]

ASSUME DeliveryAssumption ==
  /\ {MaxPurchases, MaxFailures, MaxRestarts, MaxOthers, MaxFaults} \subseteq Nat
  /\ NoDataset # Empty /\ DatasetDefault \notin {NoDataset, Empty}
  /\ NoWallet \notin Wallets /\ OtherBodies \subseteq Body

VARIABLES
  market,        \* contracts registered in IoTMarket
  chain,         \* purchases, in the order of their blocks
  bridge,        \* the listener of the bridge
  page,          \* the purchased/[txHash] page of each purchase
  requests,      \* claim requests the publisher is handling
  claims,        \* claims ever created; those up to forgotten are lost
  forgotten,     \* how many claims earlier publisher processes created
  offers,        \* the offer minted for each claim
  stale,         \* claims whose offer is older than its time to live
  tokens,        \* access tokens that hold and are still used: which wallet's, for which claim
  merchandise_dataset,
  wallet,        \* what each wallet is doing
  links,         \* claims whose code another client has been given
  vcs,           \* history: credentials issued
  audit,         \* history: claim_received records written for each claim
  faults         \* how many faults of each kind have happened

publisherVars == <<requests, claims, forgotten, offers, stale, tokens,
                   merchandise_dataset, vcs, audit>>
vars == <<market, chain, bridge, page, publisherVars, wallet, links, faults>>

Live == {c \in DOMAIN claims : c > forgotten}

Init ==
  /\ market = {}
  /\ chain = <<>>
  /\ bridge = [pc |-> "down", watched |-> {}, cursor |-> 0, head |-> 0, next |-> 0,
               seenTx |-> {}, datasetCache |-> [m \in Merchs |-> NoDataset]]
  /\ page = [t \in Txs |-> [status |-> "idle", claim |-> NoClaim]]
  /\ requests = {}
  /\ claims = <<>>
  /\ forgotten = 0
  /\ offers = [c \in Claims |-> "none"]
  /\ stale = {}
  /\ tokens = {}
  /\ merchandise_dataset = [m \in Merchs |-> NoDataset]
  /\ wallet = [w \in Wallets |-> [pc |-> "idle", claim |-> NoClaim]]
  /\ vcs = {}
  /\ audit = [c \in Claims |-> 0]
  /\ links = {}
  /\ faults = [failure |-> 0, restart |-> 0, other |-> 0]

Calm == faults.failure + faults.restart + faults.other < MaxFaults
Fails == /\ Calm /\ faults.failure < MaxFailures
         /\ faults' = [faults EXCEPT !.failure = @ + 1]

-----------------------------------------------------------------------------
(***************************************************************************)
(* The chain, as bridge and page see it.                                   *)
(***************************************************************************)

registerMerchandise(m) ==
  /\ m \notin market
  /\ market' = market \cup {m}
  /\ UNCHANGED <<chain, bridge, page, publisherVars, wallet, links, faults>>

purchase(m, b) ==
  /\ m \in market
  /\ Len(chain) < MaxPurchases
  /\ \A t \in DOMAIN chain : chain[t] # [merch |-> m, buyer |-> b]
  /\ chain' = Append(chain, [merch |-> m, buyer |-> b])
  /\ UNCHANGED <<market, bridge, page, publisherVars, wallet, links, faults>>

-----------------------------------------------------------------------------
(***************************************************************************)
(* The bridge.  Between two lines that await, anything else may happen.    *)
(***************************************************************************)

\* The body of a claim request.
Request(from, t, p, dataset) ==
  [from |-> from, tx |-> t, merch |-> p.merch, buyer |-> p.buyer, dataset |-> dataset,
   pc |-> "sent", claim |-> NoClaim]

getMerchandises ==
  /\ bridge.pc = "down"
  /\ bridge' = [bridge EXCEPT !.pc = "starting", !.watched = market]
  /\ UNCHANGED <<market, chain, page, publisherVars, wallet, links, faults>>

getBlockNumber ==
  /\ bridge.pc = "starting"
  /\ bridge' = [bridge EXCEPT !.pc = "idle", !.cursor = Len(chain)]
  /\ UNCHANGED <<market, chain, page, publisherVars, wallet, links, faults>>

\* The logs of blocks up to head, as of now.  A poll that fails changes nothing.
getLogs ==
  /\ bridge.pc = "idle"
  /\ Len(chain) > bridge.cursor
  /\ bridge' = [bridge EXCEPT !.pc = "logs", !.head = Len(chain), !.next = bridge.cursor + 1]
  /\ UNCHANGED <<market, chain, page, publisherVars, wallet, links, faults>>

\* A dataset_id read from the contract's additionalInfo, or the default.
KnownDataset(m) ==
  IF DatasetInfo[m] \in {NoDataset, Empty} THEN DatasetDefault ELSE DatasetInfo[m]

\* Mutant of ReadsDataset: the cache is not keyed by contract.
ReadsAnyCached(m, dataset) ==
  /\ UNCHANGED faults
  /\ \/ \E n \in Merchs : bridge.datasetCache[n] # NoDataset /\ dataset = bridge.datasetCache[n]
     \/ bridge.datasetCache[m] = NoDataset /\ dataset = KnownDataset(m)

ReadsDataset(m, dataset) ==
  \/ /\ bridge.datasetCache[m] # NoDataset
     /\ dataset = bridge.datasetCache[m]
     /\ UNCHANGED faults
  \/ /\ bridge.datasetCache[m] = NoDataset
     /\ dataset = KnownDataset(m)
     /\ UNCHANGED faults
  \/ /\ bridge.datasetCache[m] = NoDataset
     /\ dataset = DatasetDefault
     /\ Fails

\* A log of no interest is skipped.
skip ==
  /\ bridge.pc = "logs" /\ bridge.next <= bridge.head
  /\ \/ chain[bridge.next].merch \notin bridge.watched
     \/ bridge.next \in bridge.seenTx
  /\ bridge' = [bridge EXCEPT !.next = @ + 1]
  /\ UNCHANGED <<market, chain, page, publisherVars, wallet, links, faults>>

\* Any other is marked as seen, its dataset resolved and its claim sent.
bridgeClaim ==
  /\ bridge.pc = "logs" /\ bridge.next <= bridge.head
  /\ LET t == bridge.next
         m == chain[t].merch
     IN /\ m \in bridge.watched /\ t \notin bridge.seenTx
        /\ \E dataset \in Datasets :
             /\ ReadsDataset(m, dataset)
             /\ bridge' = [bridge EXCEPT !.pc = "claiming", !.seenTx = @ \cup {t},
                                         !.datasetCache[m] = dataset]
             /\ requests' = requests \cup {Request("bridge", t, chain[t], dataset)}
  /\ UNCHANGED <<market, chain, page, claims, forgotten, offers, stale, tokens,
                 merchandise_dataset, vcs, audit, wallet, links>>

\* Mutant of tickEnds: the cursor moves to the block the chain has reached.
tickEndsAtTip ==
  /\ bridge.pc = "logs" /\ bridge.next > bridge.head
  /\ bridge' = [bridge EXCEPT !.pc = "idle", !.cursor = Len(chain),
                              !.head = 0, !.next = 0]
  /\ UNCHANGED <<market, chain, page, publisherVars, wallet, links, faults>>

tickEnds ==
  /\ bridge.pc = "logs" /\ bridge.next > bridge.head
  /\ bridge' = [bridge EXCEPT !.pc = "idle", !.cursor = bridge.head,
                              !.head = 0, !.next = 0]
  /\ UNCHANGED <<market, chain, page, publisherVars, wallet, links, faults>>

-----------------------------------------------------------------------------
(***************************************************************************)
(* The page.  It posts when it is opened and when the buyer tries again,   *)
(* which an error leaves to the buyer, as a page that is not open does.    *)
(***************************************************************************)

PageDataset(m) == IF DatasetInfo[m] = NoDataset THEN DatasetDefault ELSE DatasetInfo[m]

postClaim(t) ==
  /\ t \in DOMAIN chain
  /\ page[t].status # "claiming"
  /\ page' = [page EXCEPT ![t] = [status |-> "claiming", claim |-> NoClaim]]
  /\ requests' = requests \cup {Request("page", t, chain[t], PageDataset(chain[t].merch))}
  /\ UNCHANGED <<market, chain, bridge, claims, forgotten, offers, stale, tokens,
                 merchandise_dataset, vcs, audit, wallet, links, faults>>

\* Any other client posts what it likes, also of a transaction that is not, or
\* not yet, on the chain: the publisher asks nobody.
otherClaim(body) ==
  /\ Calm /\ faults.other < MaxOthers
  /\ faults' = [faults EXCEPT !.other = @ + 1]
  /\ requests' = requests \cup {Request("other", body.tx, body.purchase, body.dataset)}
  /\ UNCHANGED <<market, chain, bridge, page, claims, forgotten, offers, stale, tokens,
                 merchandise_dataset, vcs, audit, wallet, links>>

-----------------------------------------------------------------------------
(***************************************************************************)
(* The publisher: POST /marketplace/claim.                                 *)
(***************************************************************************)

\* A handler goes from one of its steps to the next.
Advance(r, pc, c) ==
  requests' = (requests \ {r}) \cup {[r EXCEPT !.pc = pc, !.claim = c]}

\* Mutant of MissingField: the fields of the body are not looked at.
MissingFieldUnchecked(r) == FALSE
MissingField(r) == r.dataset = Empty

reject(r) ==
  /\ r.pc = "sent" /\ MissingField(r)
  /\ Advance(r, "rejected", NoClaim)
  /\ UNCHANGED <<market, chain, bridge, page, claims, forgotten, offers, stale,
                 tokens, merchandise_dataset, vcs, audit, wallet, links, faults>>

\* Mutant of ClaimsByTx: a claim is found by way of its offer.
ClaimsByOffer(r) == {c \in Live : claims[c].tx = r.tx /\ offers[c] # "none"}
ClaimsByTx(r) == {c \in Live : claims[c].tx = r.tx}

\* Mutant of replay_marketplace_claim: a later body overwrites what the claim says.
upsert_marketplace_claim(r) ==
  /\ r.pc = "sent" /\ ~MissingField(r)
  /\ \E c \in ClaimsByTx(r) :
       /\ Advance(r, "answer", c)
       /\ claims' = [claims EXCEPT ![c].merch = r.merch, ![c].dataset = r.dataset]
  /\ UNCHANGED <<market, chain, bridge, page, forgotten, offers, stale,
                 tokens, merchandise_dataset, vcs, audit, wallet, links, faults>>

replay_marketplace_claim(r) ==
  /\ r.pc = "sent" /\ ~MissingField(r)
  /\ \E c \in ClaimsByTx(r) : Advance(r, "answer", c)
  /\ UNCHANGED <<market, chain, bridge, page, claims, forgotten, offers, stale,
                 tokens, merchandise_dataset, vcs, audit, wallet, links, faults>>

create_marketplace_claim(r) ==
  /\ r.pc = "sent" /\ ~MissingField(r)
  /\ ClaimsByTx(r) = {}
  /\ claims' = Append(claims, [tx |-> r.tx, merch |-> r.merch, buyer |-> r.buyer,
                               dataset |-> r.dataset, holder_did |-> NoWallet,
                               from |-> r.from])
  /\ merchandise_dataset' = [merchandise_dataset EXCEPT ![r.merch] = r.dataset]
  /\ Advance(r, "stash", Len(claims) + 1)
  /\ UNCHANGED <<market, chain, bridge, page, forgotten, offers, stale, tokens,
                 vcs, audit, wallet, links, faults>>

\* The offer enters the store only now, outside the lock the claim was made under.
stash_offer(r) ==
  /\ r.pc = "stash"
  /\ offers' = [offers EXCEPT ![r.claim] = "open"]
  /\ Advance(r, "audit", r.claim)
  /\ UNCHANGED <<market, chain, bridge, page, claims, forgotten, stale, tokens,
                 merchandise_dataset, vcs, audit, wallet, links, faults>>

audit_claim(r) ==
  /\ r.pc = "audit"
  /\ \/ /\ audit' = [audit EXCEPT ![r.claim] = @ + 1]
        /\ Advance(r, "answer", r.claim)
        /\ UNCHANGED faults
     \/ /\ Advance(r, "rejected", NoClaim)     \* the write raises
        /\ Fails
        /\ UNCHANGED audit
  /\ UNCHANGED <<market, chain, bridge, page, claims, forgotten, offers, stale,
                 tokens, merchandise_dataset, vcs, wallet, links>>

BridgeGoesOn(r) ==
  /\ r.from = "bridge"
  /\ bridge' = IF bridge.pc = "claiming" /\ bridge.next = r.tx
                 THEN [bridge EXCEPT !.pc = "logs", !.next = @ + 1] ELSE bridge
  /\ UNCHANGED <<page, links>>

OtherGoesOn(r, ok) ==
  /\ r.from = "other"
  /\ links' = IF ok THEN links \cup {r.claim} ELSE links
  /\ UNCHANGED <<bridge, page>>

\* Mutant of CallerGoesOn: the page does not catch errors.
PageDoesNotCatch(r, ok) ==
  \/ BridgeGoesOn(r)
  \/ OtherGoesOn(r, ok)
  \/ /\ r.from = "page"
     /\ page' = IF ok THEN [page EXCEPT ![r.tx] = [status |-> "ready", claim |-> r.claim]]
                      ELSE page
     /\ UNCHANGED <<bridge, links>>

\* What the caller of r makes of an answer, or of its absence.
CallerGoesOn(r, ok) ==
  \/ BridgeGoesOn(r)
  \/ OtherGoesOn(r, ok)
  \/ /\ r.from = "page"
     /\ page' = [page EXCEPT ![r.tx] = IF ok THEN [status |-> "ready", claim |-> r.claim]
                                             ELSE [@ EXCEPT !.status = "idle"]]
     /\ UNCHANGED <<bridge, links>>

answer(r) ==
  /\ r.pc \in {"answer", "rejected"}
  /\ requests' = requests \ {r}
  /\ \/ CallerGoesOn(r, r.pc = "answer") /\ UNCHANGED faults
     \/ CallerGoesOn(r, FALSE) /\ Fails
  /\ UNCHANGED <<market, chain, claims, forgotten, offers, stale, tokens,
                 merchandise_dataset, vcs, audit, wallet>>

\* A request that does not get through.
refuse(r) ==
  /\ r.pc = "sent"
  /\ requests' = requests \ {r}
  /\ CallerGoesOn(r, FALSE)
  /\ Fails
  /\ UNCHANGED <<market, chain, claims, forgotten, offers, stale, tokens,
                 merchandise_dataset, vcs, audit, wallet>>

HandlerStep(r) ==
  \/ reject(r) \/ replay_marketplace_claim(r) \/ create_marketplace_claim(r)
  \/ stash_offer(r) \/ audit_claim(r) \/ answer(r)

-----------------------------------------------------------------------------
(***************************************************************************)
(* The publisher: the issuer endpoints, and the wallet that calls them.    *)
(***************************************************************************)

Scans(w, c) == /\ wallet[w].pc = "idle"
               /\ wallet' = [wallet EXCEPT ![w] = [pc |-> "offer", claim |-> c]]
               /\ UNCHANGED <<market, chain, bridge, page, publisherVars, links>>

\* The wallet takes the code from the deeplink that the page shows, or that
\* another client was given.
scan(w) ==
  /\ UNCHANGED faults
  /\ \/ \E t \in Txs : page[t].status = "ready" /\ Scans(w, page[t].claim)
     \/ \E c \in links : Scans(w, c)

\* It follows the page's offer_url: 404 without the claim, 409 without its offer.
issuer_offer(w, t) ==
  /\ page[t].status = "ready"
  /\ page[t].claim \in Live
  /\ offers[page[t].claim] # "none"
  /\ Scans(w, page[t].claim)
  /\ UNCHANGED faults

\* Asked without a claim, the issuer makes an offer of its own, for nobody's purchase.
issuer_offer_fallback(w) ==
  /\ Calm /\ faults.other < MaxOthers
  /\ faults' = [faults EXCEPT !.other = @ + 1]
  /\ Scans(w, NoClaim)

\* The wallet is done with an offer, whether it stored a credential or not.
Finished(w) == wallet' = [wallet EXCEPT ![w] = [pc |-> "idle", claim |-> NoClaim]]

\* Mutant of consume_offer: the offer is not marked.
consumeOfferAgain(c) ==
  /\ c # NoClaim => offers[c] = "open" /\ c \notin stale
  /\ UNCHANGED offers

consume_offer(c) ==
  IF c = NoClaim THEN UNCHANGED offers
  ELSE /\ offers[c] = "open" /\ c \notin stale
       /\ offers' = [offers EXCEPT ![c] = "consumed"]

\* An offer without a claim, too, may have been redeemed already, or be too old.
issuer_token(w) ==
  LET c == wallet[w].claim
  IN /\ wallet[w].pc = "offer"
     /\ \/ /\ consume_offer(c)
           /\ \/ /\ tokens' = tokens \cup {[wallet |-> w, claim |-> c]}
                 /\ wallet' = [wallet EXCEPT ![w].pc = "token"]
                 /\ UNCHANGED faults
              \/ /\ Finished(w) /\ Fails
                 /\ UNCHANGED tokens
        \/ /\ c # NoClaim => offers[c] # "open" \/ c \in stale
           /\ Finished(w)
           /\ UNCHANGED <<offers, tokens, faults>>
     /\ UNCHANGED <<market, chain, bridge, page, requests, claims, forgotten, stale,
                    merchandise_dataset, vcs, audit, links>>

find_marketplace_claim_by_code(c) == c

\* What a credential says of a purchase; of an offer without a claim, nothing.
PurchaseViewerVC(w, c) ==
  LET claim == claims[find_marketplace_claim_by_code(c)]
  IN IF c = NoClaim THEN [claim |-> NoClaim, holder |-> w]
     ELSE [claim |-> c, tx |-> claim.tx, merch |-> claim.merch, buyer |-> claim.buyer,
           dataset |-> claims[c].dataset, holder |-> w]

attach_holder_to_claim(w, d) == claims' = [claims EXCEPT ![d].holder_did = w]

issuer_credential(w) ==
  LET c == wallet[w].claim
  IN /\ wallet[w].pc = "token"
     /\ \/ /\ [wallet |-> w, claim |-> c] \in tokens
           /\ IF c = NoClaim THEN UNCHANGED claims
              ELSE attach_holder_to_claim(w, find_marketplace_claim_by_code(c))
           /\ wallet' = [wallet EXCEPT ![w].pc = "linked"]
        \/ /\ [wallet |-> w, claim |-> c] \notin tokens
           /\ Finished(w)
           /\ UNCHANGED claims
     /\ UNCHANGED <<market, chain, bridge, page, requests, forgotten, offers, stale,
                    tokens, merchandise_dataset, vcs, audit, links, faults>>

\* The holder is set; the record of it may fail, and then there is no credential.
\* The token stays good: a wallet that got no answer asks again, one that did is
\* done with its token.
issue_sd_jwt_vc(w) ==
  LET c == wallet[w].claim
      done == /\ Finished(w)
              /\ tokens' = tokens \ {[wallet |-> w, claim |-> c]}
              /\ UNCHANGED faults
      asksAgain == /\ wallet' = [wallet EXCEPT ![w].pc = "token"]
                   /\ Fails
                   /\ UNCHANGED tokens
  IN /\ wallet[w].pc = "linked"
     /\ \/ vcs' = vcs \cup {PurchaseViewerVC(w, c)} /\ (done \/ asksAgain)
        \/ UNCHANGED vcs /\ asksAgain
     /\ UNCHANGED <<market, chain, bridge, page, requests, claims, forgotten, offers,
                    stale, merchandise_dataset, audit, links>>

\* Ten minutes pass for an offer, or for a token.  Nobody asks for the age of an
\* offer that was redeemed, and no handler takes that long.
offer_expires(c) ==
  /\ c \notin stale /\ offers[c] # "consumed"
  /\ \A r \in requests : r.claim # c
  /\ stale' = stale \cup {c}
  /\ UNCHANGED <<market, chain, bridge, page, requests, claims, forgotten, offers,
                 tokens, merchandise_dataset, vcs, audit, wallet, links, faults>>

token_expires(t) ==
  /\ tokens' = tokens \ {t}
  /\ UNCHANGED <<market, chain, bridge, page, requests, claims, forgotten, offers,
                 stale, merchandise_dataset, vcs, audit, wallet, links, faults>>

-----------------------------------------------------------------------------
(***************************************************************************)
(* Restarts.                                                               *)
(***************************************************************************)

Restarts == /\ Calm /\ faults.restart < MaxRestarts
            /\ faults' = [faults EXCEPT !.restart = @ + 1]

bridge_restarts ==
  /\ bridge.pc # "down"
  /\ Restarts
  /\ bridge' = [pc |-> "down", watched |-> {}, cursor |-> 0, head |-> 0, next |-> 0,
                seenTx |-> {}, datasetCache |-> [m \in Merchs |-> NoDataset]]
  /\ UNCHANGED <<market, chain, page, publisherVars, wallet, links>>

\* Who waits for an answer gets an error.
HangsUp ==
  /\ bridge' = IF bridge.pc = "claiming"
                 THEN [bridge EXCEPT !.pc = "logs", !.next = @ + 1] ELSE bridge
  /\ page' = [t \in Txs |-> IF page[t].status = "claiming"
                              THEN [page[t] EXCEPT !.status = "idle"] ELSE page[t]]
  /\ wallet' = [w \in Wallets |-> IF wallet[w].pc = "linked"
                                    THEN [wallet[w] EXCEPT !.pc = "token"] ELSE wallet[w]]

\* Mutant of publisher_restarts: access tokens survive.
restartsWithTokens ==
  /\ Restarts
  /\ HangsUp
  /\ forgotten' = Len(claims)
  /\ requests' = {} /\ stale' = {}
  /\ offers' = [c \in Claims |-> "none"]
  /\ merchandise_dataset' = [m \in Merchs |-> NoDataset]
  /\ UNCHANGED <<market, chain, claims, tokens, vcs, audit, links>>

publisher_restarts ==
  /\ Restarts
  /\ HangsUp
  /\ forgotten' = Len(claims)
  /\ requests' = {} /\ tokens' = {} /\ stale' = {}
  /\ offers' = [c \in Claims |-> "none"]
  /\ merchandise_dataset' = [m \in Merchs |-> NoDataset]
  /\ UNCHANGED <<market, chain, claims, vcs, audit, links>>

-----------------------------------------------------------------------------
BridgeStep == getMerchandises \/ getBlockNumber \/ getLogs \/ skip \/ bridgeClaim \/ tickEnds
WalletStep(w) == issuer_token(w) \/ issuer_credential(w) \/ issue_sd_jwt_vc(w)

Next ==
  \/ \E m \in Merchs : registerMerchandise(m) \/ \E b \in Buyers : purchase(m, b)
  \/ BridgeStep
  \/ \E t \in Txs : postClaim(t)
  \/ \E body \in OtherBodies : otherClaim(body)
  \/ \E r \in requests : HandlerStep(r) \/ refuse(r)
  \/ \E w \in Wallets : WalletStep(w) \/ scan(w) \/ issuer_offer_fallback(w)
                         \/ \E t \in Txs : issuer_offer(w, t)
  \/ \E c \in Live : offer_expires(c)
  \/ \E t \in tokens : token_expires(t)
  \/ bridge_restarts
  \/ publisher_restarts

Spec == Init /\ [][Next]_vars

\* The processes keep running; nobody has to buy, to open a page or to scan,
\* and neither time nor faults have to strike.
FairSpec ==
  /\ Spec
  /\ WF_vars(BridgeStep)
  /\ WF_vars(\E r \in requests : r.from = "bridge" /\ HandlerStep(r))
  /\ \A t \in Txs : WF_vars(\E r \in requests : r.from = "page" /\ r.tx = t /\ HandlerStep(r))
  /\ \A w \in Wallets : WF_vars(WalletStep(w))

-----------------------------------------------------------------------------
(***************************************************************************)
(* Properties.                                                             *)
(***************************************************************************)

BridgeState == [pc: {"down", "starting", "idle", "logs", "claiming"},
                watched: SUBSET Merchs, cursor: 0..MaxPurchases, head: 0..MaxPurchases,
                next: 0..(MaxPurchases + 1), seenTx: SUBSET Txs,
                datasetCache: [Merchs -> Datasets \cup {NoDataset}]]
PageState == [status: {"idle", "claiming", "ready"}, claim: Claims \cup {NoClaim}]
ClaimRequest == [from: {"bridge", "page", "other"}, tx: Txs, merch: Merchs, buyer: Buyers,
                 dataset: Datasets \cup {Empty},
                 pc: {"sent", "stash", "audit", "answer", "rejected"}, claim: Claims \cup {NoClaim}]
MarketplaceClaim == [tx: Txs, merch: Merchs, buyer: Buyers, dataset: Datasets,
                     holder_did: Wallets \cup {NoWallet}, from: {"bridge", "page", "other"}]
AccessToken == [wallet: Wallets, claim: Claims \cup {NoClaim}]
WalletState == [pc: {"idle", "offer", "token", "linked"}, claim: Claims \cup {NoClaim}]
Credential == [claim: Claims, tx: Txs, merch: Merchs, buyer: Buyers, dataset: Datasets, holder: Wallets]
              \cup [claim: {NoClaim}, holder: Wallets]
FaultCounts == [failure: 0..MaxFailures, restart: 0..MaxRestarts, other: 0..MaxOthers]

\* Every variable has its type.
TypeOK ==
  /\ market \subseteq Merchs
  /\ chain \in Seq(PurchaseRecord) /\ Len(chain) <= MaxPurchases
  /\ bridge \in BridgeState
  /\ page \in [Txs -> PageState]
  /\ requests \subseteq ClaimRequest
  /\ claims \in Seq(MarketplaceClaim)
  /\ Len(claims) <= Cardinality(Claims) /\ forgotten \in 0..Len(claims)
  /\ offers \in [Claims -> {"none", "open", "consumed"}]
  /\ stale \subseteq Claims
  /\ tokens \subseteq AccessToken
  /\ merchandise_dataset \in [Merchs -> Datasets \cup {NoDataset}]
  /\ wallet \in [Wallets -> WalletState]
  /\ vcs \subseteq Credential
  /\ audit \in [Claims -> 0..2]
  /\ links \subseteq Claims
  /\ faults \in FaultCounts

\* Bridge and page may post one purchase in any order, at once and again: the
\* publisher keeps one claim for it, notes its receipt at most once, and every
\* page that is ready shows the one claim of its own transaction
\* (create_marketplace_claim, marketplace_claim).
ClaimsIdempotent ==
  /\ \A c, d \in Live : claims[c].tx = claims[d].tx => c = d
  /\ \A c \in Claims : audit[c] <= 1
  /\ \A t \in Txs : page[t].status = "ready" => claims[page[t].claim].tx = t

\* A credential made from a claim repeats what the first caller of the claim said, with the
\* contract, the buyer and the dataset of that call, however many others came later with another
\* body; it is true of the chain unless that first caller was neither bridge nor page, which
\* nothing in the publisher rules out (create_marketplace_claim, issuer_credential).
OfPurchase == {v \in vcs : v.claim # NoClaim}
VCsMatchPurchases ==
  \A v \in OfPurchase :
    LET claim == claims[v.claim]
    IN /\ <<v.tx, v.merch, v.buyer, v.dataset>> = <<claim.tx, claim.merch, claim.buyer, claim.dataset>>
       /\ claim.from # "other" =>
            v.tx \in DOMAIN chain /\ chain[v.tx] = [merch |-> v.merch, buyer |-> v.buyer]

\* However often its QR code is scanned, a claim gives credentials to one
\* wallet, and that is the holder its status reports (consume_offer,
\* attach_holder_to_claim).
OneWalletPerClaim ==
  /\ \A v \in OfPurchase : claims[v.claim].holder_did = v.holder
  /\ \A t \in tokens, u \in tokens : t.claim = u.claim /\ t.claim # NoClaim => t = u

\* Through all races, retries, losses and restarts a transaction is what Entitlements says of
\* it: granted once while the publisher remembers, whoever asked; then held by the wallet that
\* redeemed the code, also when the record of that fails; that wallet alone gets credentials for
\* it, and none after the publisher forgot (marketplace_claim, issuer_token and issuer_credential
\* together).
Entitlement == INSTANCE Entitlements WITH
                 Purchases <- Txs, Holders <- Wallets, Nobody <- NoWallet,
                 grants <- [c \in DOMAIN claims |-> [purchase |-> claims[c].tx, holder |-> claims[c].holder_did]],
                 void <- forgotten,
                 credentials <- {[grant |-> v.claim, purchase |-> v.tx, holder |-> v.holder] : v \in OfPurchase}
ImplementsEntitlements == Entitlement!Spec

\* A claim by bridge or page carries the dataset its contract names, or the
\* default: where the contract names none, or else after a failed read.  The map by which
\* /platform/data finds the data of a contract follows the contract's newest
\* claim and forgets with the claims (resolveDatasetId, create_marketplace_claim).
ClaimsOf(m) == {c \in Live : claims[c].merch = m}
DatasetFromContract ==
  /\ \A c \in DOMAIN claims :
       \/ claims[c].from = "other"
       \/ claims[c].dataset = KnownDataset(claims[c].merch)
       \/ claims[c].dataset = DatasetDefault /\ faults.failure > 0
  /\ \A m \in Merchs :
       IF ClaimsOf(m) = {} THEN merchandise_dataset[m] = NoDataset
       ELSE \E c \in ClaimsOf(m) : /\ \A d \in ClaimsOf(m) : d <= c
                                  /\ merchandise_dataset[m] = claims[c].dataset

\* A page that waits for its claim gets an answer or an error, and so does a
\* wallet that redeems an offer, whatever fails or restarts meanwhile.
CallersGetAnswers ==
  /\ \A t \in Txs : page[t].status = "claiming" ~> page[t].status # "claiming"
  /\ \A w \in Wallets : wallet[w].pc # "idle" ~> wallet[w].pc = "idle"

\* Once the bridge listens, it brings every later purchase of a contract it
\* watches to the publisher, unless a call fails or a process restarts (tick).
Claimed(t) == \E c \in DOMAIN claims : claims[c].tx = t
WatchedPurchasesClaimed ==
  \A t \in Txs :
    (t \in DOMAIN chain /\ bridge.pc \notin {"down", "starting"} /\ bridge.cursor < t
       /\ chain[t].merch \in bridge.watched)
      ~> (Claimed(t) \/ faults.failure + faults.restart > 0)

\* What the bridge promises: when it is past a block, the purchase in it has
\* been forwarded (bridge/README.md:3).
PurchasesForwarded ==
  [][bridge.pc = "logs" /\ bridge'.pc = "idle" =>
       \A t \in (bridge.cursor + 1)..bridge'.cursor : Claimed(t)]_vars

\* What the page promises when it says that the credential can be issued: the
\* offer it shows can be redeemed, if it was not before.
ReadyIsRedeemable ==
  [][\A t \in Txs :
       page[t].status = "claiming" /\ page'[t].status = "ready" =>
         LET c == page'[t].claim
         IN offers[c] = "consumed" \/ c \notin stale]_vars
=============================================================================
