------------------------ MODULE PurchaseDeliveryProofs ------------------------
(***************************************************************************)
(* Proofs about PurchaseDelivery, for any contracts, buyers, wallets and   *)
(* bounds.                                                                 *)
(*                                                                         *)
(* The inductive invariant Inv says what the properties leave open while   *)
(* something is under way: where the bridge is in its tick, which claim a  *)
(* handler works on and what it has still to do for it, and that an offer  *)
(* becomes one token and a token one holder.                               *)
(***************************************************************************)
EXTENDS PurchaseDelivery, SequenceTheorems, FiniteSetTheorems, TLAPS

\* The bridge walks over blocks that exist.
BridgeOnChain ==
  /\ bridge.cursor <= Len(chain) /\ bridge.head <= Len(chain)
  /\ bridge.pc = "logs" => bridge.next \in 1..(bridge.head + 1)
  /\ bridge.pc = "claiming" => bridge.next \in 1..bridge.head

\* Handlers for bridge and page are about purchases on the chain; one that has created or found
\* a claim has that of its transaction, and one handler only has still to stash the offer and to
\* write the record.
Unfinished(r) == r.pc \in {"stash", "audit"}
HandlerConsistent(r) ==
  /\ r.from # "other" => r.tx \in DOMAIN chain /\ chain[r.tx] = [merch |-> r.merch, buyer |-> r.buyer]
  /\ r.pc \in {"stash", "audit", "answer"} => r.claim \in Live /\ claims[r.claim].tx = r.tx
  /\ Unfinished(r) => audit[r.claim] = 0
  /\ r.pc = "stash" => offers[r.claim] = "none"
HandlersConsistent ==
  /\ \A r \in requests : HandlerConsistent(r)
  /\ \A r, s \in requests : Unfinished(r) /\ Unfinished(s) /\ r.claim = s.claim => r = s
  /\ \A c \in Claims : audit[c] <= 1 /\ (c > Len(claims) => audit[c] = 0)

\* Claims repeat their purchase, unless another client made them, one valid claim each; pages,
\* links and wallets know claims.
ClaimsConsistent ==
  /\ \A c \in DOMAIN claims : claims[c].from # "other" =>
       /\ claims[c].tx \in DOMAIN chain
       /\ chain[claims[c].tx] = [merch |-> claims[c].merch, buyer |-> claims[c].buyer]
  /\ \A c, d \in Live : claims[c].tx = claims[d].tx => c = d
  /\ \A t \in Txs : page[t].status = "ready" =>
       page[t].claim \in DOMAIN claims /\ claims[page[t].claim].tx = t
  /\ \A w \in Wallets : wallet[w].pc # "idle" => wallet[w].claim \in DOMAIN claims \cup {NoClaim}
  /\ links \subseteq DOMAIN claims
  /\ forgotten <= MaxPurchases * faults.restart

\* A code becomes one token, whose wallet is the only holder the claim gets.
TokenConsistent(t) ==
  /\ t.claim \in Live /\ offers[t.claim] = "consumed"
  /\ claims[t.claim].holder_did \in {NoWallet, t.wallet}
CredentialConsistent(v) ==
  /\ v.claim \in DOMAIN claims
  /\ claims[v.claim].holder_did = v.holder
  /\ claims[v.claim].tx = v.tx /\ claims[v.claim].merch = v.merch
  /\ claims[v.claim].buyer = v.buyer /\ claims[v.claim].dataset = v.dataset
HoldersConsistent ==
  /\ \A c \in Claims : offers[c] # "none" => c \in Live
  /\ \A c \in Live : offers[c] # "consumed" => claims[c].holder_did = NoWallet
  /\ \A t \in tokens : t.claim # NoClaim => TokenConsistent(t)
  /\ \A t, u \in tokens : t.claim = u.claim /\ t.claim # NoClaim => t = u
  /\ \A w \in Wallets : wallet[w].pc = "linked" /\ wallet[w].claim # NoClaim =>
       /\ wallet[w].claim \in Live
       /\ claims[wallet[w].claim].holder_did = w
  /\ \A v \in OfPurchase : CredentialConsistent(v)

Inv == TypeOK /\ BridgeOnChain /\ HandlersConsistent /\ ClaimsConsistent /\ HoldersConsistent

\* Where the datasets on their way into a claim come from.
RightDataset(m, d, failures) == d = KnownDataset(m) \/ (d = DatasetDefault /\ failures > 0)
ClaimRight(c, failures) == c.from # "other" => RightDataset(c.merch, c.dataset, failures)
RequestRight(r, failures) ==
  r.from # "other" /\ r.dataset # Empty => RightDataset(r.merch, r.dataset, failures)
DatasetsOnTheWay ==
  /\ \A m \in Merchs : bridge.datasetCache[m] # NoDataset => RightDataset(m, bridge.datasetCache[m], faults.failure)
  /\ \A r \in requests : RequestRight(r, faults.failure)
DatasetInv == DatasetsOnTheWay /\ DatasetFromContract
-----------------------------------------------------------------------------
\* How many claims there can be.
LEMMA ClaimsRange ==
  /\ MaxPurchases \in Nat /\ MaxRestarts \in Nat /\ MaxFailures \in Nat /\ MaxOthers \in Nat
  /\ Cardinality(Claims) \in Nat
  /\ Claims = 1..Cardinality(Claims)
  /\ Cardinality(Claims) = MaxPurchases * MaxRestarts + MaxPurchases
<1>1. MaxPurchases \in Nat /\ MaxRestarts \in Nat /\ MaxFailures \in Nat /\ MaxOthers \in Nat
  BY DeliveryAssumption DEF DeliveryAssumption
<1>2. /\ MaxPurchases * (MaxRestarts + 1) \in Nat
      /\ MaxPurchases * (MaxRestarts + 1) = MaxPurchases * MaxRestarts + MaxPurchases
  BY <1>1
<1>3. Cardinality(Claims) = MaxPurchases * (MaxRestarts + 1)
  BY <1>2, FS_Interval DEF Claims
<1>4. QED
  BY <1>1, <1>2, <1>3 DEF Claims

\* A product grows with its factors.
LEMMA ProductMonotone ==
  ASSUME NEW n \in Nat, NEW i \in Nat, NEW j \in Nat, i <= j
  PROVE  n * i \in Nat /\ n * i <= n * j /\ n * (i + 1) = n * i + n
  OBVIOUS

\* Every behaviour starts within the invariant.
LEMMA InitInv == Init => Inv
<1> SUFFICES ASSUME Init
             PROVE  Inv
  OBVIOUS
<1> USE ClaimsRange DEF Init
<1>1. TypeOK
  BY DeliveryAssumption DEF DeliveryAssumption, TypeOK, Txs, NoClaim, BridgeState, PageState, WalletState,
                            FaultCounts
<1>2. BridgeOnChain /\ HandlersConsistent
  BY DEF BridgeOnChain, HandlersConsistent
<1>3. MaxPurchases * faults.restart = 0
  OBVIOUS
<1>4. ClaimsConsistent
  BY <1>3 DEF BridgeState, ClaimsConsistent, Live
<1>5. HoldersConsistent
  BY DEF HoldersConsistent, OfPurchase, Live
<1>6. QED
  BY <1>1, <1>2, <1>4, <1>5 DEF Inv

\* As many claims are valid as there are transactions, at most.
LEMMA Distinct ==
  ASSUME NEW a \in Nat, NEW b \in Nat, NEW n \in Nat, NEW f \in [(a + 1)..b -> 1..n],
         \A i, j \in (a + 1)..b : f[i] = f[j] => i = j
  PROVE  b <= a + n
<1>1. IsFiniteSet(1..n) /\ Cardinality(1..n) = n
  BY FS_Interval
<1>2. f \in Injection((a + 1)..b, 1..n)
  BY DEF Injection, IsInjective
<1>3. Cardinality((a + 1)..b) <= n
  BY <1>1, <1>2, FS_Injection
<1>4. CASE b < a + 1
  BY <1>4
<1>5. CASE b >= a + 1
  <2>1. Cardinality((a + 1)..b) = b - (a + 1) + 1
    BY <1>5, FS_Interval
  <2>2. QED
    BY <1>3, <2>1
<1>6. QED
  BY <1>4, <1>5
-----------------------------------------------------------------------------
\* What the types say of the two sequences, and of the claims that are valid.
LEMMA Lengths ==
  ASSUME Inv
  PROVE  /\ chain \in Seq(PurchaseRecord) /\ Len(chain) \in Nat /\ DOMAIN chain = 1..Len(chain)
         /\ claims \in Seq(MarketplaceClaim) /\ Len(claims) \in Nat /\ DOMAIN claims = 1..Len(claims)
         /\ forgotten \in Nat /\ forgotten <= Len(claims)
         /\ Live = (forgotten + 1)..Len(claims) /\ Live \subseteq DOMAIN claims
         /\ DOMAIN claims \subseteq Claims
         /\ \A c \in DOMAIN claims : claims[c] \in MarketplaceClaim /\ claims[c].tx \in 1..MaxPurchases
<1>1. /\ chain \in Seq(PurchaseRecord) /\ claims \in Seq(MarketplaceClaim)
      /\ forgotten \in 0..Len(claims) /\ Len(claims) <= Cardinality(Claims)
  BY DEF Inv, TypeOK
<1>2. \A c \in DOMAIN claims : claims[c] \in MarketplaceClaim
  BY <1>1
<1>3. \A c \in DOMAIN claims : claims[c].tx \in 1..MaxPurchases
  BY <1>2 DEF MarketplaceClaim, Txs
<1>4. Live = (forgotten + 1)..Len(claims)
  BY <1>1 DEF Live
<1>5. DOMAIN claims \subseteq Claims
  BY <1>1, ClaimsRange
<1>6. QED
  BY <1>1, <1>2, <1>3, <1>4, <1>5

\* There are no more valid claims than transactions.
LEMMA FewLive == Inv => Len(claims) <= forgotten + MaxPurchases
<1> SUFFICES ASSUME Inv
             PROVE  Len(claims) <= forgotten + MaxPurchases
  OBVIOUS
<1> DEFINE f == [c \in (forgotten + 1)..Len(claims) |-> claims[c].tx]
<1>1. f \in [(forgotten + 1)..Len(claims) -> 1..MaxPurchases]
  BY Lengths
<1>2. \A i, j \in (forgotten + 1)..Len(claims) : f[i] = f[j] => i = j
  BY Lengths DEF Inv, ClaimsConsistent
<1>3. QED
  BY <1>1, <1>2, Lengths, ClaimsRange, Distinct

\* A transaction without a claim leaves an id for one.
LEMMA RoomForClaim ==
  ASSUME Inv, NEW r \in requests, ClaimsByTx(r) = {}
  PROVE  Len(claims) + 1 <= Cardinality(Claims)
<1> DEFINE n == Len(claims) + 1
<1> DEFINE f == [c \in (forgotten + 1)..n |-> IF c = n THEN r.tx ELSE claims[c].tx]
<1>1. r.tx \in 1..MaxPurchases
  BY DEF Inv, TypeOK, ClaimRequest, Txs
<1>2. forgotten <= MaxPurchases * MaxRestarts
  <2>1. faults.restart \in Nat /\ faults.restart <= MaxRestarts
    BY ClaimsRange DEF Inv, TypeOK, FaultCounts
  <2>2. /\ MaxPurchases * faults.restart \in Nat /\ MaxPurchases * MaxRestarts \in Nat
        /\ MaxPurchases * faults.restart <= MaxPurchases * MaxRestarts
    BY <2>1, ClaimsRange, ProductMonotone
  <2>3. forgotten <= MaxPurchases * faults.restart
    BY DEF Inv, ClaimsConsistent
  <2>4. QED
    BY <2>2, <2>3, Lengths
<1>3. \A c \in (forgotten + 1)..n : c # n => c \in Live
  BY Lengths
<1>4. f \in [(forgotten + 1)..n -> 1..MaxPurchases]
  BY <1>1, <1>3, Lengths
<1>5. \A i, j \in (forgotten + 1)..n : f[i] = f[j] => i = j
  BY <1>3 DEF Inv, ClaimsConsistent, ClaimsByTx
<1>6. n <= forgotten + MaxPurchases
  <2> HIDE DEF f
  <2>1. n \in Nat
    BY Lengths
  <2>2. QED
    BY <1>4, <1>5, <2>1, Lengths, ClaimsRange, Distinct
<1>7. MaxPurchases * MaxRestarts \in Nat
  BY ClaimsRange, ProductMonotone
<1>8. QED
  BY <1>2, <1>6, <1>7, Lengths, ClaimsRange

\* Every step keeps the types.
LEMMA TypeStep == Inv /\ [Next]_vars => TypeOK'
<1> SUFFICES ASSUME TypeOK, BridgeOnChain, HandlersConsistent, ClaimsConsistent, HoldersConsistent, [Next]_vars
             PROVE  TypeOK'
  BY DEF Inv
<1>a. /\ market \subseteq Merchs
      /\ chain \in Seq(PurchaseRecord) /\ Len(chain) \in 0..MaxPurchases
      /\ MaxPurchases \in Nat
  BY ClaimsRange DEF TypeOK
<1>b. bridge \in BridgeState /\ page \in [Txs -> PageState]
  BY DEF TypeOK
<1>c. /\ claims \in Seq(MarketplaceClaim) /\ DOMAIN claims \subseteq Claims
      /\ forgotten \in Nat /\ Live \subseteq DOMAIN claims
  BY ClaimsRange DEF TypeOK, Live
<1>d. /\ requests \subseteq ClaimRequest /\ tokens \subseteq AccessToken
      /\ wallet \in [Wallets -> WalletState] /\ vcs \subseteq Credential
      /\ offers \in [Claims -> {"none", "open", "consumed"}]
  BY DEF TypeOK
<1>e. /\ faults \in FaultCounts /\ links \subseteq Claims
      /\ MaxFailures \in Nat /\ MaxRestarts \in Nat /\ MaxOthers \in Nat
  BY ClaimsRange DEF TypeOK, FaultCounts
<1>f. /\ bridge.cursor \in 0..MaxPurchases /\ bridge.head \in 0..MaxPurchases
      /\ bridge.next \in 0..(MaxPurchases + 1)
      /\ 0 \in 0..MaxPurchases /\ 0 \in 0..(MaxPurchases + 1) /\ 1 \in 0..(MaxPurchases + 1)
      /\ bridge.cursor + 1 \in 0..(MaxPurchases + 1)
  BY <1>a, <1>b DEF BridgeState
<1>g. bridge.pc = "claiming" \/ (bridge.pc = "logs" /\ bridge.next <= bridge.head) =>
        bridge.next + 1 \in 0..(MaxPurchases + 1)
  BY <1>a, <1>f DEF BridgeOnChain
<1>h. ASSUME NEW pc \in {"logs", "idle"}, NEW n \in 0..(MaxPurchases + 1),
             NEW k \in 0..MaxPurchases, NEW h \in 0..MaxPurchases
      PROVE  /\ [bridge EXCEPT !.pc = pc, !.next = n] \in BridgeState
             /\ [bridge EXCEPT !.next = n] \in BridgeState
             /\ [bridge EXCEPT !.pc = pc, !.head = h, !.next = n] \in BridgeState
             /\ [bridge EXCEPT !.pc = pc, !.cursor = k, !.head = h, !.next = n] \in BridgeState
  BY <1>b DEF BridgeState
<1>i. ASSUME NEW p \in PurchaseRecord
      PROVE  p.merch \in Merchs /\ p.buyer \in Buyers
  BY DEF PurchaseRecord
<1>1. ASSUME NEW m \in Merchs, registerMerchandise(m)
      PROVE  TypeOK'
  BY <1>1 DEF registerMerchandise, publisherVars, TypeOK
<1>2. ASSUME NEW m \in Merchs, NEW b \in Buyers, purchase(m, b)
      PROVE  TypeOK'
  <2>1. [merch |-> m, buyer |-> b] \in PurchaseRecord
    BY DEF PurchaseRecord
  <2>2. chain' \in Seq(PurchaseRecord) /\ Len(chain') <= MaxPurchases
    BY <1>a, <1>2, <2>1 DEF purchase
  <2>3. QED
    BY <1>2, <2>2 DEF purchase, publisherVars, TypeOK
<1>3. CASE getMerchandises
  <2>1. bridge' \in BridgeState
    BY <1>a, <1>b, <1>3 DEF getMerchandises, BridgeState
  <2>2. QED
    BY <1>3, <2>1 DEF getMerchandises, publisherVars, TypeOK
<1>4. CASE getBlockNumber
  <2>1. bridge' \in BridgeState
    BY <1>a, <1>b, <1>4 DEF getBlockNumber, BridgeState
  <2>2. QED
    BY <1>4, <2>1 DEF getBlockNumber, publisherVars, TypeOK
<1>5. CASE getLogs
  <2>1. bridge' \in BridgeState
    BY <1>a, <1>f, <1>h, <1>5 DEF getLogs
  <2>2. QED
    BY <1>5, <2>1 DEF getLogs, publisherVars, TypeOK
<1>6. CASE skip
  <2>1. bridge' \in BridgeState
    BY <1>g, <1>h, <1>f, <1>6 DEF skip
  <2>2. QED
    BY <1>6, <2>1 DEF skip, publisherVars, TypeOK
<1>7. CASE bridgeClaim
  <2>1. PICK dataset \in Datasets :
          /\ ReadsDataset(chain[bridge.next].merch, dataset)
          /\ bridge' = [bridge EXCEPT !.pc = "claiming", !.seenTx = @ \cup {bridge.next},
                                      !.datasetCache[chain[bridge.next].merch] = dataset]
          /\ requests' = requests \cup {Request("bridge", bridge.next, chain[bridge.next], dataset)}
    BY <1>7 DEF bridgeClaim
  <2>2. bridge.next \in Txs /\ chain[bridge.next] \in PurchaseRecord
    BY <1>a, <1>b, <1>7 DEF bridgeClaim, BridgeOnChain, BridgeState, Txs
  <2>3. bridge' \in BridgeState
    BY <1>a, <1>b, <2>1, <2>2 DEF BridgeState
  <2>4. Request("bridge", bridge.next, chain[bridge.next], dataset) \in ClaimRequest
    BY <2>2, <1>i DEF Request, ClaimRequest
  <2>5. faults' \in FaultCounts
    BY <1>e, <2>1 DEF ReadsDataset, Fails, FaultCounts
  <2>6. QED
    BY <1>7, <2>1, <2>3, <2>4, <2>5 DEF bridgeClaim, TypeOK, FaultCounts
<1>8. CASE tickEnds
  <2>1. bridge' \in BridgeState
    BY <1>f, <1>h, <1>8 DEF tickEnds
  <2>2. QED
    BY <1>8, <2>1 DEF tickEnds, publisherVars, TypeOK
<1>9. ASSUME NEW t \in Txs, postClaim(t)
      PROVE  TypeOK'
  <2>1. page' \in [Txs -> PageState]
    BY <1>b, <1>9 DEF postClaim, PageState
  <2>2. chain[t] \in PurchaseRecord
    BY <1>a, <1>9 DEF postClaim
  <2>3. Request("page", t, chain[t], PageDataset(chain[t].merch)) \in ClaimRequest
    BY <2>2, <1>i, DeliveryAssumption DEF DeliveryAssumption, Request, ClaimRequest, PageDataset, Datasets
  <2>4. QED
    BY <1>9, <2>1, <2>3 DEF postClaim, TypeOK
<1>9a. ASSUME NEW body \in OtherBodies, otherClaim(body)
       PROVE  TypeOK'
  <2>1. body \in Body
    BY DeliveryAssumption DEF DeliveryAssumption
  <2>2. body.tx \in Txs /\ body.purchase \in PurchaseRecord /\ body.dataset \in Datasets \cup {Empty}
    BY <2>1 DEF Body
  <2>3. Request("other", body.tx, body.purchase, body.dataset) \in ClaimRequest
    BY <2>2, <1>i DEF Request, ClaimRequest
  <2>4. faults' \in FaultCounts
    BY <1>e, <1>9a DEF otherClaim, FaultCounts
  <2>5. QED
    BY <1>9a, <2>3, <2>4, <1>d DEF otherClaim, TypeOK, FaultCounts
<1>10. ASSUME NEW r \in requests, NEW pc \in {"stash", "audit", "answer", "rejected"},
              NEW c \in Claims \cup {NoClaim}, Advance(r, pc, c)
       PROVE  requests' \subseteq ClaimRequest
  <2>1. [r EXCEPT !.pc = pc, !.claim = c] \in ClaimRequest
    BY <1>d DEF ClaimRequest
  <2>2. QED
    BY <1>d, <1>10, <2>1 DEF Advance
<1>11. ASSUME NEW r \in requests, reject(r)
       PROVE  TypeOK'
  <2>1. requests' \subseteq ClaimRequest
    BY <1>10, <1>11 DEF reject
  <2>2. QED
    BY <1>11, <2>1 DEF reject, TypeOK
<1>12. ASSUME NEW r \in requests, replay_marketplace_claim(r)
       PROVE  TypeOK'
  <2>1. requests' \subseteq ClaimRequest
    BY <1>c, <1>10, <1>12 DEF replay_marketplace_claim, ClaimsByTx
  <2>2. QED
    BY <1>12, <2>1 DEF replay_marketplace_claim, TypeOK
<1>13. ASSUME NEW r \in requests, create_marketplace_claim(r)
       PROVE  TypeOK'
  <2> DEFINE new == [tx |-> r.tx, merch |-> r.merch, buyer |-> r.buyer,
                     dataset |-> r.dataset, holder_did |-> NoWallet, from |-> r.from]
  <2>1. /\ r.tx \in Txs /\ r.merch \in Merchs /\ r.buyer \in Buyers /\ r.dataset \in Datasets
        /\ r.from \in {"bridge", "page", "other"}
    BY <1>d, <1>13 DEF create_marketplace_claim, MissingField, ClaimRequest
  <2>3. new \in MarketplaceClaim
    BY <2>1 DEF MarketplaceClaim
  <2>4. claims' = Append(claims, new)
    BY <1>13 DEF create_marketplace_claim
  <2>5. claims' \in Seq(MarketplaceClaim) /\ Len(claims') = Len(claims) + 1
    BY <1>c, <2>3, <2>4
  <2>6. Len(claims) + 1 <= Cardinality(Claims)
    BY RoomForClaim, <1>13 DEF Inv, create_marketplace_claim
  <2>7. requests' \subseteq ClaimRequest
    <3>1. Len(claims) + 1 \in Claims
      BY <1>c, <2>6, ClaimsRange
    <3>2. QED
      BY <1>10, <1>13, <3>1 DEF create_marketplace_claim
  <2>8. merchandise_dataset' \in [Merchs -> Datasets \cup {NoDataset}]
    <3>1. merchandise_dataset \in [Merchs -> Datasets \cup {NoDataset}]
      BY DEF TypeOK
    <3>2. QED
      BY <1>13, <2>1, <3>1 DEF create_marketplace_claim
  <2>9. forgotten' \in 0..Len(claims')
    BY <1>13, <1>c, <2>5 DEF create_marketplace_claim, TypeOK
  <2>10. QED
    BY <1>13, <2>5, <2>6, <2>7, <2>8, <2>9 DEF create_marketplace_claim, TypeOK
<1>14. ASSUME NEW r \in requests, stash_offer(r)
       PROVE  TypeOK'
  <2>1. r.claim \in Claims
    BY <1>c, <1>14 DEF stash_offer, HandlersConsistent, HandlerConsistent
  <2>2. requests' \subseteq ClaimRequest
    BY <1>10, <1>14, <2>1 DEF stash_offer
  <2>3. QED
    BY <1>14, <2>1, <2>2 DEF stash_offer, TypeOK
<1>17. ASSUME Fails
       PROVE  faults' \in FaultCounts
  BY <1>e, <1>17 DEF Fails, FaultCounts
<1>15. ASSUME NEW r \in requests, audit_claim(r)
       PROVE  TypeOK'
  <2>1. r.claim \in Claims /\ audit[r.claim] = 0
    BY <1>c, <1>15 DEF audit_claim, HandlersConsistent, HandlerConsistent, Unfinished
  <2>2. requests' \subseteq ClaimRequest
    BY <1>10, <1>15, <2>1 DEF audit_claim
  <2>3. faults' \in FaultCounts
    BY <1>e, <1>15, <1>17 DEF audit_claim
  <2>4. audit' \in [Claims -> 0..2]
    BY <1>15, <2>1 DEF audit_claim, TypeOK
  <2>5. QED
    BY <1>15, <2>2, <2>3, <2>4 DEF audit_claim, TypeOK, FaultCounts
<1>16. ASSUME NEW r \in requests, NEW ok \in BOOLEAN, ok => r.pc = "answer", CallerGoesOn(r, ok)
       PROVE  bridge' \in BridgeState /\ page' \in [Txs -> PageState] /\ links' \subseteq Claims
  <2>1. r.tx \in Txs /\ r.claim \in Claims \cup {NoClaim} /\ (r.pc = "answer" => r.claim \in Claims)
    BY <1>c, <1>d DEF ClaimRequest, HandlersConsistent, HandlerConsistent
  <2>2. bridge' \in BridgeState
    BY <1>b, <1>f, <1>g, <1>h, <1>16 DEF CallerGoesOn, BridgeGoesOn, OtherGoesOn
  <2>3. page' \in [Txs -> PageState]
    BY <1>b, <1>16, <2>1 DEF CallerGoesOn, BridgeGoesOn, OtherGoesOn, PageState
  <2>4. links' \subseteq Claims
    BY <1>e, <1>16, <2>1 DEF CallerGoesOn, BridgeGoesOn, OtherGoesOn
  <2>5. QED
    BY <2>2, <2>3, <2>4
<1>18. ASSUME NEW r \in requests, answer(r)
       PROVE  TypeOK'
  <2>1. bridge' \in BridgeState /\ page' \in [Txs -> PageState] /\ links' \subseteq Claims
    BY <1>16, <1>18 DEF answer
  <2>2. faults' \in FaultCounts
    BY <1>e, <1>17, <1>18 DEF answer
  <2>3. QED
    BY <1>18, <2>1, <2>2 DEF answer, TypeOK, FaultCounts
<1>19. ASSUME NEW r \in requests, refuse(r)
       PROVE  TypeOK'
  <2>1. bridge' \in BridgeState /\ page' \in [Txs -> PageState] /\ links' \subseteq Claims
    BY <1>16, <1>19 DEF refuse
  <2>2. QED
    BY <1>17, <1>19, <2>1 DEF refuse, TypeOK, FaultCounts
<1>20. ASSUME NEW w \in Wallets, Finished(w)
       PROVE  wallet' \in [Wallets -> WalletState]
  BY <1>b, <1>d, <1>20 DEF Finished, WalletState
<1>21. ASSUME NEW w \in Wallets, issuer_token(w)
       PROVE  TypeOK'
  <2> DEFINE c == wallet[w].claim
  <2>1. c \in Claims \cup {NoClaim}
    BY <1>c, <1>21 DEF issuer_token, ClaimsConsistent
  <2>2. wallet' \in [Wallets -> WalletState]
    BY <1>b, <1>d, <1>20, <1>21 DEF issuer_token, WalletState
  <2>3. tokens' \subseteq AccessToken
    BY <1>d, <1>21, <2>1 DEF issuer_token, AccessToken
  <2>4. offers' \in [Claims -> {"none", "open", "consumed"}]
    BY <1>d, <1>21, <2>1 DEF issuer_token, consume_offer
  <2>5. faults' \in FaultCounts
    BY <1>e, <1>17, <1>21 DEF issuer_token
  <2>6. QED
    BY <1>21, <2>2, <2>3, <2>4, <2>5 DEF issuer_token, TypeOK, FaultCounts
<1>22. ASSUME NEW w \in Wallets, issuer_credential(w)
       PROVE  TypeOK'
  <2> DEFINE c == wallet[w].claim
  <2>1. c \in DOMAIN claims \cup {NoClaim}
    BY <1>c, <1>22 DEF issuer_credential, ClaimsConsistent
  <2>2. wallet' \in [Wallets -> WalletState]
    BY <1>d, <1>20, <1>22 DEF issuer_credential, WalletState
  <2>3. claims' \in Seq(MarketplaceClaim) /\ Len(claims') = Len(claims)
    <3>1. CASE UNCHANGED claims
      BY <1>c, <3>1
    <3>2. CASE c # NoClaim /\ attach_holder_to_claim(w, c)
      <4>1. claims[c] \in MarketplaceClaim
        BY <1>c, <2>1, <3>2
      <4>2. [claims[c] EXCEPT !.holder_did = w] \in MarketplaceClaim
        BY <4>1 DEF MarketplaceClaim
      <4>3. QED
        BY <1>c, <2>1, <3>2, <4>2 DEF attach_holder_to_claim
    <3>3. QED
      BY <1>22, <3>1, <3>2 DEF issuer_credential, find_marketplace_claim_by_code
  <2>4. QED
    BY <1>22, <2>2, <2>3 DEF issuer_credential, TypeOK
<1>22a. ASSUME NEW w \in Wallets, issue_sd_jwt_vc(w)
        PROVE  TypeOK'
  <2> DEFINE c == wallet[w].claim
  <2>1. c \in Claims \cup {NoClaim} /\ c \in DOMAIN claims \cup {NoClaim}
    BY <1>c, <1>22a DEF issue_sd_jwt_vc, ClaimsConsistent
  <2>2. wallet' \in [Wallets -> WalletState]
    BY <1>d, <1>20, <1>22a DEF issue_sd_jwt_vc, WalletState
  <2>3. PurchaseViewerVC(w, c) \in Credential
    <3>1. CASE c = NoClaim
      BY <3>1 DEF PurchaseViewerVC, Credential
    <3>2. CASE c # NoClaim
      <4>1. claims[c] \in MarketplaceClaim
        BY <1>c, <2>1, <3>2
      <4>2. QED
        BY <2>1, <3>2, <4>1 DEF PurchaseViewerVC, find_marketplace_claim_by_code, Credential, MarketplaceClaim
    <3>3. QED
      BY <3>1, <3>2
  <2>4. vcs' \subseteq Credential /\ tokens' \subseteq AccessToken
    BY <1>d, <1>22a, <2>3 DEF issue_sd_jwt_vc
  <2>5. faults' \in FaultCounts
    BY <1>e, <1>17, <1>22a DEF issue_sd_jwt_vc
  <2>6. QED
    BY <1>22a, <2>2, <2>4, <2>5 DEF issue_sd_jwt_vc, TypeOK, FaultCounts
<1>23. ASSUME NEW w \in Wallets, NEW c \in Claims \cup {NoClaim}, Scans(w, c), faults' \in FaultCounts
       PROVE  TypeOK'
  <2>1. wallet' \in [Wallets -> WalletState]
    BY <1>d, <1>23 DEF Scans, WalletState
  <2>2. QED
    BY <1>23, <2>1 DEF Scans, publisherVars, TypeOK, FaultCounts
<1>23a. ASSUME NEW w \in Wallets, scan(w) \/ issuer_offer_fallback(w) \/ \E t \in Txs : issuer_offer(w, t)
        PROVE  TypeOK'
  <2>1. faults' \in FaultCounts
    BY <1>e, <1>23a DEF scan, issuer_offer, issuer_offer_fallback, FaultCounts
  <2>2. \E c \in Claims \cup {NoClaim} : Scans(w, c)
    BY <1>b, <1>c, <1>e, <1>23a DEF scan, issuer_offer, issuer_offer_fallback, ClaimsConsistent, PageState
  <2>3. QED
    BY <1>23, <2>1, <2>2
<1>24. ASSUME NEW c \in Live, offer_expires(c)
       PROVE  TypeOK'
  BY <1>c, <1>24 DEF offer_expires, TypeOK
<1>25. ASSUME NEW t \in tokens, token_expires(t)
       PROVE  TypeOK'
  BY <1>25 DEF token_expires, TypeOK
<1>26. ASSUME Restarts
       PROVE  faults' \in FaultCounts
  BY <1>e, <1>26 DEF Restarts, FaultCounts
<1>27. CASE bridge_restarts
  <2>1. bridge' \in BridgeState
    BY <1>a, <1>b, <1>27 DEF bridge_restarts, BridgeState
  <2>2. QED
    BY <1>26, <1>27, <2>1 DEF bridge_restarts, publisherVars, TypeOK, FaultCounts
<1>28. CASE publisher_restarts
  <2>1. bridge' \in BridgeState
    BY <1>b, <1>f, <1>g, <1>h, <1>28 DEF publisher_restarts, HangsUp
  <2>2. page' \in [Txs -> PageState]
    BY <1>b, <1>28 DEF publisher_restarts, HangsUp, PageState
  <2>3. wallet' \in [Wallets -> WalletState]
    BY <1>d, <1>28 DEF publisher_restarts, HangsUp, WalletState
  <2>4. QED
    BY <1>26, <1>28, <2>1, <2>2, <2>3 DEF publisher_restarts, TypeOK, FaultCounts
<1>29. CASE UNCHANGED vars
  BY <1>29 DEF vars, publisherVars, TypeOK
<1>30. QED
  BY <1>1, <1>2, <1>3, <1>4, <1>5, <1>6, <1>7, <1>8, <1>9, <1>9a, <1>11, <1>12, <1>13, <1>14, <1>15, <1>18, <1>19,
     <1>21, <1>22, <1>22a, <1>23a, <1>24, <1>25, <1>27, <1>28, <1>29
  DEF Next, BridgeStep, HandlerStep, WalletStep
-----------------------------------------------------------------------------
\* What a step leaves of a claim when it leaves what the claim says of its purchase.
SamePurchase(c) ==
  /\ claims'[c].tx = claims[c].tx /\ claims'[c].merch = claims[c].merch
  /\ claims'[c].buyer = claims[c].buyer /\ claims'[c].dataset = claims[c].dataset
  /\ claims'[c].from = claims[c].from

\* The chain only grows.
LEMMA ChainGrows ==
  ASSUME Inv, NEW m \in Merchs, NEW b \in Buyers, purchase(m, b)
  PROVE  /\ Len(chain') = Len(chain) + 1 /\ DOMAIN chain \subseteq DOMAIN chain'
         /\ \A t \in DOMAIN chain : chain'[t] = chain[t]
  BY Lengths DEF purchase

\* A new claim takes the next id and leaves the others alone.
LEMMA ClaimAdded ==
  ASSUME Inv, NEW r \in requests, create_marketplace_claim(r)
  PROVE  LET n == Len(claims) + 1
         IN /\ n \in Claims /\ n \notin DOMAIN claims /\ n > forgotten
            /\ DOMAIN claims' = DOMAIN claims \cup {n} /\ Live' = Live \cup {n} /\ Len(claims') = n
            /\ \A c \in DOMAIN claims : claims'[c] = claims[c]
            /\ claims'[n] = [tx |-> r.tx, merch |-> r.merch, buyer |-> r.buyer,
                             dataset |-> r.dataset, holder_did |-> NoWallet, from |-> r.from]
<1> DEFINE n == Len(claims) + 1
<1> DEFINE new == [tx |-> r.tx, merch |-> r.merch, buyer |-> r.buyer,
                   dataset |-> r.dataset, holder_did |-> NoWallet, from |-> r.from]
<1>1. claims' = Append(claims, new) /\ forgotten' = forgotten /\ ClaimsByTx(r) = {}
  BY DEF create_marketplace_claim
<1>2. /\ Len(claims') = n /\ DOMAIN claims' = 1..n
      /\ \A c \in DOMAIN claims : claims'[c] = claims[c]
      /\ claims'[n] = new
  <2> HIDE DEF new
  <2>1. QED
    BY <1>1, Lengths
<1>3. Live' = Live \cup {n}
  BY <1>1, <1>2, Lengths DEF Live
<1>4. n \in Claims
  BY <1>1, RoomForClaim, Lengths, ClaimsRange
<1>5. QED
  BY <1>2, <1>3, <1>4, Lengths

\* Attaching a holder changes nothing else of the claim.
LEMMA HolderAttached ==
  ASSUME Inv, NEW w \in Wallets, issuer_credential(w), wallet[w].claim # NoClaim,
         [wallet |-> w, claim |-> wallet[w].claim] \in tokens
  PROVE  LET d == wallet[w].claim
         IN /\ d \in Live /\ claims[d].holder_did \in {NoWallet, w} /\ offers[d] = "consumed"
            /\ DOMAIN claims' = DOMAIN claims /\ Live' = Live /\ Len(claims') = Len(claims)
            /\ claims'[d] = [claims[d] EXCEPT !.holder_did = w] /\ claims'[d].holder_did = w
            /\ \A c \in DOMAIN claims \ {d} : claims'[c] = claims[c]
            /\ \A c \in DOMAIN claims : SamePurchase(c)
<1> DEFINE d == wallet[w].claim
<1>1. d \in Live /\ claims[d].holder_did \in {NoWallet, w} /\ offers[d] = "consumed"
  BY DEF Inv, HoldersConsistent, TokenConsistent
<1>2. claims' = [claims EXCEPT ![d].holder_did = w] /\ forgotten' = forgotten
  BY DEF issuer_credential, find_marketplace_claim_by_code, attach_holder_to_claim
<1>3. claims[d] \in MarketplaceClaim
  BY <1>1, Lengths
<1>4. claims'[d] = [claims[d] EXCEPT !.holder_did = w] /\ \A c \in DOMAIN claims \ {d} : claims'[c] = claims[c]
  BY <1>1, <1>2, Lengths
<1>5. claims'[d].holder_did = w /\ SamePurchase(d)
  BY <1>3, <1>4 DEF MarketplaceClaim, SamePurchase
<1>6. DOMAIN claims' = DOMAIN claims /\ Len(claims') = Len(claims)
  BY <1>1, <1>2, Lengths
<1>7. Live' = Live
  BY <1>2, <1>6 DEF Live
<1>8. \A c \in DOMAIN claims : SamePurchase(c)
  BY <1>4, <1>5 DEF SamePurchase
<1>9. QED
  BY <1>1, <1>4, <1>5, <1>6, <1>7, <1>8

\* The issuer's part of a credential leaves what every claim says of its purchase.
LEMMA PurchaseKept ==
  ASSUME Inv, NEW w \in Wallets, issuer_credential(w)
  PROVE  /\ DOMAIN claims' = DOMAIN claims /\ Live' = Live /\ Len(claims') = Len(claims)
         /\ \A c \in DOMAIN claims : SamePurchase(c)
<1>1. CASE wallet[w].claim # NoClaim /\ [wallet |-> w, claim |-> wallet[w].claim] \in tokens
  BY <1>1, HolderAttached
<1>2. CASE wallet[w].claim = NoClaim \/ [wallet |-> w, claim |-> wallet[w].claim] \notin tokens
  BY <1>2 DEF issuer_credential, Live, SamePurchase
<1>3. QED
  BY <1>1, <1>2

-----------------------------------------------------------------------------
\* The bridge stays on the chain.
LEMMA BridgeStepInv == Inv /\ [Next]_vars => BridgeOnChain'
<1> SUFFICES ASSUME Inv, [Next]_vars
             PROVE  BridgeOnChain'
  OBVIOUS
<1>a. bridge \in BridgeState /\ BridgeOnChain /\ Len(chain) \in Nat
  BY Lengths DEF Inv, TypeOK
<1>b. /\ bridge.cursor \in Nat /\ bridge.head \in Nat /\ bridge.next \in Nat
      /\ DOMAIN bridge = {"pc", "watched", "cursor", "head", "next", "seenTx", "datasetCache"}
  BY <1>a, ClaimsRange DEF BridgeState
<1>1. ASSUME NEW m \in Merchs, NEW b \in Buyers, purchase(m, b)
      PROVE  BridgeOnChain'
  <2>1. Len(chain') = Len(chain) + 1 /\ bridge' = bridge
    BY <1>1, ChainGrows DEF purchase
  <2>2. QED
    BY <1>a, <1>b, <2>1 DEF BridgeOnChain
<1>2. CASE getMerchandises \/ getBlockNumber \/ getLogs \/ tickEnds \/ bridge_restarts
  <2>1. CASE getMerchandises
    BY <1>a, <1>b, <2>1 DEF BridgeOnChain, getMerchandises
  <2>2. CASE getBlockNumber
    BY <1>a, <1>b, <2>2 DEF BridgeOnChain, getBlockNumber
  <2>3. CASE getLogs
    BY <1>a, <1>b, <2>3 DEF BridgeOnChain, getLogs
  <2>4. CASE tickEnds
    BY <1>a, <1>b, <2>4 DEF BridgeOnChain, tickEnds
  <2>5. CASE bridge_restarts
    BY <1>a, <1>b, <2>5 DEF BridgeOnChain, bridge_restarts
  <2>6. QED
    BY <1>2, <2>1, <2>2, <2>3, <2>4, <2>5
<1>3. CASE skip
  BY <1>a, <1>b, <1>3 DEF BridgeOnChain, BridgeState, skip
<1>4. CASE bridgeClaim
  <2>1. /\ bridge'.pc = "claiming" /\ bridge'.cursor = bridge.cursor /\ bridge'.head = bridge.head
        /\ bridge'.next = bridge.next /\ chain' = chain
    BY <1>a, <1>4 DEF bridgeClaim, BridgeState
  <2>2. QED
    BY <1>a, <1>b, <1>4, <2>1 DEF BridgeOnChain, bridgeClaim
<1>5. ASSUME chain' = chain,
             \/ bridge' = bridge
             \/ bridge.pc = "claiming" /\ bridge' = [bridge EXCEPT !.pc = "logs", !.next = @ + 1]
      PROVE  BridgeOnChain'
  <2>1. CASE bridge' = bridge
    BY <1>a, <1>b, <1>5, <2>1 DEF BridgeOnChain
  <2>2. CASE bridge.pc = "claiming" /\ bridge' = [bridge EXCEPT !.pc = "logs", !.next = @ + 1]
    <3>1. /\ bridge'.pc = "logs" /\ bridge'.next = bridge.next + 1
          /\ bridge'.cursor = bridge.cursor /\ bridge'.head = bridge.head
      BY <1>b, <2>2
    <3>2. QED
      BY <1>a, <1>b, <1>5, <2>2, <3>1 DEF BridgeOnChain
  <2>3. QED
    BY <1>5, <2>1, <2>2
<1>6. ASSUME NEW r \in requests, answer(r) \/ refuse(r)
      PROVE  BridgeOnChain'
  BY <1>5, <1>6 DEF answer, refuse, CallerGoesOn, BridgeGoesOn, OtherGoesOn
<1>7. CASE publisher_restarts
  BY <1>5, <1>7 DEF publisher_restarts, HangsUp
<1>8. ASSUME UNCHANGED <<chain, bridge>>
      PROVE  BridgeOnChain'
  BY <1>5, <1>8
<1>9. QED
  BY <1>1, <1>2, <1>3, <1>4, <1>6, <1>7, <1>8
  DEF Next, BridgeStep, HandlerStep, WalletStep, vars, registerMerchandise, postClaim, reject,
      replay_marketplace_claim, create_marketplace_claim, stash_offer, audit_claim, issuer_token,
      issuer_credential, issue_sd_jwt_vc, scan, Scans,
      issuer_offer, issuer_offer_fallback, otherClaim, offer_expires, token_expires

\* A claim keeps its one handler that has still something to do for it.
LEMMA HandlersStepInv == Inv /\ [Next]_vars => HandlersConsistent'
<1> SUFFICES ASSUME Inv, [Next]_vars
             PROVE  HandlersConsistent'
  OBVIOUS
<1>a. /\ HandlersConsistent /\ HoldersConsistent /\ ClaimsConsistent /\ requests \subseteq ClaimRequest
      /\ audit \in [Claims -> 0..2] /\ offers \in [Claims -> {"none", "open", "consumed"}]
  BY DEF Inv, TypeOK
<1>b. \A r \in requests : r.tx \in Txs /\ DOMAIN r = {"from", "tx", "merch", "buyer", "dataset", "pc", "claim"}
  BY <1>a DEF ClaimRequest
\* Whoever stays as he is stays consistent, as long as his claim does.
<1>1. ASSUME NEW s \in requests, DOMAIN chain \subseteq DOMAIN chain', \A t \in DOMAIN chain : chain'[t] = chain[t],
             Live \subseteq Live', \A c \in Live : claims'[c].tx = claims[c].tx,
             Unfinished(s) => audit'[s.claim] = audit[s.claim],
             s.pc = "stash" => offers'[s.claim] = "none"
      PROVE  HandlerConsistent(s)'
  BY <1>1, <1>a DEF HandlersConsistent, HandlerConsistent, Unfinished
<1>2. ASSUME requests' \subseteq requests, DOMAIN chain \subseteq DOMAIN chain', \A t \in DOMAIN chain : chain'[t] = chain[t],
             Live \subseteq Live', \A c \in Live : claims'[c].tx = claims[c].tx,
             Len(claims') = Len(claims), audit' = audit,
             \A s \in requests : s.pc = "stash" => offers'[s.claim] = "none"
      PROVE  HandlersConsistent'
  BY <1>1, <1>2, <1>a DEF HandlersConsistent, Unfinished
<1>3. ASSUME NEW t, NEW from, NEW p \in PurchaseRecord, NEW dataset,
             from # "other" => t \in DOMAIN chain /\ p = chain[t],
             requests' = requests \cup {Request(from, t, p, dataset)},
             UNCHANGED <<chain, claims, forgotten, offers, audit>>
      PROVE  HandlersConsistent'
  <2> DEFINE q == Request(from, t, p, dataset)
  <2>1. p = [merch |-> p.merch, buyer |-> p.buyer]
    BY DEF PurchaseRecord
  <2>2. q.pc = "sent" /\ q.from = from /\ q.tx = t /\ q.merch = p.merch /\ q.buyer = p.buyer
    BY DEF Request
  <2> HIDE DEF q
  <2>3. HandlerConsistent(q)'
    BY <1>3, <2>1, <2>2 DEF HandlerConsistent, Unfinished
  <2>4. \A s \in requests : HandlerConsistent(s)'
    BY <1>1, <1>3, <1>a DEF HandlersConsistent, HandlerConsistent, Live
  <2>5. requests' = requests \cup {q} /\ ~Unfinished(q)
    BY <1>3, <2>2 DEF q, Unfinished
  <2>6. QED
    BY <1>3, <1>a, <2>3, <2>4, <2>5 DEF HandlersConsistent, Unfinished
<1>4. ASSUME NEW r \in requests, NEW c, NEW pc \in {"stash", "audit", "answer", "rejected"}, Advance(r, pc, c),
             \A s \in requests \ {r} : HandlerConsistent(s)',
             pc # "rejected" => c \in Live' /\ claims'[c].tx = r.tx,
             pc \in {"stash", "audit"} => /\ audit'[c] = 0
                                          /\ \A s \in requests \ {r} : Unfinished(s) => s.claim # c,
             pc = "stash" => offers'[c] = "none",
             chain' = chain
      PROVE  /\ \A s \in requests' : HandlerConsistent(s)'
             /\ \A q, s \in requests' : Unfinished(q) /\ Unfinished(s) /\ q.claim = s.claim => q = s
  <2> DEFINE q == [r EXCEPT !.pc = pc, !.claim = c]
  <2>1. /\ q.pc = pc /\ q.claim = c /\ q.tx = r.tx
        /\ q.from = r.from /\ q.merch = r.merch /\ q.buyer = r.buyer
    BY <1>b
  <2>2. requests' = (requests \ {r}) \cup {q}
    BY <1>4 DEF Advance
  <2> HIDE DEF q
  <2>3. HandlerConsistent(q)'
    BY <1>a, <1>4, <2>1 DEF HandlersConsistent, HandlerConsistent, Unfinished
  <2>4. QED
    BY <1>a, <1>4, <2>1, <2>2, <2>3 DEF HandlersConsistent, Unfinished
<1>5. ASSUME NEW m \in Merchs, NEW b \in Buyers, purchase(m, b)
      PROVE  HandlersConsistent'
  BY <1>2, <1>5, <1>a, ChainGrows DEF purchase, publisherVars, Live, HandlersConsistent, HandlerConsistent
<1>6. CASE bridgeClaim
  <2>1. bridge.next \in DOMAIN chain /\ chain[bridge.next] \in PurchaseRecord
    BY <1>6, Lengths, ClaimsRange DEF bridgeClaim, Inv, TypeOK, BridgeOnChain, BridgeState
  <2>2. QED
    BY <1>3, <1>6, <2>1 DEF bridgeClaim
<1>7. ASSUME NEW t \in Txs, postClaim(t)
      PROVE  HandlersConsistent'
  <2>1. t \in DOMAIN chain /\ chain[t] \in PurchaseRecord
    BY <1>7, Lengths DEF postClaim
  <2>2. QED
    BY <1>3, <1>7, <2>1 DEF postClaim
<1>7a. ASSUME NEW body \in OtherBodies, otherClaim(body)
       PROVE  HandlersConsistent'
  <2>1. body.purchase \in PurchaseRecord
    BY DeliveryAssumption DEF DeliveryAssumption, Body
  <2>2. QED
    BY <1>3, <1>7a, <2>1 DEF otherClaim
<1>8. ASSUME NEW r \in requests, reject(r)
      PROVE  HandlersConsistent'
  BY <1>1, <1>4, <1>8, <1>a DEF reject, HandlersConsistent, HandlerConsistent, Live
<1>9. ASSUME NEW r \in requests, replay_marketplace_claim(r)
      PROVE  HandlersConsistent'
  <2>1. PICK c \in Live : claims[c].tx = r.tx /\ Advance(r, "answer", c)
    BY <1>9 DEF replay_marketplace_claim, ClaimsByTx
  <2>2. \A s \in requests : HandlerConsistent(s)'
    BY <1>1, <1>9, <1>a DEF replay_marketplace_claim, HandlersConsistent, HandlerConsistent, Live
  <2>3. QED
    BY <1>4, <1>9, <1>a, <2>1, <2>2 DEF replay_marketplace_claim, HandlersConsistent, Live
<1>10. ASSUME NEW r \in requests, create_marketplace_claim(r)
       PROVE  HandlersConsistent'
  <2> DEFINE n == Len(claims) + 1
  <2>1. /\ n \in Claims /\ n \notin DOMAIN claims /\ n > forgotten /\ Len(claims') = n
        /\ Live' = Live \cup {n} /\ \A c \in DOMAIN claims : claims'[c] = claims[c]
        /\ claims'[n] = [tx |-> r.tx, merch |-> r.merch, buyer |-> r.buyer,
                         dataset |-> r.dataset, holder_did |-> NoWallet, from |-> r.from]
    BY <1>10, ClaimAdded
  <2>2. UNCHANGED <<chain, offers, audit>> /\ Advance(r, "stash", n)
    BY <1>10 DEF create_marketplace_claim
  <2> HIDE DEF n
  <2>a. claims'[n].tx = r.tx
    BY <2>1
  <2>3. \A s \in requests : HandlerConsistent(s)'
    BY <1>1, <1>a, <2>1, <2>2, Lengths DEF HandlersConsistent, HandlerConsistent
  <2>4. audit[n] = 0 /\ offers[n] = "none"
    <3>1. n > Len(claims)
      BY Lengths DEF n
    <3>2. QED
      BY <1>a, <2>1, <3>1, Lengths DEF HandlersConsistent, HoldersConsistent
  <2>5. \A s \in requests : Unfinished(s) => s.claim # n
    BY <1>a, <2>1, Lengths DEF HandlersConsistent, HandlerConsistent, Unfinished
  <2>6. /\ \A s \in requests' : HandlerConsistent(s)'
        /\ \A q, s \in requests' : Unfinished(q) /\ Unfinished(s) /\ q.claim = s.claim => q = s
    BY <1>4, <2>1, <2>a, <2>2, <2>3, <2>4, <2>5
  <2>7. \A c \in Claims : audit'[c] <= 1 /\ (c > Len(claims') => audit'[c] = 0)
    BY <1>a, <2>1, <2>2, Lengths, ClaimsRange DEF HandlersConsistent, n
  <2>8. QED
    BY <2>6, <2>7 DEF HandlersConsistent, Unfinished
<1>11. ASSUME NEW r \in requests, stash_offer(r)
       PROVE  HandlersConsistent'
  <2>1. r.claim \in Live /\ claims[r.claim].tx = r.tx /\ audit[r.claim] = 0
    BY <1>11, <1>a DEF stash_offer, HandlersConsistent, HandlerConsistent, Unfinished
  <2>2. \A s \in requests \ {r} : Unfinished(s) => s.claim # r.claim
    BY <1>11, <1>a DEF stash_offer, HandlersConsistent, Unfinished
  <2>3. /\ UNCHANGED <<chain, claims, forgotten, audit>> /\ Advance(r, "audit", r.claim)
        /\ offers' = [offers EXCEPT ![r.claim] = "open"]
    BY <1>11 DEF stash_offer
  <2>4. \A s \in requests \ {r} : HandlerConsistent(s)'
    BY <1>1, <1>a, <2>2, <2>3, Lengths DEF HandlersConsistent, HandlerConsistent, Unfinished, Live
  <2>5. Live' = Live
    BY <2>3 DEF Live
  <2>6. QED
    BY <1>4, <1>a, <2>1, <2>2, <2>3, <2>4, <2>5 DEF HandlersConsistent, Unfinished
<1>12. ASSUME NEW r \in requests, audit_claim(r)
       PROVE  HandlersConsistent'
  <2>1. r.claim \in Live /\ claims[r.claim].tx = r.tx /\ audit[r.claim] = 0
    BY <1>12, <1>a DEF audit_claim, HandlersConsistent, HandlerConsistent, Unfinished
  <2>2. \A s \in requests \ {r} : Unfinished(s) => s.claim # r.claim
    BY <1>12, <1>a DEF audit_claim, HandlersConsistent, Unfinished
  <2>3. /\ UNCHANGED <<chain, claims, forgotten, offers>>
        /\ \/ Advance(r, "answer", r.claim) /\ audit' = [audit EXCEPT ![r.claim] = @ + 1]
           \/ Advance(r, "rejected", NoClaim) /\ audit' = audit
    BY <1>12 DEF audit_claim
  <2>4. Live' = Live
    BY <2>3 DEF Live
  <2>5. \A s \in requests \ {r} : HandlerConsistent(s)'
    BY <1>1, <1>a, <2>2, <2>3, <2>4, Lengths DEF HandlersConsistent, HandlerConsistent, Unfinished
  <2>6. /\ \A s \in requests' : HandlerConsistent(s)'
        /\ \A q, s \in requests' : Unfinished(q) /\ Unfinished(s) /\ q.claim = s.claim => q = s
    BY <1>4, <2>1, <2>3, <2>4, <2>5
  <2>7. \A c \in Claims : audit'[c] <= 1 /\ (c > Len(claims') => audit'[c] = 0)
    BY <1>a, <2>1, <2>3, Lengths DEF HandlersConsistent
  <2>8. QED
    BY <2>6, <2>7 DEF HandlersConsistent, Unfinished
<1>13. ASSUME NEW r \in requests, answer(r) \/ refuse(r)
       PROVE  HandlersConsistent'
  <2>1. requests' \subseteq requests /\ UNCHANGED <<chain, claims, forgotten, offers, audit>>
    BY <1>13 DEF answer, refuse
  <2>2. QED
    BY <1>a, <2>1 DEF HandlersConsistent, HandlerConsistent, Live, Unfinished
<1>14. ASSUME NEW w \in Wallets, issuer_token(w)
       PROVE  HandlersConsistent'
  <2>1. \A c \in Claims : offers[c] = "none" => offers'[c] = "none"
    BY <1>14, <1>a DEF issuer_token, consume_offer
  <2>2. \A s \in requests : s.pc = "stash" => offers'[s.claim] = "none"
    BY <1>a, <2>1, Lengths DEF HandlersConsistent, HandlerConsistent
  <2>3. QED
    BY <1>2, <1>14, <2>2 DEF issuer_token, Live
<1>15. ASSUME NEW w \in Wallets, issuer_credential(w)
       PROVE  HandlersConsistent'
  <2>1. /\ UNCHANGED <<chain, requests, offers, audit>> /\ Live' = Live /\ Len(claims') = Len(claims)
        /\ \A c \in Live : claims'[c].tx = claims[c].tx
    BY <1>15, PurchaseKept, Lengths DEF issuer_credential, SamePurchase
  <2>2. QED
    BY <1>2, <1>a, <2>1 DEF HandlersConsistent, HandlerConsistent
<1>16. CASE publisher_restarts
  BY <1>16, <1>a DEF publisher_restarts, HandlersConsistent
<1>17. ASSUME UNCHANGED <<chain, requests, claims, forgotten, offers, audit>>
       PROVE  HandlersConsistent'
  BY <1>2, <1>17, <1>a DEF HandlersConsistent, HandlerConsistent, Live
<1>18. QED
  BY <1>5, <1>6, <1>7, <1>7a, <1>8, <1>9, <1>10, <1>11, <1>12, <1>13, <1>14, <1>15, <1>16, <1>17
  DEF Next, BridgeStep, HandlerStep, WalletStep, vars, publisherVars, registerMerchandise, getMerchandises,
      getBlockNumber, getLogs, skip, tickEnds, issue_sd_jwt_vc, scan, Scans, issuer_offer,
      issuer_offer_fallback, offer_expires, token_expires, bridge_restarts

\* No step brings more than one fault.
OneFault ==
  \/ UNCHANGED faults
  \/ Fails
  \/ Restarts
  \/ faults' = [faults EXCEPT !.other = @ + 1]
LEMMA EveryFault == [Next]_vars => OneFault
  BY DEF Next, BridgeStep, HandlerStep, WalletStep, vars, registerMerchandise, purchase, getMerchandises,
         getBlockNumber, getLogs, skip, bridgeClaim, ReadsDataset, tickEnds, postClaim, otherClaim, reject,
         replay_marketplace_claim, create_marketplace_claim, stash_offer, audit_claim, answer, refuse,
         issuer_token, issuer_credential, issue_sd_jwt_vc, scan, Scans, issuer_offer, issuer_offer_fallback,
         offer_expires, token_expires, bridge_restarts, publisher_restarts, OneFault

\* Claims stay what the chain says of their purchases, and pages and wallets go on knowing them.
LEMMA ClaimsStepInv == Inv /\ [Next]_vars => ClaimsConsistent'
<1> SUFFICES ASSUME Inv, [Next]_vars
             PROVE  ClaimsConsistent'
  OBVIOUS
<1>a. /\ ClaimsConsistent /\ requests \subseteq ClaimRequest
      /\ page \in [Txs -> PageState] /\ wallet \in [Wallets -> WalletState]
  BY DEF Inv, TypeOK
<1>b. faults.restart \in Nat /\ MaxPurchases * faults.restart \in Nat
  BY ClaimsRange, ProductMonotone DEF Inv, TypeOK, FaultCounts
\* What is left to show of a step that does not touch a claim's purchase.
<1>1. ASSUME DOMAIN chain \subseteq DOMAIN chain', \A t \in DOMAIN chain : chain'[t] = chain[t],
             DOMAIN claims' = DOMAIN claims, Live' \subseteq Live,
             \A c \in DOMAIN claims : SamePurchase(c),
             \A t \in Txs : page'[t].status = "ready" =>
               \/ page'[t] = page[t]
               \/ page'[t].claim \in DOMAIN claims /\ claims[page'[t].claim].tx = t,
             \A w \in Wallets : wallet'[w].pc # "idle" => wallet'[w].claim \in DOMAIN claims \cup {NoClaim},
             links' \subseteq DOMAIN claims,
             forgotten' <= MaxPurchases * faults'.restart
      PROVE  ClaimsConsistent'
  <2>1. \A c \in DOMAIN claims' : claims'[c].from # "other" =>
          /\ claims'[c].tx \in DOMAIN chain'
          /\ chain'[claims'[c].tx] = [merch |-> claims'[c].merch, buyer |-> claims'[c].buyer]
    BY <1>1, <1>a DEF ClaimsConsistent, SamePurchase
  <2>2. \A c, d \in Live' : claims'[c].tx = claims'[d].tx => c = d
    BY <1>1, <1>a, Lengths DEF ClaimsConsistent, SamePurchase
  <2>3. \A t \in Txs : page'[t].status = "ready" =>
          page'[t].claim \in DOMAIN claims' /\ claims'[page'[t].claim].tx = t
    BY <1>1, <1>a DEF ClaimsConsistent, SamePurchase
  <2>4. QED
    BY <1>1, <2>1, <2>2, <2>3 DEF ClaimsConsistent
<1>2. ASSUME UNCHANGED <<chain, claims, forgotten, wallet>>, OneFault, links' \subseteq DOMAIN claims,
             \A t \in Txs : page'[t].status = "ready" =>
               \/ page'[t] = page[t]
               \/ page'[t].claim \in DOMAIN claims /\ claims[page'[t].claim].tx = t
      PROVE  ClaimsConsistent'
  <2>1. faults'.restart = faults.restart \/ faults'.restart = faults.restart + 1
    BY <1>2 DEF OneFault, Fails, Restarts, Inv, TypeOK, FaultCounts
  <2>2. MaxPurchases * faults.restart <= MaxPurchases * faults'.restart
    BY <1>b, <2>1, ClaimsRange, ProductMonotone
  <2>3. MaxPurchases * faults'.restart \in Nat
    BY <1>b, <2>1, ClaimsRange, ProductMonotone
  <2>4. forgotten' <= MaxPurchases * faults'.restart
    BY <1>2, <1>a, <1>b, <2>2, <2>3, Lengths DEF ClaimsConsistent
  <2>5. QED
    BY <1>1, <1>2, <1>a, <2>4 DEF ClaimsConsistent, Live, SamePurchase
<1>3. ASSUME NEW m \in Merchs, NEW b \in Buyers, purchase(m, b)
      PROVE  ClaimsConsistent'
  BY <1>1, <1>3, <1>a, ChainGrows DEF purchase, publisherVars, Live, ClaimsConsistent, SamePurchase
<1>4. ASSUME NEW t \in Txs, postClaim(t)
      PROVE  ClaimsConsistent'
  <2>1. \A u \in Txs : page'[u].status = "ready" => page'[u] = page[u]
    BY <1>4, <1>a DEF postClaim
  <2>2. QED
    BY <1>2, <1>4, <1>a, <2>1 DEF postClaim, OneFault, ClaimsConsistent
<1>5. ASSUME NEW r \in requests, create_marketplace_claim(r)
      PROVE  ClaimsConsistent'
  <2> DEFINE n == Len(claims) + 1
  <2>1. /\ n \notin DOMAIN claims /\ DOMAIN claims' = DOMAIN claims \cup {n} /\ Live' = Live \cup {n}
        /\ \A c \in DOMAIN claims : claims'[c] = claims[c]
        /\ claims'[n] = [tx |-> r.tx, merch |-> r.merch, buyer |-> r.buyer,
                         dataset |-> r.dataset, holder_did |-> NoWallet, from |-> r.from]
    BY <1>5, ClaimAdded
  <2>2. /\ claims'[n].tx = r.tx /\ claims'[n].merch = r.merch
        /\ claims'[n].buyer = r.buyer /\ claims'[n].from = r.from
    BY <2>1
  <2>3. /\ r.from # "other" => r.tx \in DOMAIN chain /\ chain[r.tx] = [merch |-> r.merch, buyer |-> r.buyer]
        /\ \A c \in Live : claims[c].tx # r.tx
    BY <1>5 DEF create_marketplace_claim, ClaimsByTx, Inv, HandlersConsistent, HandlerConsistent
  <2>5. UNCHANGED <<chain, page, wallet, links, forgotten, faults>>
    BY <1>5 DEF create_marketplace_claim
  <2> HIDE DEF n
  <2>6. \A c \in DOMAIN claims' : claims'[c].from # "other" =>
          /\ claims'[c].tx \in DOMAIN chain
          /\ chain[claims'[c].tx] = [merch |-> claims'[c].merch, buyer |-> claims'[c].buyer]
    BY <1>a, <2>1, <2>2, <2>3 DEF ClaimsConsistent
  <2>7. \A c, d \in Live' : claims'[c].tx = claims'[d].tx => c = d
    BY <1>a, <2>1, <2>2, <2>3, Lengths DEF ClaimsConsistent
  <2>8. QED
    BY <1>a, <2>1, <2>5, <2>6, <2>7 DEF ClaimsConsistent
<1>6. ASSUME NEW r \in requests, answer(r) \/ refuse(r)
      PROVE  ClaimsConsistent'
  <2>1. r.pc = "answer" => r.claim \in DOMAIN claims /\ claims[r.claim].tx = r.tx
    BY Lengths DEF Inv, HandlersConsistent, HandlerConsistent
  <2>2. PICK ok \in BOOLEAN : CallerGoesOn(r, ok) /\ (ok => r.pc = "answer")
    BY <1>6 DEF answer, refuse
  <2>3. r.tx \in Txs
    BY <1>a DEF ClaimRequest
  <2>4. \A t \in Txs : page'[t].status = "ready" =>
               \/ page'[t] = page[t]
               \/ page'[t].claim \in DOMAIN claims /\ claims[page'[t].claim].tx = t
    <3>1. CASE page' = page
      BY <3>1
    <3>2. CASE ok /\ page' = [page EXCEPT ![r.tx] = [status |-> "ready", claim |-> r.claim]]
      BY <1>a, <2>1, <2>2, <2>3, <3>2
    <3>3. CASE page' = [page EXCEPT ![r.tx] = [@ EXCEPT !.status = "idle"]]
      BY <1>a, <2>3, <3>3 DEF PageState
    <3>4. QED
      BY <2>2, <3>1, <3>2, <3>3 DEF CallerGoesOn, BridgeGoesOn, OtherGoesOn
  <2>5. links' \subseteq DOMAIN claims
    BY <1>a, <2>1, <2>2 DEF CallerGoesOn, BridgeGoesOn, OtherGoesOn, ClaimsConsistent
  <2>6. QED
    BY <1>2, <1>6, <2>4, <2>5 DEF answer, refuse, OneFault
<1>7. ASSUME NEW w \in Wallets, UNCHANGED <<chain, page, links, forgotten>>, OneFault, ~Restarts,
             DOMAIN claims' = DOMAIN claims, \A c \in DOMAIN claims : SamePurchase(c),
             \/ wallet' = wallet
             \/ Finished(w)
             \/ /\ wallet[w].pc # "idle"
                /\ \E pc \in {"token", "linked"} : wallet' = [wallet EXCEPT ![w].pc = pc]
             \/ \E c \in DOMAIN claims \cup {NoClaim} : wallet' = [wallet EXCEPT ![w] = [pc |-> "offer", claim |-> c]]
      PROVE  ClaimsConsistent'
  <2>1. \A v \in Wallets : wallet'[v].pc # "idle" => wallet'[v].claim \in DOMAIN claims \cup {NoClaim}
    BY <1>7, <1>a DEF ClaimsConsistent, Finished, WalletState
  <2>2. faults'.restart = faults.restart
    BY <1>7 DEF OneFault, Fails, Inv, TypeOK, FaultCounts
  <2>3. QED
    BY <1>1, <1>7, <1>a, <2>1, <2>2 DEF ClaimsConsistent, Live
<1>7a. Restarts => faults' # faults /\ faults'.failure = faults.failure /\ faults'.other = faults.other
                   /\ faults'.restart = faults.restart + 1
  BY ClaimsRange DEF Restarts, Inv, TypeOK, FaultCounts
<1>7b. Fails => ~Restarts
  BY <1>7a, ClaimsRange DEF Fails, Inv, TypeOK, FaultCounts
<1>8. ASSUME NEW w \in Wallets, scan(w) \/ issuer_offer_fallback(w) \/ \E t \in Txs : issuer_offer(w, t)
      PROVE  ClaimsConsistent'
  <2>1. UNCHANGED <<chain, page, links, forgotten, claims>>
    BY <1>8 DEF scan, issuer_offer, issuer_offer_fallback, Scans, publisherVars
  <2>2. \E c \in DOMAIN claims \cup {NoClaim} : wallet' = [wallet EXCEPT ![w] = [pc |-> "offer", claim |-> c]]
    BY <1>8, <1>a DEF scan, issuer_offer, issuer_offer_fallback, Scans, ClaimsConsistent
  <2>3. OneFault /\ ~Restarts
    BY <1>8, <1>7a, ClaimsRange
    DEF scan, issuer_offer, issuer_offer_fallback, OneFault, Inv, TypeOK, FaultCounts
  <2>4. QED
    BY <1>7, <2>1, <2>2, <2>3 DEF SamePurchase
<1>9. ASSUME NEW w \in Wallets, issuer_token(w)
      PROVE  ClaimsConsistent'
  BY <1>7, <1>7a, <1>7b, <1>9 DEF issuer_token, OneFault, SamePurchase
<1>10. ASSUME NEW w \in Wallets, issuer_credential(w)
       PROVE  ClaimsConsistent'
  BY <1>7, <1>7a, <1>10, PurchaseKept DEF issuer_credential, OneFault
<1>10a. ASSUME NEW w \in Wallets, issue_sd_jwt_vc(w)
        PROVE  ClaimsConsistent'
  BY <1>7, <1>7a, <1>7b, <1>10a DEF issue_sd_jwt_vc, OneFault, SamePurchase
<1>11. CASE publisher_restarts
  <2>1. Len(claims) <= MaxPurchases * faults'.restart
    <3>1. faults'.restart = faults.restart + 1
      BY <1>7a, <1>11 DEF publisher_restarts
    <3>2. MaxPurchases * faults'.restart = MaxPurchases * faults.restart + MaxPurchases
      BY <1>b, <3>1, ClaimsRange, ProductMonotone
    <3>3. forgotten <= MaxPurchases * faults.restart
      BY <1>a DEF ClaimsConsistent
    <3>4. Len(claims) <= forgotten + MaxPurchases
      BY FewLive
    <3>5. /\ forgotten \in Nat /\ Len(claims) \in Nat /\ MaxPurchases \in Nat
          /\ MaxPurchases * faults.restart \in Nat
      BY <1>b, Lengths, ClaimsRange, ProductMonotone
    <3>6. QED
      BY <3>2, <3>3, <3>4, <3>5
  <2>2. Live' = {}
    BY <1>11, Lengths DEF publisher_restarts, Live
  <2>3. \A t \in Txs : page'[t].status = "ready" => page'[t] = page[t]
    BY <1>11, <1>a DEF publisher_restarts, HangsUp, PageState
  <2>4. \A w \in Wallets : wallet'[w].pc # "idle" => wallet'[w].claim \in DOMAIN claims \cup {NoClaim}
    BY <1>11, <1>a DEF publisher_restarts, HangsUp, WalletState, ClaimsConsistent
  <2>5. QED
    BY <1>1, <1>11, <1>a, <2>1, <2>2, <2>3, <2>4 DEF publisher_restarts, ClaimsConsistent, SamePurchase
<1>12. ASSUME UNCHANGED <<chain, page, claims, forgotten, wallet, links>>, OneFault
       PROVE  ClaimsConsistent'
  BY <1>2, <1>12, <1>a DEF ClaimsConsistent
<1>13. QED
  BY <1>3, <1>4, <1>5, <1>6, <1>8, <1>9, <1>10, <1>10a, <1>11, <1>12, EveryFault
  DEF Next, BridgeStep, HandlerStep, WalletStep, vars, publisherVars, registerMerchandise, getMerchandises,
      getBlockNumber, getLogs, skip, bridgeClaim, tickEnds, otherClaim, reject, replay_marketplace_claim,
      stash_offer, audit_claim, offer_expires, token_expires, bridge_restarts

\* A code goes to one wallet, and the claim's holder is that wallet or nobody yet.
LEMMA HoldersStepInv == Inv /\ [Next]_vars => HoldersConsistent'
<1> SUFFICES ASSUME Inv, [Next]_vars
             PROVE  HoldersConsistent'
  OBVIOUS
<1>a. /\ HoldersConsistent /\ offers \in [Claims -> {"none", "open", "consumed"}]
      /\ tokens \subseteq AccessToken /\ wallet \in [Wallets -> WalletState]
  BY DEF Inv, TypeOK
<1>b. \A v \in OfPurchase : v.claim # NoClaim /\ v.claim \in DOMAIN claims /\ v.holder # NoWallet
  BY <1>a, DeliveryAssumption
  DEF DeliveryAssumption, Inv, TypeOK, Credential, OfPurchase, HoldersConsistent, CredentialConsistent
\* What is left to show of a step that attaches no holder.
<1>c. ASSUME DOMAIN claims \subseteq DOMAIN claims', Live \subseteq Live', \A c \in DOMAIN claims : claims'[c] = claims[c],
             \A c \in Claims : offers'[c] # "none" => c \in Live',
             \A c \in Live' : offers'[c] # "consumed" => claims'[c].holder_did = NoWallet,
             \A t \in tokens' : t.claim # NoClaim => TokenConsistent(t)',
             \A t, u \in tokens' : t.claim = u.claim /\ t.claim # NoClaim => t = u,
             \A w \in Wallets : wallet'[w].pc = "linked" => wallet'[w] = wallet[w],
             vcs' = vcs
      PROVE  HoldersConsistent'
  <2>1. \A w \in Wallets : wallet'[w].pc = "linked" /\ wallet'[w].claim # NoClaim =>
          wallet'[w].claim \in Live' /\ claims'[wallet'[w].claim].holder_did = w
    BY <1>a, <1>c, Lengths DEF HoldersConsistent
  <2>2. OfPurchase' = OfPurchase
    BY <1>c DEF OfPurchase
  <2>3. \A v \in OfPurchase : CredentialConsistent(v)'
    BY <1>a, <1>c DEF HoldersConsistent, CredentialConsistent
  <2>4. QED
    BY <1>c, <2>1, <2>2, <2>3 DEF HoldersConsistent
<1>1. ASSUME NEW r \in requests, create_marketplace_claim(r)
      PROVE  HoldersConsistent'
  <2> DEFINE n == Len(claims) + 1
  <2>1. /\ n \notin DOMAIN claims /\ DOMAIN claims' = DOMAIN claims \cup {n} /\ Live' = Live \cup {n}
        /\ \A c \in DOMAIN claims : claims'[c] = claims[c]
        /\ claims'[n] = [tx |-> r.tx, merch |-> r.merch, buyer |-> r.buyer,
                         dataset |-> r.dataset, holder_did |-> NoWallet, from |-> r.from]
    BY <1>1, ClaimAdded
  <2>2. claims'[n].holder_did = NoWallet
    BY <2>1
  <2>3. UNCHANGED <<offers, tokens, vcs, wallet>>
    BY <1>1 DEF create_marketplace_claim
  <2> HIDE DEF n
  <2>4. \A t \in tokens' : t.claim # NoClaim => TokenConsistent(t)'
    BY <1>a, <2>1, <2>3, Lengths DEF HoldersConsistent, TokenConsistent
  <2>5. \A c \in Claims : offers'[c] # "none" => c \in Live'
    BY <1>a, <2>1, <2>3 DEF HoldersConsistent
  <2>6. \A c \in Live' : offers'[c] # "consumed" => claims'[c].holder_did = NoWallet
    BY <1>a, <2>1, <2>2, <2>3, Lengths DEF HoldersConsistent
  <2>7. \A t, u \in tokens' : t.claim = u.claim /\ t.claim # NoClaim => t = u
    BY <1>a, <2>3 DEF HoldersConsistent
  <2>8. QED
    BY <1>c, <2>1, <2>3, <2>4, <2>5, <2>6, <2>7
\* The claims stay as they are.
<1>d. ASSUME UNCHANGED <<claims, forgotten, vcs>>,
             \A c \in Claims : offers'[c] # "none" => c \in Live,
             \A c \in Live : offers'[c] # "consumed" => claims[c].holder_did = NoWallet,
             \A c \in Claims : offers[c] = "consumed" => offers'[c] = "consumed",
             tokens' \subseteq tokens,
             \A w \in Wallets : wallet'[w].pc = "linked" => wallet'[w] = wallet[w]
      PROVE  HoldersConsistent'
  <2>1. Live' = Live
    BY <1>d DEF Live
  <2>2. \A t \in tokens : t.claim # NoClaim => TokenConsistent(t)'
    BY <1>a, <1>d, <2>1, Lengths DEF HoldersConsistent, TokenConsistent
  <2>3. QED
    BY <1>a, <1>c, <1>d, <2>1, <2>2 DEF HoldersConsistent
<1>2. ASSUME NEW r \in requests, stash_offer(r)
      PROVE  HoldersConsistent'
  <2>1. r.claim \in Live /\ r.claim \in Claims /\ offers[r.claim] = "none"
    BY <1>2, Lengths DEF stash_offer, Inv, HandlersConsistent, HandlerConsistent
  <2>2. UNCHANGED <<claims, forgotten, tokens, vcs, wallet>> /\ offers' = [offers EXCEPT ![r.claim] = "open"]
    BY <1>2 DEF stash_offer
  <2>3. QED
    BY <1>a, <1>d, <2>1, <2>2, Lengths DEF HoldersConsistent
<1>3. ASSUME NEW w \in Wallets, issuer_token(w)
      PROVE  HoldersConsistent'
  <2> DEFINE c == wallet[w].claim
  <2>1. /\ UNCHANGED <<claims, forgotten, vcs>> /\ Live' = Live
        /\ \A v \in Wallets : wallet'[v].pc = "linked" => wallet'[v] = wallet[v]
    BY <1>3, <1>a DEF issuer_token, Live, Finished, WalletState
  <2>2. CASE UNCHANGED <<offers, tokens>>
    BY <1>a, <1>d, <2>1, <2>2 DEF HoldersConsistent
  <2>3. CASE c # NoClaim /\ /\ offers[c] = "open" /\ offers' = [offers EXCEPT ![c] = "consumed"]
                            /\ tokens' \subseteq tokens \cup {[wallet |-> w, claim |-> c]}
    <3>1. c \in DOMAIN claims
      BY <1>3, <2>3 DEF issuer_token, Inv, ClaimsConsistent
    <3>2. c \in Claims /\ c \in Live /\ claims[c].holder_did = NoWallet
      BY <1>a, <2>3, <3>1, Lengths DEF HoldersConsistent
    <3>3. \A t \in tokens : t.claim # c
      BY <1>a, <2>3 DEF HoldersConsistent, TokenConsistent
    <3>4. offers' \in [Claims -> {"none", "open", "consumed"}] /\ offers'[c] = "consumed"
          /\ \A d \in Claims \ {c} : offers'[d] = offers[d]
      BY <1>a, <2>3, <3>2
    <3>5. \A t \in tokens' : t \in tokens \/ (t.wallet = w /\ t.claim = c /\ t = [wallet |-> w, claim |-> c])
      BY <2>3
    <3> HIDE DEF c
    <3>6. \A t \in tokens' : t.claim # NoClaim => TokenConsistent(t)'
      BY <1>a, <2>1, <3>2, <3>3, <3>4, <3>5, Lengths DEF HoldersConsistent, TokenConsistent
    <3>7. \A t, u \in tokens' : t.claim = u.claim /\ t.claim # NoClaim => t = u
      BY <1>a, <3>3, <3>5 DEF HoldersConsistent
    <3>8. \A d \in Claims : offers'[d] # "none" => d \in Live
      BY <1>a, <3>2, <3>4 DEF HoldersConsistent
    <3>9. \A d \in Live : offers'[d] # "consumed" => claims[d].holder_did = NoWallet
      BY <1>a, <3>4, Lengths DEF HoldersConsistent
    <3>10. QED
      BY <1>a, <1>c, <2>1, <3>6, <3>7, <3>8, <3>9
  <2>4. CASE c = NoClaim /\ UNCHANGED offers /\ tokens' = tokens \cup {[wallet |-> w, claim |-> c]}
    <3>1. \A t \in tokens' : t.claim # NoClaim => t \in tokens
      BY <2>4
    <3>2. \A t \in tokens : t.claim # NoClaim => TokenConsistent(t)'
      BY <1>a, <2>1, <2>4 DEF HoldersConsistent, TokenConsistent
    <3>3. \A t, u \in tokens' : t.claim = u.claim /\ t.claim # NoClaim => t = u
      BY <1>a, <3>1 DEF HoldersConsistent
    <3>4. QED
      BY <1>a, <1>c, <2>1, <2>4, <3>1, <3>2, <3>3 DEF HoldersConsistent
  <2>5. QED
    BY <1>3, <2>2, <2>3, <2>4 DEF issuer_token, consume_offer
<1>4. ASSUME NEW w \in Wallets, issuer_credential(w)
      PROVE  HoldersConsistent'
  <2> DEFINE d == wallet[w].claim
  <2>1. UNCHANGED <<offers, tokens, vcs, forgotten>>
    BY <1>4 DEF issuer_credential
  <2>2. CASE d # NoClaim /\ [wallet |-> w, claim |-> d] \in tokens
    <3>1. /\ d \in Live /\ claims[d].holder_did \in {NoWallet, w} /\ offers[d] = "consumed"
          /\ DOMAIN claims' = DOMAIN claims /\ Live' = Live /\ claims'[d].holder_did = w
          /\ \A c \in DOMAIN claims \ {d} : claims'[c] = claims[c]
          /\ \A c \in DOMAIN claims : SamePurchase(c)
      BY <1>4, <2>2, HolderAttached
    <3>2. \A u \in tokens : u.claim = d => u.wallet = w
      BY <1>a, <2>2 DEF HoldersConsistent
    <3>3. wallet' = [wallet EXCEPT ![w].pc = "linked"]
      BY <1>4, <2>2 DEF issuer_credential
    <3>4. \A v \in OfPurchase : v.claim = d => v.holder = w
      BY <1>a, <1>b, <3>1 DEF HoldersConsistent, CredentialConsistent
    <3>5. OfPurchase' = OfPurchase
      BY <2>1 DEF OfPurchase
    <3>6. \A v \in Wallets : /\ v # w => wallet'[v] = wallet[v]
                             /\ wallet'[v].claim = wallet[v].claim
      BY <1>a, <3>3 DEF WalletState
    <3>7. wallet[w].claim = d
      OBVIOUS
    <3> HIDE DEF d
    <3>8. \A v \in OfPurchase : CredentialConsistent(v)'
      <4> SUFFICES ASSUME NEW v \in OfPurchase
                   PROVE  CredentialConsistent(v)'
        OBVIOUS
      <4>1. CredentialConsistent(v) /\ v.claim \in DOMAIN claims
        BY <1>a, <1>b DEF HoldersConsistent
      <4>2. claims'[v.claim].holder_did = v.holder
        BY <3>1, <3>4, <4>1 DEF CredentialConsistent
      <4>3. QED
        BY <3>1, <4>1, <4>2 DEF CredentialConsistent, SamePurchase
    <3>9. \A u \in tokens : u.claim # NoClaim => TokenConsistent(u)'
      <4> SUFFICES ASSUME NEW u \in tokens, u.claim # NoClaim
                   PROVE  TokenConsistent(u)'
        OBVIOUS
      <4>1. TokenConsistent(u)
        BY <1>a DEF HoldersConsistent
      <4>2. claims'[u.claim].holder_did \in {NoWallet, u.wallet}
        BY <3>1, <3>2, <4>1, Lengths DEF TokenConsistent
      <4>3. QED
        BY <2>1, <3>1, <4>1, <4>2 DEF TokenConsistent
    <3>10. ASSUME NEW v \in Wallets, wallet'[v].pc = "linked", wallet'[v].claim # NoClaim
           PROVE  wallet'[v].claim \in Live' /\ claims'[wallet'[v].claim].holder_did = v
      <4>1. CASE v = w
        BY <3>1, <3>6, <3>7, <4>1
      <4>2. CASE v # w
        <5>1. wallet[v].claim \in Live /\ claims[wallet[v].claim].holder_did = v
          BY <1>a, <3>6, <3>10, <4>2 DEF HoldersConsistent
        <5>2. wallet[v].claim # d
          BY <3>1, <4>2, <5>1, DeliveryAssumption DEF DeliveryAssumption
        <5>3. QED
          BY <3>1, <3>6, <4>2, <5>1, <5>2, Lengths
      <4>3. QED
        BY <4>1, <4>2
    <3>11. /\ \A c \in Live' : offers'[c] # "consumed" => claims'[c].holder_did = NoWallet
           /\ \A c \in Claims : offers'[c] # "none" => c \in Live'
      BY <1>a, <2>1, <3>1, Lengths DEF HoldersConsistent
    <3>12. QED
      BY <1>a, <2>1, <3>5, <3>8, <3>9, <3>10, <3>11 DEF HoldersConsistent
  <2>3. CASE [wallet |-> w, claim |-> d] \notin tokens
    <3>1. UNCHANGED claims /\ \A v \in Wallets : wallet'[v].pc = "linked" => wallet'[v] = wallet[v]
      BY <1>4, <1>a, <2>3 DEF issuer_credential, Finished, WalletState
    <3>2. QED
      BY <1>a, <1>d, <2>1, <3>1 DEF HoldersConsistent
  <2>4. CASE d = NoClaim /\ [wallet |-> w, claim |-> d] \in tokens
    <3>1. UNCHANGED claims /\ wallet' = [wallet EXCEPT ![w].pc = "linked"]
      BY <1>4, <2>4 DEF issuer_credential
    <3>2. \A v \in Wallets : wallet'[v].pc = "linked" /\ wallet'[v].claim # NoClaim => wallet'[v] = wallet[v]
      BY <1>a, <2>4, <3>1 DEF WalletState
    <3>3. Live' = Live /\ OfPurchase' = OfPurchase
      BY <2>1, <3>1 DEF Live, OfPurchase
    <3>4. UNCHANGED <<claims, forgotten, offers, tokens>>
      BY <2>1, <3>1
    <3>5. \A t \in tokens' : t.claim # NoClaim => TokenConsistent(t)'
      BY <1>a, <3>3, <3>4 DEF HoldersConsistent, TokenConsistent
    <3>6. \A v \in OfPurchase' : CredentialConsistent(v)'
      BY <1>a, <3>3, <3>4 DEF HoldersConsistent, CredentialConsistent
    <3>7. \A v \in Wallets : wallet'[v].pc = "linked" /\ wallet'[v].claim # NoClaim =>
            wallet'[v].claim \in Live' /\ claims'[wallet'[v].claim].holder_did = v
      BY <1>a, <3>2, <3>3, <3>4 DEF HoldersConsistent
    <3>8. QED
      BY <1>a, <3>3, <3>4, <3>5, <3>6, <3>7 DEF HoldersConsistent
  <2>5. QED
    BY <2>2, <2>3, <2>4
<1>5. ASSUME NEW w \in Wallets, issue_sd_jwt_vc(w)
      PROVE  HoldersConsistent'
  <2> DEFINE d == wallet[w].claim
  <2>1. UNCHANGED <<claims, forgotten, offers>> /\ tokens' \subseteq tokens /\ Live' = Live
    BY <1>5 DEF issue_sd_jwt_vc, Live
  <2>2. \A v \in Wallets : wallet'[v].pc = "linked" => wallet'[v] = wallet[v]
    BY <1>5, <1>a DEF issue_sd_jwt_vc, Finished, WalletState
  <2>3. CASE vcs' = vcs
    BY <1>a, <1>d, <2>1, <2>2, <2>3 DEF HoldersConsistent
  <2>4. CASE vcs' = vcs \cup {PurchaseViewerVC(w, d)}
    <3>1. \A t \in tokens' : t.claim # NoClaim => TokenConsistent(t)'
      BY <1>a, <2>1 DEF HoldersConsistent, TokenConsistent
    <3>2. ASSUME NEW v \in OfPurchase'
          PROVE  CredentialConsistent(v)'
      <4>1. CASE v \in OfPurchase
        BY <1>a, <2>1, <4>1 DEF HoldersConsistent, CredentialConsistent
      <4>2. CASE v \notin OfPurchase
        <5>1. v = PurchaseViewerVC(w, d) /\ d # NoClaim
          BY <2>4, <4>2 DEF OfPurchase, PurchaseViewerVC
        <5>2. /\ v.claim = d /\ v.tx = claims[d].tx /\ v.merch = claims[d].merch /\ v.buyer = claims[d].buyer
              /\ v.dataset = claims[d].dataset /\ v.holder = w
          BY <5>1 DEF PurchaseViewerVC, find_marketplace_claim_by_code
        <5>3. d \in Live /\ claims[d].holder_did = w
          BY <1>5, <1>a, <5>1 DEF issue_sd_jwt_vc, HoldersConsistent
        <5>4. QED
          BY <2>1, <5>2, <5>3, Lengths DEF CredentialConsistent
      <4>3. QED
        BY <4>1, <4>2
    <3>3. QED
      BY <1>a, <2>1, <2>2, <3>1, <3>2 DEF HoldersConsistent
  <2>5. QED
    BY <1>5, <2>3, <2>4 DEF issue_sd_jwt_vc
<1>6. CASE publisher_restarts
  <2>1. Live' = {} /\ tokens' = {} /\ offers' = [c \in Claims |-> "none"] /\ UNCHANGED <<claims, vcs>>
    BY <1>6, Lengths DEF publisher_restarts, Live
  <2>2. \A w \in Wallets : wallet'[w].pc # "linked"
    BY <1>6, <1>a DEF publisher_restarts, HangsUp, WalletState
  <2>3. OfPurchase' = OfPurchase /\ \A v \in OfPurchase : CredentialConsistent(v)'
    BY <1>a, <2>1 DEF OfPurchase, HoldersConsistent, CredentialConsistent
  <2>4. QED
    BY <2>1, <2>2, <2>3 DEF HoldersConsistent
<1>7. ASSUME UNCHANGED <<claims, forgotten, offers, vcs>>, tokens' \subseteq tokens,
             \A w \in Wallets : wallet'[w].pc = "linked" => wallet'[w] = wallet[w]
      PROVE  HoldersConsistent'
  BY <1>7, <1>a, <1>d DEF HoldersConsistent
<1>8. ASSUME NEW w \in Wallets, scan(w) \/ issuer_offer_fallback(w) \/ \E t \in Txs : issuer_offer(w, t)
      PROVE  HoldersConsistent'
  <2>1. PICK c : Scans(w, c)
    BY <1>8 DEF scan, issuer_offer, issuer_offer_fallback
  <2>2. \A v \in Wallets : wallet'[v].pc = "linked" => wallet'[v] = wallet[v]
    BY <1>a, <2>1 DEF Scans, WalletState
  <2>3. QED
    BY <1>7, <2>1, <2>2 DEF Scans, publisherVars
<1>9. ASSUME NEW t \in tokens, token_expires(t)
      PROVE  HoldersConsistent'
  BY <1>7, <1>9 DEF token_expires
<1>10. ASSUME UNCHANGED <<claims, forgotten, offers, tokens, vcs, wallet>>
       PROVE  HoldersConsistent'
  BY <1>7, <1>10
<1>11. QED
  BY <1>1, <1>2, <1>3, <1>4, <1>5, <1>6, <1>8, <1>9, <1>10
  DEF Next, BridgeStep, HandlerStep, WalletStep, vars, publisherVars, registerMerchandise, purchase, getMerchandises,
      getBlockNumber, getLogs, skip, bridgeClaim, tickEnds, postClaim, otherClaim, reject,
      replay_marketplace_claim, audit_claim, answer, refuse, offer_expires, bridge_restarts

\* Inv is an invariant of every behaviour.
LEMMA Invariance == Spec => []Inv
<1>1. Inv /\ [Next]_vars => Inv'
  BY TypeStep, BridgeStepInv, HandlersStepInv, ClaimsStepInv, HoldersStepInv DEF Inv
<1>2. QED
  BY InitInv, <1>1, PTL DEF Spec
-----------------------------------------------------------------------------
\* Every variable keeps its type, for any contracts, buyers, wallets and bounds.
THEOREM TypeCorrect == Spec => []TypeOK
<1>1. Inv => TypeOK
  BY DEF Inv
<1>2. QED
  BY Invariance, <1>1, PTL

\* However the claims of bridge and pages race, are repeated or lost, the publisher keeps one
\* claim for a transaction, notes its receipt at most once, and ready pages show their own.
THEOREM OneClaimPerTransaction == Spec => []ClaimsIdempotent
<1>1. Inv => ClaimsIdempotent
  BY DEF Inv, ClaimsConsistent, HandlersConsistent, ClaimsIdempotent
<1>2. QED
  BY Invariance, <1>1, PTL

\* A credential made from a claim repeats what the first caller of the claim said, for whatever
\* bodies other clients post, and is true of the chain where that caller was bridge or page.
THEOREM CredentialsTellPurchases == Spec => []VCsMatchPurchases
<1>1. Inv => VCsMatchPurchases
  BY DEF Inv, ClaimsConsistent, HoldersConsistent, CredentialConsistent, VCsMatchPurchases
<1>2. QED
  BY Invariance, <1>1, PTL

\* A claim gives credentials to one wallet, the holder its status reports.
THEOREM OneHolderPerClaim == Spec => []OneWalletPerClaim
<1>1. Inv => OneWalletPerClaim
  BY DEF Inv, HoldersConsistent, CredentialConsistent, OneWalletPerClaim
<1>2. QED
  BY Invariance, <1>1, PTL
-----------------------------------------------------------------------------
(***************************************************************************)
(* The dataset of a claim: where the ones on their way come from.          *)
(***************************************************************************)

\* At first there are none.
LEMMA DatasetInit == Init => DatasetInv
  BY DEF Init, DatasetInv, DatasetsOnTheWay, DatasetFromContract, ClaimsOf, Live

\* What is right stays right: failures are not taken back.
LEMMA FailuresCount ==
  ASSUME Inv, [Next]_vars
  PROVE  \A m, d : RightDataset(m, d, faults.failure) => RightDataset(m, d, faults'.failure)
<1>a. faults \in FaultCounts
  BY DEF Inv, TypeOK
<1>1. OneFault
  BY EveryFault
<1>2. faults.failure > 0 => faults'.failure > 0
  <2>1. faults.failure \in Nat /\ DOMAIN faults = {"failure", "restart", "other"}
    BY <1>a, ClaimsRange DEF FaultCounts
  <2>2. CASE Fails
    BY <2>1, <2>2 DEF Fails
  <2>3. CASE Restarts
    BY <2>1, <2>3 DEF Restarts
  <2>4. QED
    BY <1>1, <2>1, <2>2, <2>3 DEF OneFault
<1>3. QED
  BY <1>2 DEF RightDataset

\* A dataset on its way comes from the contract, or from a failed read.
LEMMA OnTheWayStep == Inv /\ DatasetInv /\ [Next]_vars => DatasetsOnTheWay'
<1> SUFFICES ASSUME Inv, DatasetInv, [Next]_vars
             PROVE  DatasetsOnTheWay'
  OBVIOUS
<1>a. bridge \in BridgeState /\ requests \subseteq ClaimRequest /\ DatasetsOnTheWay
  BY DEF Inv, TypeOK, DatasetInv
<1>1. ASSUME \A m \in Merchs : bridge'.datasetCache[m] \in {NoDataset, bridge.datasetCache[m]},
             \A s \in requests' : \/ s \in requests
                                  \/ \E r \in requests : s.from = r.from /\ s.merch = r.merch /\ s.dataset = r.dataset
      PROVE  DatasetsOnTheWay'
  <2>1. \A m \in Merchs : bridge'.datasetCache[m] # NoDataset => RightDataset(m, bridge'.datasetCache[m], faults'.failure)
    BY <1>1, <1>a, FailuresCount DEF DatasetsOnTheWay
  <2>2. \A s \in requests' : RequestRight(s, faults'.failure)
    BY <1>1, <1>a, FailuresCount DEF DatasetsOnTheWay, RequestRight
  <2>3. QED
    BY <2>1, <2>2 DEF DatasetsOnTheWay
<1>2. ASSUME NEW r \in requests, NEW pc, NEW c, Advance(r, pc, c), UNCHANGED bridge
      PROVE  DatasetsOnTheWay'
  <2>1. /\ [r EXCEPT !.pc = pc, !.claim = c].from = r.from
        /\ [r EXCEPT !.pc = pc, !.claim = c].merch = r.merch
        /\ [r EXCEPT !.pc = pc, !.claim = c].dataset = r.dataset
    BY <1>a DEF ClaimRequest
  <2>2. QED
    BY <1>1, <1>2, <2>1 DEF Advance
<1>3. ASSUME NEW m \in Merchs, NEW b \in Buyers, purchase(m, b)
      PROVE  DatasetsOnTheWay'
  BY <1>1, <1>3 DEF purchase, publisherVars
<1>4. CASE getMerchandises \/ getBlockNumber \/ getLogs \/ skip \/ tickEnds
  <2>1. bridge'.datasetCache = bridge.datasetCache
    BY <1>4, <1>a DEF getMerchandises, getBlockNumber, getLogs, skip, tickEnds, BridgeState
  <2>2. UNCHANGED requests
    BY <1>4 DEF getMerchandises, getBlockNumber, getLogs, skip, tickEnds, publisherVars
  <2>3. QED
    BY <1>1, <2>1, <2>2
<1>5. CASE bridgeClaim
  <2> DEFINE m == chain[bridge.next].merch
  <2>1. PICK d \in Datasets :
          /\ ReadsDataset(m, d)
          /\ bridge' = [bridge EXCEPT !.pc = "claiming", !.seenTx = @ \cup {bridge.next}, !.datasetCache[m] = d]
          /\ requests' = requests \cup {Request("bridge", bridge.next, chain[bridge.next], d)}
    BY <1>5 DEF bridgeClaim
  <2>2. m \in Merchs
    BY <1>5, <1>a DEF bridgeClaim, BridgeState
  <2>3. RightDataset(m, d, faults'.failure)
    <3>1. faults.failure \in Nat /\ DOMAIN faults = {"failure", "restart", "other"}
      BY DEF Inv, TypeOK, FaultCounts
    <3>2. CASE UNCHANGED faults
      BY <2>1, <2>2, <1>a, <3>1, <3>2 DEF ReadsDataset, RightDataset, Fails, DatasetsOnTheWay
    <3>3. CASE Fails /\ d = DatasetDefault
      <4>1. faults'.failure = faults.failure + 1
        BY <3>1, <3>3 DEF Fails
      <4>2. QED
        BY <3>1, <3>3, <4>1 DEF RightDataset
    <3>4. QED
      BY <2>1, <3>2, <3>3 DEF ReadsDataset
  <2>4. \A n \in Merchs : bridge'.datasetCache[n] = IF n = m THEN d ELSE bridge.datasetCache[n]
    BY <2>1, <2>2, <1>a DEF BridgeState
  <2>5. /\ Request("bridge", bridge.next, chain[bridge.next], d).merch = m
        /\ Request("bridge", bridge.next, chain[bridge.next], d).dataset = d
    BY DEF Request
  <2>6. \A n \in Merchs : bridge'.datasetCache[n] # NoDataset => RightDataset(n, bridge'.datasetCache[n], faults'.failure)
    BY <2>3, <2>4, <1>a, FailuresCount DEF DatasetsOnTheWay
  <2>7. \A s \in requests' : RequestRight(s, faults'.failure)
    BY <2>1, <2>2, <2>3, <2>5, <1>a, FailuresCount DEF DatasetsOnTheWay, RequestRight
  <2>8. QED
    BY <2>6, <2>7 DEF DatasetsOnTheWay
<1>6. ASSUME NEW t \in Txs, postClaim(t)
      PROVE  DatasetsOnTheWay'
  <2> DEFINE m == chain[t].merch
  <2> DEFINE q == Request("page", t, chain[t], PageDataset(m))
  <2>1. requests' = requests \cup {q} /\ UNCHANGED bridge
    BY <1>6 DEF postClaim
  <2>2. q.merch = m /\ q.dataset = PageDataset(m)
    BY DEF Request
  <2>3. RequestRight(q, faults'.failure)
    BY <2>2 DEF RequestRight, RightDataset, PageDataset, KnownDataset
  <2> HIDE DEF q
  <2>4. \A s \in requests' : RequestRight(s, faults'.failure)
    BY <2>1, <2>2, <2>3, <1>a, FailuresCount DEF DatasetsOnTheWay, RequestRight
  <2>5. QED
    BY <1>a, <2>1, <2>4, FailuresCount DEF DatasetsOnTheWay
<1>6a. ASSUME NEW body \in OtherBodies, otherClaim(body)
       PROVE  DatasetsOnTheWay'
  <2> DEFINE q == Request("other", body.tx, body.purchase, body.dataset)
  <2>1. requests' = requests \cup {q} /\ UNCHANGED bridge
    BY <1>6a DEF otherClaim
  <2>2. q.from = "other"
    BY DEF Request
  <2>3. RequestRight(q, faults'.failure)
    BY <2>2 DEF RequestRight
  <2> HIDE DEF q
  <2>4. QED
    BY <1>a, <2>1, <2>3, FailuresCount DEF DatasetsOnTheWay, RequestRight
<1>7. ASSUME NEW r \in requests,
             reject(r) \/ replay_marketplace_claim(r) \/ create_marketplace_claim(r) \/ stash_offer(r) \/ audit_claim(r)
      PROVE  DatasetsOnTheWay'
  BY <1>2, <1>7 DEF reject, replay_marketplace_claim, create_marketplace_claim, stash_offer, audit_claim
<1>8. ASSUME bridge' = bridge \/ bridge' = [bridge EXCEPT !.pc = "logs", !.next = @ + 1]
      PROVE  bridge'.datasetCache = bridge.datasetCache
  BY <1>8, <1>a DEF BridgeState
<1>9. ASSUME NEW r \in requests, answer(r) \/ refuse(r)
      PROVE  DatasetsOnTheWay'
  <2>1. bridge'.datasetCache = bridge.datasetCache
    BY <1>8, <1>9 DEF answer, refuse, CallerGoesOn, BridgeGoesOn, OtherGoesOn
  <2>2. QED
    BY <1>1, <1>9, <2>1 DEF answer, refuse
<1>10. CASE bridge_restarts
  BY <1>1, <1>10 DEF bridge_restarts, publisherVars
<1>11. CASE publisher_restarts
  <2>1. bridge'.datasetCache = bridge.datasetCache
    BY <1>8, <1>11 DEF publisher_restarts, HangsUp
  <2>2. QED
    BY <1>1, <1>11, <2>1 DEF publisher_restarts
<1>12. ASSUME UNCHANGED <<bridge, requests>>
       PROVE  DatasetsOnTheWay'
  BY <1>1, <1>12
<1>13. QED
  BY <1>3, <1>4, <1>5, <1>6, <1>6a, <1>7, <1>9, <1>10, <1>11, <1>12
  DEF Next, BridgeStep, HandlerStep, WalletStep, vars, publisherVars, registerMerchandise, issuer_token,
      issuer_credential, issue_sd_jwt_vc, scan, Scans,
      issuer_offer, issuer_offer_fallback, otherClaim, offer_expires, token_expires

\* And so does the one a claim ends up with, and the one of the newest claim is served.
LEMMA FromContractStep == Inv /\ DatasetInv /\ [Next]_vars => DatasetFromContract'
<1> SUFFICES ASSUME Inv, DatasetInv, [Next]_vars
             PROVE  DatasetFromContract'
  OBVIOUS
<1>a. /\ \A c \in DOMAIN claims : ClaimRight(claims[c], faults.failure)
      /\ \A m \in Merchs :
           IF ClaimsOf(m) = {} THEN merchandise_dataset[m] = NoDataset
           ELSE \E c \in ClaimsOf(m) : /\ \A d \in ClaimsOf(m) : d <= c
                                       /\ merchandise_dataset[m] = claims[c].dataset
  BY DEF DatasetInv, DatasetFromContract, RightDataset, ClaimRight
<1>b. /\ \A c \in DOMAIN claims : ClaimRight(claims[c], faults'.failure)
      /\ merchandise_dataset \in [Merchs -> Datasets \cup {NoDataset}]
  BY <1>a, FailuresCount DEF Inv, TypeOK, ClaimRight
<1>1. ASSUME NEW r \in requests, create_marketplace_claim(r)
      PROVE  DatasetFromContract'
  <2> DEFINE n == Len(claims) + 1
  <2>1. /\ n \notin DOMAIN claims /\ DOMAIN claims' = DOMAIN claims \cup {n} /\ Live' = Live \cup {n}
        /\ \A c \in DOMAIN claims : claims'[c] = claims[c]
        /\ claims'[n] = [tx |-> r.tx, merch |-> r.merch, buyer |-> r.buyer,
                         dataset |-> r.dataset, holder_did |-> NoWallet, from |-> r.from]
    BY <1>1, ClaimAdded
  <2>2. /\ claims'[n].merch = r.merch /\ claims'[n].dataset = r.dataset /\ claims'[n].from = r.from
        /\ n \in Nat /\ \A c \in DOMAIN claims : c <= n
    BY <2>1, Lengths
  <2>3. merchandise_dataset' = [merchandise_dataset EXCEPT ![r.merch] = r.dataset] /\ r.dataset # Empty
    BY <1>1 DEF create_marketplace_claim, MissingField
  <2>4. ClaimRight(claims'[n], faults'.failure)
    BY <2>2, <2>3, FailuresCount DEF DatasetInv, DatasetsOnTheWay, RequestRight, ClaimRight
  <2>5. r.merch \in Merchs
    BY DEF Inv, TypeOK, ClaimRequest
  <2> HIDE DEF n
  <2>6. \A c \in DOMAIN claims' : ClaimRight(claims'[c], faults'.failure)
    BY <1>b, <2>1, <2>2, <2>4
  <2>7. \A m \in Merchs : ClaimsOf(m)' = IF m = r.merch THEN ClaimsOf(m) \cup {n} ELSE ClaimsOf(m)
    BY <2>1, <2>2, Lengths DEF ClaimsOf
  <2>8. ASSUME NEW m \in Merchs
        PROVE  IF ClaimsOf(m)' = {} THEN merchandise_dataset'[m] = NoDataset
               ELSE \E c \in ClaimsOf(m)' : /\ \A d \in ClaimsOf(m)' : d <= c
                                            /\ merchandise_dataset'[m] = claims'[c].dataset
    <3>1. CASE m = r.merch
      <4>1. n \in ClaimsOf(m)' /\ \A d \in ClaimsOf(m)' : d <= n
        BY <2>1, <2>2, <2>7, <3>1, Lengths DEF ClaimsOf
      <4>2. merchandise_dataset'[m] = claims'[n].dataset
        BY <1>b, <2>2, <2>3, <2>5, <3>1
      <4>3. QED
        BY <4>1, <4>2
    <3>2. CASE m # r.merch
      <4>1. ClaimsOf(m)' = ClaimsOf(m) /\ merchandise_dataset'[m] = merchandise_dataset[m]
        BY <1>b, <2>3, <2>7, <3>2
      <4>2. \A c \in ClaimsOf(m) : claims'[c] = claims[c]
        BY <2>1, Lengths DEF ClaimsOf
      <4>3. QED
        BY <1>a, <4>1, <4>2
    <3>3. QED
      BY <3>1, <3>2
  <2>9. QED
    BY <2>6, <2>8 DEF DatasetFromContract, RightDataset, ClaimRight
<1>2. ASSUME DOMAIN claims' = DOMAIN claims, Live' = Live, merchandise_dataset' = merchandise_dataset,
             \A c \in DOMAIN claims : SamePurchase(c)
      PROVE  DatasetFromContract'
  <2>1. \A m \in Merchs : ClaimsOf(m)' = ClaimsOf(m) /\ ClaimsOf(m) \subseteq DOMAIN claims
    BY <1>2, Lengths DEF ClaimsOf, SamePurchase
  <2>2. \A c \in DOMAIN claims' : ClaimRight(claims'[c], faults'.failure)
    BY <1>2, <1>b DEF ClaimRight, SamePurchase
  <2>3. ASSUME NEW m \in Merchs
        PROVE  IF ClaimsOf(m)' = {} THEN merchandise_dataset'[m] = NoDataset
               ELSE \E c \in ClaimsOf(m)' : /\ \A d \in ClaimsOf(m)' : d <= c
                                            /\ merchandise_dataset'[m] = claims'[c].dataset
    BY <1>2, <1>a, <2>1 DEF SamePurchase
  <2>4. QED
    BY <2>2, <2>3 DEF DatasetFromContract, RightDataset, ClaimRight
<1>3. ASSUME NEW w \in Wallets, issuer_credential(w)
      PROVE  DatasetFromContract'
  BY <1>2, <1>3, PurchaseKept DEF issuer_credential
<1>4. CASE publisher_restarts
  <2>1. Live' = {} /\ claims' = claims /\ merchandise_dataset' = [m \in Merchs |-> NoDataset]
    BY <1>4, Lengths DEF publisher_restarts, Live
  <2>2. \A m \in Merchs : ClaimsOf(m)' = {}
    BY <2>1 DEF ClaimsOf
  <2>3. QED
    BY <1>b, <2>1, <2>2 DEF DatasetFromContract, RightDataset, ClaimRight
<1>5. ASSUME UNCHANGED <<claims, forgotten, merchandise_dataset>>
      PROVE  DatasetFromContract'
  BY <1>2, <1>5 DEF Live, SamePurchase
<1>6. QED
  BY <1>1, <1>3, <1>4, <1>5
  DEF Next, BridgeStep, HandlerStep, WalletStep, vars, publisherVars, registerMerchandise, purchase, getMerchandises,
      getBlockNumber, getLogs, skip, bridgeClaim, tickEnds, postClaim, otherClaim, reject, replay_marketplace_claim,
      stash_offer, audit_claim, answer, refuse, issuer_token, issue_sd_jwt_vc, scan, Scans, issuer_offer,
      issuer_offer_fallback, offer_expires,
      token_expires, bridge_restarts

\* A claim carries its contract's dataset, or the default after a failed read, and the map of
\* /platform/data follows the newest claim of each contract and forgets with the claims.
THEOREM DatasetsFromContracts == Spec => []DatasetFromContract
<1>1. Inv /\ DatasetInv /\ [Next]_vars => DatasetInv'
  BY OnTheWayStep, FromContractStep DEF DatasetInv
<1>2. DatasetInv => DatasetFromContract
  BY DEF DatasetInv
<1>3. QED
  BY DatasetInit, Invariance, <1>1, <1>2, PTL DEF Spec
-----------------------------------------------------------------------------
(***************************************************************************)
(* The refinement: claims are grants, publisher_restarts forgets them.     *)
(***************************************************************************)

\* The grants and credentials of Entitlements, as PurchaseDelivery has them.
Grants == [c \in DOMAIN claims |-> [purchase |-> claims[c].tx, holder |-> claims[c].holder_did]]
Credentials == {[grant |-> v.claim, purchase |-> v.tx, holder |-> v.holder] : v \in OfPurchase}

\* A function on the first n numbers is a sequence of length n.
LEMMA FunctionIsSeq ==
  ASSUME NEW S, NEW n \in Nat, NEW f \in [1..n -> S]
  PROVE  f \in Seq(S) /\ Len(f) = n
  OBVIOUS

\* The grants are a sequence, as long as the claims.
LEMMA GrantsSeq ==
  ASSUME Inv
  PROVE  /\ Grants \in Seq([purchase: Txs, holder: Wallets \cup {NoWallet}])
         /\ Len(Grants) = Len(claims) /\ DOMAIN Grants = DOMAIN claims
         /\ Entitlement!Valid = Live
<1>1. \A c \in DOMAIN claims : [purchase |-> claims[c].tx, holder |-> claims[c].holder_did]
                                 \in [purchase: Txs, holder: Wallets \cup {NoWallet}]
  BY Lengths DEF MarketplaceClaim
<1>2. Grants \in [1..Len(claims) -> [purchase: Txs, holder: Wallets \cup {NoWallet}]]
  BY <1>1, Lengths DEF Grants
<1>3. Grants \in Seq([purchase: Txs, holder: Wallets \cup {NoWallet}]) /\ Len(Grants) = Len(claims)
  BY <1>2, Lengths, FunctionIsSeq
<1>4. QED
  BY <1>2, <1>3, Lengths DEF Entitlement!Valid, Live, Grants

\* At first nothing has been granted.
LEMMA RefinesInit == Init => Entitlement!Init
<1> SUFFICES ASSUME Init
             PROVE  Entitlement!Init
  OBVIOUS
<1>1. Grants = <<>>
  <2>1. claims = <<>>
    BY DEF Init
  <2>2. Inv /\ Len(claims) = 0
    BY <2>1, InitInv
  <2>3. QED
    BY <2>2, GrantsSeq, EmptySeq
<1>2. Credentials = {}
  BY DEF Init, Credentials, OfPurchase
<1>3. QED
  BY <1>1, <1>2 DEF Init, Entitlement!Init, Grants, Credentials

\* Every step is one of Entitlements, or changes nothing it knows of.
LEMMA RefinesStep == Inv /\ Inv' /\ [Next]_vars => [Entitlement!Next]_<<Grants, forgotten, Credentials>>
<1> SUFFICES ASSUME Inv, Inv', [Next]_vars
             PROVE  [Entitlement!Next]_<<Grants, forgotten, Credentials>>
  OBVIOUS
<1>1. ASSUME NEW r \in requests, create_marketplace_claim(r)
      PROVE  Entitlement!Next
  <2> DEFINE n == Len(claims) + 1
  <2> DEFINE g == [purchase |-> r.tx, holder |-> NoWallet]
  <2>1. /\ n \notin DOMAIN claims /\ DOMAIN claims' = DOMAIN claims \cup {n}
        /\ \A c \in DOMAIN claims : claims'[c] = claims[c]
        /\ claims'[n] = [tx |-> r.tx, merch |-> r.merch, buyer |-> r.buyer,
                         dataset |-> r.dataset, holder_did |-> NoWallet, from |-> r.from]
    BY <1>1, ClaimAdded
  <2>2. claims'[n].tx = r.tx /\ claims'[n].holder_did = NoWallet
    BY <2>1
  <2>3. r.tx \in Txs /\ \A c \in Live : claims[c].tx # r.tx
    BY <1>1 DEF create_marketplace_claim, ClaimsByTx, Inv, TypeOK, ClaimRequest
  <2>4. UNCHANGED <<forgotten, vcs>>
    BY <1>1 DEF create_marketplace_claim
  <2>5. Grants' = Append(Grants, g)
    <3>1. /\ Append(Grants, g) = [c \in 1..(Len(Grants) + 1) |-> IF c <= Len(Grants) THEN Grants[c] ELSE g]
      BY GrantsSeq, Lengths
    <3>2. DOMAIN claims' = 1..n /\ n = Len(Grants) + 1
      BY <2>1, GrantsSeq, Lengths
    <3>3. \A c \in 1..n : [purchase |-> claims'[c].tx, holder |-> claims'[c].holder_did]
                            = IF c <= Len(Grants) THEN Grants[c] ELSE g
      BY <2>1, <2>2, GrantsSeq, Lengths DEF Grants
    <3>4. Grants' = [c \in 1..n |-> [purchase |-> claims'[c].tx, holder |-> claims'[c].holder_did]]
      BY <3>2 DEF Grants
    <3> HIDE DEF n, g
    <3>5. QED
      BY <3>1, <3>2, <3>3, <3>4
  <2>6. \A c \in Entitlement!Valid : Grants[c].purchase # r.tx
    BY <2>3, GrantsSeq, Lengths DEF Grants
  <2>7. Entitlement!Grant(r.tx)
    BY <2>4, <2>5, <2>6 DEF Entitlement!Grant, Grants, OfPurchase
  <2>8. QED
    BY <2>3, <2>7 DEF Entitlement!Next
<1>2. ASSUME NEW w \in Wallets, issuer_credential(w), wallet[w].claim # NoClaim,
             [wallet |-> w, claim |-> wallet[w].claim] \in tokens
      PROVE  Entitlement!Next
  <2> DEFINE d == wallet[w].claim
  <2>1. /\ d \in Live /\ claims[d].holder_did \in {NoWallet, w}
        /\ DOMAIN claims' = DOMAIN claims /\ claims'[d].holder_did = w
        /\ \A c \in DOMAIN claims \ {d} : claims'[c] = claims[c]
        /\ \A c \in DOMAIN claims : claims'[c].tx = claims[c].tx
    BY <1>2, HolderAttached DEF SamePurchase
  <2>2. UNCHANGED <<forgotten, vcs>>
    BY <1>2 DEF issuer_credential
  <2> HIDE DEF d
  <2>7. Grants[d].purchase = claims[d].tx /\ Grants[d].holder = claims[d].holder_did
    BY <2>1, Lengths DEF Grants
  <2>8. Grants' = [Grants EXCEPT ![d].holder = w]
    <3>1. Grants[d] = [purchase |-> claims[d].tx, holder |-> claims[d].holder_did]
      BY <2>1, Lengths DEF Grants
    <3>2. [Grants[d] EXCEPT !.holder = w] = [purchase |-> claims[d].tx, holder |-> w]
      BY <3>1
    <3>3. \A c \in DOMAIN claims : Grants'[c] = IF c = d THEN [purchase |-> claims[d].tx, holder |-> w] ELSE Grants[c]
      BY <2>1, Lengths DEF Grants
    <3>4. DOMAIN Grants = DOMAIN claims /\ DOMAIN Grants' = DOMAIN claims
          /\ Grants' = [c \in DOMAIN claims |-> Grants'[c]]
      BY <2>1 DEF Grants
    <3>5. [Grants EXCEPT ![d].holder = w] =
            [c \in DOMAIN claims |-> IF c = d THEN [Grants[d] EXCEPT !.holder = w] ELSE Grants[c]]
      BY <3>4
    <3>6. QED
      BY <3>2, <3>3, <3>4, <3>5
  <2>9. Credentials' = Credentials
    BY <2>2 DEF Credentials, OfPurchase
  <2>10. Entitlement!Redeem(d, w)
    BY <2>1, <2>2, <2>7, <2>8, <2>9 DEF Entitlement!Redeem, Grants, Credentials
  <2>11. d \in Entitlement!Valid
    BY <2>1, GrantsSeq
  <2>12. QED
    BY <2>10, <2>11 DEF Entitlement!Next
<1>2a. ASSUME NEW w \in Wallets, issue_sd_jwt_vc(w), wallet[w].claim # NoClaim,
              vcs' = vcs \cup {PurchaseViewerVC(w, wallet[w].claim)}
       PROVE  Entitlement!Next
  <2> DEFINE d == wallet[w].claim
  <2> DEFINE v == PurchaseViewerVC(w, d)
  <2>1. UNCHANGED <<claims, forgotten>>
    BY <1>2a DEF issue_sd_jwt_vc
  <2>2. d \in Live /\ claims[d].holder_did = w /\ w # NoWallet
    BY <1>2a, DeliveryAssumption DEF DeliveryAssumption, issue_sd_jwt_vc, Inv, HoldersConsistent
  <2>3. v.claim = d /\ v.tx = claims[d].tx /\ v.holder = w
    BY <1>2a DEF PurchaseViewerVC, find_marketplace_claim_by_code
  <2>4. OfPurchase' = OfPurchase \cup {v}
    BY <1>2a, <2>3 DEF OfPurchase
  <2> HIDE DEF d, v
  <2>5. Grants[d].purchase = claims[d].tx /\ Grants[d].holder = w
    BY <2>2, Lengths DEF Grants
  <2>6. Credentials' = Credentials \cup {[grant |-> d, purchase |-> Grants[d].purchase, holder |-> Grants[d].holder]}
    BY <2>3, <2>4, <2>5 DEF Credentials
  <2>7. Entitlement!Give(d)
    BY <2>1, <2>2, <2>5, <2>6 DEF Entitlement!Give, Grants, Credentials
  <2>8. d \in Entitlement!Valid
    BY <2>2, GrantsSeq
  <2>9. \E g \in Entitlement!Valid : Entitlement!Give(g)
    BY <2>7, <2>8 DEF Entitlement!Give
  <2>10. QED
    BY <2>9 DEF Entitlement!Next
<1>3. CASE publisher_restarts
  <2>1. forgotten' = Len(claims) /\ UNCHANGED <<claims, vcs>>
    BY <1>3 DEF publisher_restarts
  <2>2. Entitlement!Forget
    BY <2>1, GrantsSeq DEF Entitlement!Forget, Grants, OfPurchase
  <2>3. QED
    BY <2>2 DEF Entitlement!Next
<1>4. ASSUME UNCHANGED <<claims, forgotten, OfPurchase>>
      PROVE  UNCHANGED <<Grants, forgotten, Credentials>>
  BY <1>4 DEF Grants, Credentials
<1>5. ASSUME NEW w \in Wallets, issuer_credential(w) \/ issue_sd_jwt_vc(w)
      PROVE  [Entitlement!Next]_<<Grants, forgotten, Credentials>>
  <2>1. CASE wallet[w].claim = NoClaim
    <3>1. UNCHANGED <<claims, forgotten>>
      BY <1>5, <2>1 DEF issuer_credential, issue_sd_jwt_vc
    <3>2. OfPurchase' = OfPurchase
      BY <1>5, <2>1 DEF issuer_credential, issue_sd_jwt_vc, PurchaseViewerVC, OfPurchase
    <3>3. QED
      BY <1>4, <3>1, <3>2
  <2>2. CASE wallet[w].claim # NoClaim
    BY <1>2, <1>2a, <1>4, <1>5, <2>2 DEF issuer_credential, issue_sd_jwt_vc, OfPurchase
  <2>3. QED
    BY <2>1, <2>2
<1>5a. ASSUME UNCHANGED <<claims, forgotten, vcs>>
      PROVE  UNCHANGED <<Grants, forgotten, Credentials>>
  BY <1>4, <1>5a DEF OfPurchase
<1>6. QED
  BY <1>1, <1>3, <1>5, <1>5a
  DEF Next, BridgeStep, HandlerStep, WalletStep, vars, publisherVars, registerMerchandise, purchase, getMerchandises,
      getBlockNumber, getLogs, skip, bridgeClaim, tickEnds, postClaim, otherClaim, reject, replay_marketplace_claim,
      stash_offer, audit_claim, answer, refuse, issuer_token, scan, Scans, issuer_offer, issuer_offer_fallback,
      offer_expires, token_expires, bridge_restarts

\* Bridge, pages, handlers and wallets together do what Entitlements allows, and nothing else.
THEOREM DeliveryImplementsEntitlements == Spec => ImplementsEntitlements
<1>1. [Entitlement!Next]_<<Grants, forgotten, Credentials>> => [Entitlement!Next]_(Entitlement!entitlementVars)
  BY DEF Entitlement!entitlementVars, Grants, Credentials
<1>2. QED
  BY RefinesInit, RefinesStep, Invariance, <1>1, PTL DEF Spec, ImplementsEntitlements, Entitlement!Spec
=============================================================================
