# A TLA+ model of the blockchain IoT marketplace

The repository is a data marketplace. Providers sell files and event streams
of IoT devices through Ethereum contracts; *mediators* carry the data from
provider to buyer; beside them a *publisher* (FastAPI) issues verifiable
credentials (VCs) for purchases and lets their holders read data. This
directory models the parts that carry the marketplace's own logic, checks them
with TLC and proves some of the results with TLAPS. `PROJECT.json` lists
components, runs, mutants, theorems and, for every definition, the source lines
it stands for.

## 1. Inventory

Behaviours marked (!) are hard to test and are what the properties are about.

| Component | State | Operations | Talks to |
| --- | --- | --- | --- |
| Contracts `iot-market/contracts` | per contract: state, trial counter, buyer in progress, confirmed buyers, balance; `PubKey`: key per account; `IoTMarket`: list | `purchase`, `verify`, `withdraw`, `emitUpload`, `registerKey`, `registerMerchandise` | emits `Purchase`, `Upload`, `Verify` logs |
| Storage `simple-storage` | files on disk by name; map uuid -> path in memory | upload, download | both mediators (HTTP) |
| `mediator-owner` | RSA key, `deployed_files`, event filter, one task per log, watcher | deploy, register, post file, emit, withdraw | contracts, storage |
| `mediator-buyer` | RSA key, download directory, one task per log | download, save, read back, verify | contracts, storage |
| Marketplace UI `iot-market-ui` | page status, local purchase history | purchase, post a claim, register goods | contracts (wallet), publisher |
| `bridge` | watched contracts, cursor, seen transactions, dataset cache | poll, claim | chain, publisher |
| Publisher, claims (`main.py`, `ssi/state.py`) | claims by id and by transaction, contract -> dataset | claim, register, read data | bridge, UI, chain |
| Publisher, issuer (`ssi/issuer_routes.py`) | offers, access tokens, nonces | offer, token, credential | wallet |
| Publisher, verifier and tokens (`ssi/verifier_routes.py`, `ssi/state.py`) | requests with their results; policy, viewer, service and seller tokens with expiry and uses | request, response, status, redirect | wallet, PEX sidecar, pages |
| Publisher, ingest and data (`main.py`) | stored rows, contract -> seller, audit table | ingest, read by dataset or contract, register | token stores, platform |
| Publisher, pipeline (`pipeline.py`, `policy/`) | consents (memory and file), audit table | normalise, decide, derive, deliver, audit | MQTT, VLM, redactor, platform |
| Trust score (`ssi/trust_score.py`, `DataUserVerifier.sol`, circom) | none | score, access level, views | claims, data projection |
| Provider and viewer pages (`provider_routes.py`, `viewer_routes.py`) | in the browser: last upload, last source blob, rows shown | upload, record, analyse, preview, publish, load | media gateway, semantic endpoints, `/platform/data` |
| Media gateway, semantic analysis (`media_routes.py`, `semantic_*.py`, `trust_policy.py`) | stored files | store, serve, analyse, evaluate, render | pages, IPFS |
| Sensor and webcam bridges | batch of detections; tracks | read a line or a frame, write a product or an event | owner's mediator (directory) |
| Assistant, assistant UI, metadata generator, examples | none to speak of | plan, render, generate | publisher |

**Contracts.** Four fields that different functions write have to agree (!), for
any calls of any accounts; money must be accounted for although `withdraw`
sends the whole balance (!); everybody else sees only the log, so the log has to
tell the state and to keep sales apart (!). Correct means: one buyer at a time,
each buyer once, and a sale ends in delivery or in a ban.

**Mediators and storage.** Tasks of one mediator interleave with each other,
with the watcher and with the other mediators (!); the contract is on the market
before `deployed_files` knows its file (!); keys, the file map and the event
filter are lost in a crash (!), the uuid map of the storage too (!); altered
bytes are repaired by a retry, up to a limit (!); a withdrawal that fails is
printed and forgotten, and a poll that fails ends the event loop (!). Correct
means: a purchase has one task working on it, transactions do not revert,
purchases end, buyers have the file that was sold, owners get their money.

**Bridge, page, publisher, wallet.** Bridge and page race to post the same
purchase (!); a claim lives for ever and its offer ten minutes (!); the claim is
created under a lock and its offer is stored after it (!); a failed claim is
only logged (!); the chain grows during a tick (!); the claim's body comes from
anybody and is checked against nothing (!); tokens are reusable, codes are not
(!); the holder is set before a record that may fail (!); all of it is forgotten
in a restart (!). Correct means: one claim per purchase, which later bodies do
not change, credentials for one wallet, and nobody waits for ever.

**Verifier and tokens.** Handlers run on a pool of threads and share tokens and
requests under short locks: what one read it uses long after (!). One
presentation can be replayed for ten minutes, one token be presented by several
requests at once (!); a handler may die between the verdict and the token (!),
and the audit database may refuse a write at any step (!). Correct means: a token
grants what its credential grants, a policy token stores one row, writes are
audited, what a buyer reads stays within the tier bought, and a contract is bound
only to a licensed seller.

**Pipeline and consents.** Consents are added, replaced and revoked while
messages are processed (!); the consent file is rewritten in place (!); a delivery
that fails, and a crash, leave work half done (!). Correct means: what is
delivered was allowed by a consent in force, a confirmed revocation stays one, and
the audit log tells of every delivery.

**Trust score.** Python, Solidity and circom compute one score in three
arithmetics (unbounded, unsigned, field elements compared bit by bit) (!) and have
to give one access level.

**Pages and semantic analysis.** Uploads and analyses answer in any order and
share two variables of the page (!); any of fetch, analysis, evaluation, decoding
and audit may fail while a row is rendered (!). Correct means: what is published
and previewed is the picture on the screen, and a viewer does not see what the
analyzer found, although boxes are cut to pixels in doubles (!).

**The server as a whole.** Handlers on a worker call the same server back over
HTTP; with every worker waiting only timeouts get it on (!).

**Sensor and webcam bridges.** Files are named after the second they are written
in (!), and a line or a write that raises ends the process (!); tracks live a
limited time, and the camera stalls (!). Correct means: no detection is lost or
told twice, and litter is reported for reasons.

## 2. Modules

| Module | Models | Composition |
| --- | --- | --- |
| `Orders` | abstract specification of a sale: none, pending, delivered, forfeited | implemented by `Merchandise` |
| `Merchandise` | `PubKey.sol`, `IoTMarket.sol`, `Merchandise.sol`; one action per transaction, a revert is a disabled action | `Sale == INSTANCE Orders` with `status` computed from state, buyer and confirmed buyers |
| `SimpleStorage` | upload, download, restart, tampering | |
| `Mediators` | both mediators: start, event filter, watcher, tasks, crashes | instantiates `Merchandise` as `Chain`, `SimpleStorage` as `Storage` |
| `Entitlements` | abstract specification of what a purchase entitles to: one valid grant, one holder | implemented by `PurchaseDelivery` |
| `PurchaseDelivery` | bridge, post-purchase page, claim handler, issuer, wallet | the chain is reduced to the sequence of purchases; `Entitlement == INSTANCE Entitlements` with grants from the claims |
| `TrustScore` | the publisher's trust evaluation | extended by `AccessTokens`, `DataUsers` |
| `DataUsers` | contract and circuit of the same evaluation, credentials of a data user | extends `TrustScore` |
| `AccessTokens` | verification requests, tokens, ingest, data, registration | |
| `Pipeline` | MQTT and HTTP messages, consents, delivery, crash | |
| `Semantic` | analyzers, disclosure policy, mask plan, renderer (operators) | extended by `Pages` |
| `Pages` | provider's page and viewer's page with their endpoints | extends `Semantic` |
| `WorkerPool` | event loop, worker threads, requests of the server to itself | |
| `HuskylensBridge`, `WebcamBridge` | the two device bridges | |
| `MCPublisher` | instance of the modules from `DataUsers` to here, one part at a time | extends them all |
| other `MC*` | instances for TLC | |
| `MerchandiseProofs`, `PurchaseDeliveryProofs`, `PipelineProofs`, `PagesProofs`, `WorkerPoolProofs` | theorems about the module of that name | each extends it |
| `AccessTokensProofs` | theorems about `AccessTokens` and `DataUsers`, which judge by the same `TrustScore` | extends both |
| `BridgesProofs` | theorems about `HuskylensBridge` and `WebcamBridge` | extends both |
| `MediatorsProofs` | theorems about `Mediators`: tasks, keys, transactions, and what is delivered | extends it, instantiates `MerchandiseProofs` |

**Merchandise.** Variables are the contracts' storage; `log` is the event log.
`paid`, `settled` and `taken` are history variables: what buyers sent, what
confirmed sales are worth, what owners withdrew. Contracts are numbered, and a
contract is deployed when it has an owner. The list of additional information,
on which no transaction depends, is left out, as is gas; its `dataset_id` entry
is `DatasetInfo` of `PurchaseDelivery`.

**SimpleStorage.** One action per handler: the runtime is single-threaded and a
handler does not wait between file and map. Uuids are numbered in order.

**Mediators.** A process is `down`, `started` (watcher runs, no event filter
yet), `running`, or `deaf` when a poll failed and its event loop panicked while
tasks and watcher go on. `todo` and `watcher` are the watcher's files and program
counter, with a step between deployment, registration and `insert()`. A task is
a record in `tasks` with a program counter; each step is what happens between
two awaits: post the file, look up the key, emit, fetch, save, read back,
verify, query the state. A log and the spawning of its task are one step: the
loop polls, and a task spawned late is a task scheduled late. A log that nobody
with an event filter gets, and a task that panics, put the contract into the
history variable `abandoned`, or into `unpaid` where the log was a
`Verify(true)` or the task a withdrawal. `request_fails` lets any request of a
task fail: the errors of most end the task, that of `verify()` is ignored and the
state queried nevertheless, those of `withdraw` and of the query are printed. The
next withdrawal takes the whole balance and so clears `unpaid`. Keys are named by account and start, so a key of
an earlier life cannot decrypt. SHA-256 and RSA are perfect; file names contain
no `=` (the client splits the header at it); no account is both provider and
buyer; goods are bought through the UI, so after registration; Hardhat mines a
transaction before the call returns.

**PurchaseDelivery.** `bridge` is the listener's record of local variables; its
actions are the stretches between awaits (`getMerchandises`, `getBlockNumber`,
`getLogs`, one `bridgeClaim` or `skip` per log, `tickEnds`). `requests` are the
claim handlers in flight, with the steps create (under the lock), stash the
offer, write the audit record, answer. What a claim says is taken from the
request's body, not from the chain, as in `main.py:475-518`: bridge and page send
what they read there, `otherClaim` stands for any other client and sends any of
`OtherBodies`, also for a transaction that is not mined yet. `from` remembers who
made a claim. A claim's index stands for its id, its code and its token;
`forgotten` says how many belong to earlier publisher processes.
`issuer_offer_fallback` is the offer without a claim that the issuer makes for
anybody who asks without one (`NoClaim`). The credential request has two steps:
`issuer_credential` sets the claim's holder, and `issue_sd_jwt_vc` writes the audit
record, which may raise, and issues; a wallet without an answer asks again. A
token is kept in `tokens` while it holds and its wallet still uses it. `stale` and
`token_expires` stand for the ten minutes; an offer does not expire while a
handler works on its claim, and the age of a consumed offer is not kept because
nobody asks for it. A page is `idle` while it is not open or shows an error: what
it may do next is the same. Trust attributes in the claim, which choose a display
tier, are the subject of `AccessTokens` and `TrustScore`. A purchase here is a
`Purchase` log of any registered contract; what else constrains it is the subject
of `Merchandise`. `ImplementsEntitlements` maps claims to grants, a restart of the
publisher to forgetting them, the setting of the holder to `Redeem` and the
issuance to `Give`; offers, tokens and handlers are what the abstract
specification does without.

**AccessTokens.** `requests` are the verification requests, `store` the four
token stores in one, `claims` and `merchandise_seller` the marketplace state,
`ingested` the platform's rows, `page` the browser behind each request
(`polling`, `away` after a redirect to a mobile wallet, or how it ended).
`pending` holds the handlers between two touches of shared state:
`verifier_response` checks and leaves a handler in "verified",
`record_verification_result` leaves it in "recorded", `mint_token` creates the
token. Where the audit write in between raises, the handler ends there and no
token is minted. In the same way `platform_ingest` consumes the token and writes the audit record before
`append_row`, and `use_for_registration` counts the use before
`marketplace_register` has asked the chain for the owner. `Credentials` are those
the issuer's offers can produce: nobody forges one, and a presentation is taken to
disclose every claim of its credential, so that the claims which the check after
PEX lets be absent (`AllowedClaim`) are absent where the credential has none. The sidecar may refuse anything but
accepts only what the presentation definition describes; without it the local
fallback decides. Denials' own audit records are left out. No definition for
`DataUserVC` is on disk, so that branch of the handler is unreachable. `served` is
the history of keys a reader has got.

**TrustScore, DataUsers.** Attributes are records of the strings the tables
know, any other string is `"OTHER"`; what is checked, for all of them, is the
agreement of the three programs and that `dataUser` never gains by a worse one.
`verifyUserAccess` is the contract with its revert below zero;
`UserTrustScoreLevel` is the circuit, which compares seven-bit numbers from the
highest bit down.

**Pipeline.** A message becomes a handler with a program counter: `decide`,
`deny`, `describe`, `blur_pii`, `send`, each the stretch up to the next call out.
`consents` is the dict in its order, `file` the file or a file that does not
parse. `upsert` and `delete` change the memory,
then save, and the save may raise. `Injects` has three outcomes: what the VLM or
the redactor adds, a warning when it raises the error the pipeline catches, and
the end of the message, unaudited and undelivered, when it raises another one
(`Dies`). MQTT messages are processed one at a time by
the client's thread, requests side by side. `crash` forgets memory and handlers;
`_load_if_exists` is the start. `versions` and `revoked` are history. A delete
whose save fails is answered with 500 and comes back after a restart; the
properties speak of confirmed revocations.

**Semantic, Pages.** A frame is a line of pixels with faces and a high-contrast
hull; boxes are hundredths of it for the stub analyzer, pixels for OpenCV. The mask
plan and the blur are computed on whole pixels, cutting off the fraction of
position and of width each for itself. The code does so in doubles: a share times
a width that is a whole number may come out a hair less, and `int` loses a column
(`int(0.29*100)` is 28). The constant `Short` holds the products where that
happens; in the run these are the ones of IEEE doubles for the boxes of the
instance (`ShortProducts`), in the proofs any set. So a box may keep its last two
whole columns, a bound that is reached, and the columns it covers in part; `Hidden`
says exactly that. The variables of `Pages` are the page's own; `uploads` and
`analyses` are requests under way, answered in any order, and any step of them may
fail. `inStep` says that the last good answer was to the newest upload; an analysis is
`overtaken` when an upload is answered while it runs, since the preview then
renders the newer picture. `load`
shows a row to a viewer, through the semantic endpoints or by its views, from the
raw picture or, where the tier has none, the redacted one (`sourceUrl`).
Bounded out are a second click on the recorder's Start while the browser still
asks for the camera, which starts a second recorder, and fast clicks on the
viewer's toggle, which append rows twice. Previews of an earlier picture stay on
the page after a new upload, as in the code: the promise is that each hides what was found in the
picture it shows.

**WorkerPool.** A request is sent, accepted by the loop, waits in `line`, runs on
a worker, calls out, and is answered through the loop; a worker is held until
then. `Script` gives the calls of each handler. An `async` handler runs on the
loop itself and holds it while it pushes to IPFS. httpx' timeouts are per
operation, so that a call may last longer than the number says, but not for ever.

**HuskylensBridge.** One action per line read, `run_bridge`: parse, buffer, and
flush when the interval has passed. A product's name is the second of its writing,
looked up `delay` ticks after the interval was found over; a product of the same
second is replaced. Any interval of at least a second is allowed, as by
`max(1, ...)` in the code. A product is what its text tells: window, counts, top
label, highest confidence and the first few detections. A JSON line with a
confidence that is no number, and a write that raises, end the bridge and its
buffer with it (`HuskyEnds`). `received` and `writes` are history.

**WebcamBridge.** One action per frame, `run_webcam`: match detections to
tracks, drop old ones, mark who is near, emit. The person's and the litter's event
of one frame share a second and therefore a file name, so that the later of the
two overwrites the earlier; `outbox` models it, and `reported` holds what was
emitted. While the camera stalls an object counts as dwelling.

## 3. Runs

| Run | Bounds | Question |
| --- | --- | --- |
| `contracts` | 1 contract, 2 accounts and a denied one, 2 hashes, payments 1..3 at price 2, limit 3, 5 logs | do the sale's fields, its money, its log and `Orders` agree under any calls? |
| `ban` | the same | is a failed buyer refunded? **Violated** |
| `crashes` | 1 provider, 1 buyer, 1 file, 2 contracts, 2 crashes, 1 alteration, 1 failure, limit 2 | one task per purchase, or stranded? |
| `liveness` | 1 provider, 2 buyers for 1 contract, 2 alterations, 1 failure, limit 2 | do purchases end, do transactions revert, does a ban take as many alterations as the limit, do buyers have the file, is the owner paid? |
| `withdraw_early` | 2 buyers, no faults | does the owner take only settled money? **Violated** |
| `verification_result` | 2 buyers, no faults | is the printed result that of `verify()`? **Violated** |
| `delivery` | 2 contracts, 1 purchase, 2 wallets, expiry; up to 2 of: 1 failed call, 1 restart, 1 call of another client | one claim per purchase, unchanged by later bodies, one wallet per claim; an implementation of `Entitlements`? |
| `delivery_live` | 2 contracts, 2 purchases, 1 wallet, expiry, 1 failing call | is everybody answered, is every watched purchase claimed, with its contract's dataset? |
| `forwarding` | no faults | does the bridge forward every purchase it passes? **Violated** |
| `ready_page` | no faults | can the offer a ready page shows be redeemed? **Violated** |
| `denied_tier` | as `publisher` | do the views of a buyer evaluated as denied open nothing? **Violated** |
| `publisher` | eight parts, see below | the publisher's access control, pipeline, pages and server, and the device bridges |

The violated runs are the project's findings; each quotes the line that promises
otherwise. In short: a ban keeps the buyer's money; the owner's withdrawal after
one sale takes the payment of the next; the buyer's mediator may print `false`
for a verification that succeeded; the bridge never looks at contracts
registered after its start; a page opened more than ten minutes after the
bridge's claim shows, for ever, a dead offer; and a buyer evaluated as denied,
which `trust_score.py:12` maps to no views, gets a token for events, because the
claim stores no views as the view `event` (`state.py:488`).

*The run `publisher`.* The modules it joins share no variable; `Init` chooses one
part and the others stay as they start, so that the states are the sum of the
parts' and not their product. What one part takes from another is a constant of it.

| Part | Bounds | Properties |
| --- | --- | --- |
| access | 2 datasets (one with definitions), 1 seller, 1 contract, 1 request, 2 policy tokens or service tokens or one of the others, 2 handlers at once, 2 uses, 1 tick, every TTL 0 ticks, 1 refused audit write | `TokensBacked`, `WritesAuthorised`, `RowsAudited`, `BindingsLicensed`, `PagesEnd` |
| purchases | the same with 1 purchase by a user with access or a denied one, and offers without a claim; desktop pages, audit works | `MediaWithinTier` (and `DeniedReadNothing`) |
| users | all 160 combinations of attributes | `PortsAgree`, `BetterUsersSeeMore` |
| pipeline | 2 messages, 1 consent id, 2 versions, 1 tick, 1 crash, 1 fault | `RevokedStaysRevoked`, `DeliveriesAudited` |
| pages | 4 files (contrast; face and contrast, too risky; face and narrow contrast; a video), 2 picks, 2 analyses, 1 failed step, 3 sets of views (summaries, redacted image, raw media) | `PageConsistent`, `ViewersSeeMasked` |
| pool | 2 workers, redactor configured, 2 requests of four kinds from browsers, and the calls they make | `EveryRequestAnswered` |
| huskylens | 4 lines of 5 kinds, 6 ticks, flush every second of 2 ticks, writes up to 1 tick late | `ProductsTellAll` |
| webcam | 4 frames of 10 scenes, 1 or 3 seconds apart | `LitterJustified` |

A TTL of zero ticks lets a token live for the tick it was minted in and expire at the next,
which is all that comparisons with the clock can tell apart. Two handlers at once
is the least that races; two policy tokens of one request come from a replayed
presentation. In `pages` the card of a viewer and the analyses of the provider
are explored one without the other (`OneReader`), because they share only the
media. In `purchases` the mobile redirect and audit faults are left to `access`
(`Restricted`). Two workers, both taken by requests that call this
server back, are the smallest pool in which everybody waits for everybody. The scenes put an object still, moved
within and beyond matching distance, beside another in either order, and with a
person near or not; a gap of three seconds outlives a track.

In words, the properties say: a token has the dataset, purpose, licences and
views of its credential and no more, but for the view `event` where the credential
names none; a policy token lets in one row however many requests present it; no
row without its audit record; a buyer reads only the dataset bought, and images,
videos and descriptions only within the tier evaluated at the claim; a contract
goes to a licensed seller and the use is counted; a page stops polling. Publisher,
contract and circuit agree on every data user, and a worse attribute never opens a
view. Nothing is delivered under a consent whose revocation was confirmed before
the message came, and the log and the deliveries match. Publish and analyse take
the picture on the screen unless its upload is under way, failed or was answered
before an older one's; previews hide the boxes found, and show the picture
analysed unless an upload overtook the analysis. In the semantic mode a viewer sees
neither the original nor, but for two columns of a box, a region the analyzer
found. The server always gets through its requests. Every detection is in the
window of one write; a write whose name is taken in time keeps its file, whose text
tells what the write took. Litter was seen long enough with nobody near.

*Settings outside the instance.* `AllowUnknownAtHigh = TRUE` shows unknown regions
to the high tier, as the setting intends, and then `ViewersSeeMasked` does not
hold.

*What the properties leave out.* Some behaviours are in the models and violate no
property: a refused audit write uses a policy token up without a row; a refused
registration has been counted as a use of the seller's token; a revocation between
the decision and the delivery of a message comes too late for it; a presentation
replayed within its ten minutes mints another token; a provider who overtakes an
answer publishes another picture than the one on the screen; a slow write, or any
delay with an interval of one second, may lose a product to the next; and a camera
that stalls lets an object dwell unseen. `hazards` in `PROJECT.json` names each at
its line.

*Why the bounds are enough.* Contracts do not influence each other, so one is
enough for their sale; two accounts and a denied one give each role (owner,
owner as buyer, competitor) an occupant, payments lie below, at and above the
price, and the third trial of a second buyer exercises counter and reset. Two
contracts of one provider share its tasks, storage and watcher, and with a crash
are one from before and one from after. Two crashes restart each side or one
side twice. One failed request can strand a purchase or lose a withdrawal, one
failed poll makes a mediator deaf; a second adds nothing new to a contract that is
stranded already. In `delivery_live` two
purchases let a bridge's tick race the next block; in `delivery` two wallets compete
for one code, and one purchase is enough, since claims of different transactions
share nothing but the contract's dataset; the other client claims it for the other
contract, before or after bridge and page. One contract
carries an empty dataset, which the page forwards and the publisher rejects
while the bridge falls back. `delivery` uses symmetry in the wallets,
`contracts` in accounts and hashes; runs with liveness use none.

`CHECK_DEADLOCK FALSE` stands where the system may rest: all files sold, all
buyers served, nobody opening a page.

*Conditions on the properties.* `BanNeedsTampering` and `ServedBuyersHaveData`
hold for files with names of their own, each sold by one contract. When a
restart offers the same file under a second contract, two tasks of a buyer write
one download path, and a single alteration between their save and read steps can
reach two verifications; section 5 names both conditions, and such instances
are left to a planned run.
`OwnerIsPaid` exempts contracts in `unpaid`: a withdrawal is lost when its request
fails, when the event loop has panicked on a failed poll, or when the process
ended, and only the next `Verify(true)` makes up for it; after the last sale
nothing does. `MoneyOnItsWay` says that there is no other way to lose one.

*Sizes.* `liveness` has 145 thousand distinct states, `crashes` 290 thousand,
`delivery` 1.4 million, `delivery_live` 190 thousand, `publisher` 470 thousand; the
slowest take two to four minutes with two workers.

*Mutants.* Each property of a passing run has an operator beside the definition
it replaces, commented "Mutant of", with a slip the code might contain: a
dropped guard, a forgotten write, an event filter from block 0, a cursor moved
to the newest block. TLC has to find the property violated with it.

## 4. Fairness

`Mediators`: weak fairness of some task step, of each provider's watcher and of
creating the event filter. All are steps of tokio tasks that are ready to run,
and tasks do not wait for each other, so some task step at a time is enough: a
purchase cannot be bypassed for ever because bounded sales make bounded tasks.
Starting a mediator, purchases, file arrivals and faults are not fair. The
owner's runtime is assumed to have more than one worker.
`PurchaseDelivery`: weak fairness of the bridge (its timer re-arms in
`finally`), of each caller's request (a thread of the publisher's pool serves
it; fairness of "some request" would let one page's retries starve another) and
of each wallet once it holds a code. Nobody has to buy, open a page or scan, and
neither time nor faults have to strike.
`MCPublisher`: weak fairness of time or the page's poll, while access is explored
(the page polls in a loop that only an outcome ends, and the clock goes on:
either the next poll ends the loop or time brings the request's expiry nearer,
so that one condition does for both), and of the server's own
steps: dispatch by the loop, progress on a worker, a timeout that runs out,
sending an answer. No service outside ever has to answer, and no wallet, seller
or provider has to act.

## 5. Proofs

Every theorem holds for all values of the constants that satisfy the named
assumption of the component's module (`ContractAssumption`,
`MediatorAssumption`, ...), whichever accounts, files, limits and bounds those
are. The bounds are constants too: nothing in the proofs depends on how large
they are. `AccessSpec`, `DataUserSpec`, `PipelineSpec`, `PagesSpec`, `PoolSpec`,
`HuskySpec` and `WebcamSpec` are the safety specifications of the parts that the
run `publisher` explores one at a time; a behaviour of the run is, on the part's
variables, one of them, with further restrictions in the instance (`Restricted`, `OneReader`) that the
theorems do without.

| Module | Theorem | Says |
| --- | --- | --- |
| `MerchandiseProofs` | `TypeCorrect` | `Spec => []TypeOK` |
| | `SaleStates` | `Spec => []SaleStateConsistent` |
| | `Funds` | `Spec => []FundsAccounted` |
| | `LogTellsTheSale` | `Spec => []LogTellsState` |
| | `LogSerial` | `Spec => []LogIsSerial` |
| | `Refinement` | `Spec => ImplementsOrders` |
| `MediatorsProofs` | `MediatorTypeCorrect` | `Spec => []TypeOK` |
| | `OneWorker` | `Spec => []OneWorkerPerSale` |
| | `TransactionsSucceed` | `Spec => []CallsNeverRevert` |
| | `WithdrawalsUnderWay` | `Spec => []MoneyOnItsWay` |
| | `MediatorsUseContracts` | `Spec => Chain!Spec` |
| | `ContractsHold` | `Spec => [](FundsAccounted /\ LogTellsState /\ LogIsSerial)` of the contracts |
| | `MediatorsImplementOrders` | `Spec => ImplementsOrders` of the contracts |
| | `BansNeedTampering` | `NamesApart`, then `Spec => [](faults.crash = 0 => BanNeedsTampering)` |
| | `ServedHaveData` | `NamesApart`, then `Spec => [](faults.crash = 0 => ServedBuyersHaveData)` |
| `PurchaseDeliveryProofs` | `TypeCorrect` | `Spec => []TypeOK` |
| | `OneClaimPerTransaction` | `Spec => []ClaimsIdempotent` |
| | `CredentialsTellPurchases` | `Spec => []VCsMatchPurchases` |
| | `OneHolderPerClaim` | `Spec => []OneWalletPerClaim` |
| | `DatasetsFromContracts` | `Spec => []DatasetFromContract` |
| | `DeliveryImplementsEntitlements` | `Spec => ImplementsEntitlements` |
| `AccessTokensProofs` | `AccessTypes` | `AccessSpec => []AccessTypeOK` |
| | `TokensFromCredentials` | `AccessSpec => []TokensBacked` |
| | `UploadsAuthorised` | `AccessSpec => []WritesAuthorised` |
| | `UploadsAudited` | `AccessSpec => []RowsAudited` |
| | `MediaReadWithinTier` | `AccessSpec => []MediaWithinTier` |
| | `ContractsLicensed` | `AccessSpec => []BindingsLicensed` |
| | `OneLevel` | `DataUserSpec => []PortsAgree` |
| | `BetterSeeMore` | `DataUserSpec => BetterUsersSeeMore` |
| `PipelineProofs` | `RevocationsHold` | `PipelineSpec => []RevokedStaysRevoked` |
| | `DeliveriesLogged` | `PipelineSpec => []DeliveriesAudited` |
| `PagesProofs` | `ViewersMasked` | `~AllowUnknownAtHigh`, then `PagesSpec => []ViewersSeeMasked` |
| | `PageShowsUpload` | `~AllowUnknownAtHigh`, then `PagesSpec => []PageConsistent` |
| `WorkerPoolProofs` | `ServerNeverStuck` | `PoolSpec => []NeverStuck` |
| | `PoolIsHeld` | `PoolSpec => []PoolHolds` |
| | `WorkComesToAnEnd` | `PoolSpec => WorkEnds` |
| `BridgesProofs` | `HuskyProductsTellAll` | `HuskySpec => []ProductsTellAll` |
| | `WebcamReportsAreJustified` | `WebcamSpec => []LitterJustified` |

**Merchandise.** The inductive invariant is `Inv == TypeOK /\ SaleStateConsistent`. The types
alone do not survive a step of interest: that `verify` bans exactly at the limit
needs the counter below the limit while a sale is open, and that a purchase
starts counting at zero needs the counter to be zero in `SALE`; both are
conjuncts of `SaleStateConsistent`. `TypeStep` and `SaleStateStep` show that each
action preserves it, `InvAlways` combines them. `FundsStep` is relative to `Inv`:
that a confirmed buyer's payment moves from escrow to settled, once, needs the
buyer in progress not to be among the confirmed. For the refinement
`StatusUnchanged` says which steps leave the abstract status alone,
`StatusChange` what the others do to one order, and `OrdersStep` maps purchase
to Order, Confirm to Deliver, Ban to Forfeit and everything else to a stutter.
The log is proved about through the set of its positions that hold a given
event: a step appends at most one log (`Appended`), so each such count stays or
grows by one (`OneMore`). `LogTells` counts purchases and both outcomes of
`verify` per contract and buyer; `Serial` adds to `LogIsSerial` that the buyer in
progress is the one whose purchase the log left open, without which the next
confirmation could not be matched to it.

**Mediators.** Contracts are used through `MerchandiseProofs`: `Transactions`
identifies each transaction of a mediator with one of `Merchandise`, so that the
contracts' own invariant comes for nothing; `MediatorsUseContracts` carries the
theorems above over to the composed system, as `ContractsHold` and
`MediatorsImplementOrders` state. `MediatorInv` says of every task
what sale it works on: its log entry, that the sale is in progress for that
buyer and that no second task works on it (`WorkersOK`), and what it holds at its
program counter (`Role`, `Holds`); of watchers that their contract is deployed;
of keys that whoever runs, or is buying, has one registered. `OneWorkerPerSale`
is not inductive without `KeysOK` and `Role`: a task that could revert would end
and leave its sale with nobody. Crashes, failed requests and polls and altered
bytes are among the steps. `MoneyInv` adds to `MoneyOnItsWay` that a withdrawal is
the owner's; each step is one of `MoneyStays` (no money moves), `MoneyLogged`,
`MoneyTaken` or `MoneyVerified`, and that a withdrawal takes all that is owed comes
from `FundsAccounted`.

**What is delivered.** `DataInv` follows the file from the owner's directory to
the buyer's. `FilesOnce` says a file is sold by one contract, `NamesKept` that
what lies under a name is the file of that name or `Corrupt`, `KeysLead` that a
key in the log leads to the file of its contract or nowhere, `TaskData` the same
of what tasks hold between two awaits, and `TrialsTampered` charges every failed
verification, and the failure still on its way, to an alteration of its own. Both
conditions of the theorems are needed. Without `NamesApart` two owners overwrite
each other in the storage. After a crash the start-up scan deploys the same file
again, so that two tasks share a download path; TLC finds both properties
violated then, and the code promises no more.

**PurchaseDelivery.** `Inv` adds to the types where everything under way comes
from: the bridge's logs and cursor are on the chain, a handler's claim is the
claim of its transaction (before and after its offer is stored), what bridge and
page ask is true of the chain and so are the claims they made, a claim's token
and credentials belong to one wallet, which a wallet between the two steps of its
redemption is. `ClaimsIdempotent` alone says nothing of a handler between the lock
and the offer, which is where the race is. `DatasetInv` is relative to it, and
exempts what other clients claim. The refinement maps the creation of a claim to
the grant, `issuer_credential` to the redemption, `issue_sd_jwt_vc` to giving the
credential, a restart to forgetting, and proves all other steps to stutter
(`RefinesStep`).

**AccessTokens.** `AccessInv` ties tokens to the requests and credentials they
were minted for, and counts: the rows of a token and its uploads under way
together are never more than its uses, and in the same way the contracts bound
and the registrations under way. Cardinalities of handlers that leave and rows
that come are compared by `OneMore` and `Counted`. The invariants the run checks
say nothing of a handler that has used a token and not yet stored its row.

**Pipeline.** `ConsentsHeld` says that a handler past its decision has a consent
that was in memory when it decided and not confirmed revoked when the message
came, `RevokedGone` that neither memory nor file holds a version whose removal
was confirmed, even after a crash in the middle of `upsert` or `delete`; `RowsTold`
and `LogTrue` speak of rows, records and answers, of handlers in between too.

**Pages.** Two theorems for the default `allow_unknown_at_high = False`
(`src/publisher/app/config.py:102`); with `TRUE` the policy lets unknown regions through on
purpose. `BoxHidden` is the arithmetic of masking, for every position, width, frame
and unit, and for every set `Short` of products that fall short: blurring from
`int(x*w)` for `int(width*w)` columns covers all whole columns of a box but the last
two (`WholeColumnsCut`), also where the box is clamped or empty.
`RegionsAreBoxes` says that analyzers produce such boxes,
`Rendered` that an image for a level without privileges is blurred over all of
them and within the risk ceiling; `RenderUrlMasks` and `AnalysisPreviewed` go
through the failures. `PageOK` is what `PageConsistent` needs while requests are under
way: what is analysed and what is published are one upload, and an
analysis that nothing overtook is of the upload last answered.

**DataUsers.** `CompareBits` proves the circuit's comparison from the highest bit
down to be the comparison of any numbers of seven bits; `CircuitScore` that the
circuit's sum of selectors is the publisher's score, which lies in 0..100, so
that neither seven bits nor an unsigned number is ever too small; and
`ViewsMonotone` that score, level and views grow together.

**WorkerPool.** That every request is answered needs fairness, which only TLC can
take into account; proved is what else it rests on. `NeverStuck`: while a
request is unanswered some step of the server is possible (`ServerCanStep` spells
out the guards; TLC found it to say the same as `ENABLED ServerSteps` for two
workers and two requests), also when all workers wait for handlers that wait for a
worker. `WorkEnds`: every step but a browser's new request, timeouts and late
answers included, takes at least one from `Work`, a natural number that counts
the steps all requests still need, those of the calls they will make included.
So nothing goes in circles, for any number of requests, workers and injectors.
`PoolInv` adds that whoever waits is in line, once, and `CallsAreNew`: a caller
whose client gave up may call again while its first call is still carried out,
and the two must not be taken for one request.

**Bridges.** `HuskyInv` says of the sensor's bridge what `ProductsTellAll` leaves
out. `TimesTrue`: writes are an interval apart, and a name is the second that holds
the look at the clock and the delay, so that a quick write's name is an earlier
second than any later write's (`QuickIsEarlier`). `BufferTrue`: what was received is
the windows of the writes and then the buffer, unless an error ended the process.
`FilesTrue`: the file of a quick write still is the text of what it took
(`TextTells`). `WebcamInv` says of each track what of the past it stands for
(`TracksTrue`): when it was first and last seen and near whom, against the frames
there were; of each event that it was justified when it came and that its track
is marked as emitted (`ReportsTrue`), without which it would be reported again.
The webcam's bridge computes with lists of any length, by folds over the detections
of a frame. The prover has no induction over data; `MatchedExists` obtains it from
the well-foundedness of the naturals, which `LeastNumber` states of sets: if what
the function computes one element at a time were wrong somewhere, there would be a
least place where it is.

`PoolInv`, `HuskyInv` and `WebcamInv` were checked by TLC before they were proved.

**Only model-checked.** Liveness under fairness: `PurchasesEnd`, `OwnerIsPaid`,
`CallersGetAnswers`, `WatchedPurchasesClaimed`, `PagesEnd`, `EveryRequestAnswered`.
Every safety invariant and action property that a passing run checks is a
theorem, under the condition in the table where there is one. The abstract
specifications state no fairness, so that their implementation is a matter of
safety alone.

## 6. Not modelled

- The log filter's block ranges, gas, chain reorganisations (Hardhat has none).
- The buyer's own file watcher (`monitor_folder`), which blocks a runtime worker
  and misses files while it processes one; IPFS and PostgreSQL uploads of the
  start-up scan; the processing scripts.
- Providers whose files share a name, so that the download path which two tasks of a
  buyer could share is not exercised.
- Credentials' own expiry, nonces and proof of possession; issuer metadata; the
  cryptography of presentations, which the PEX sidecar and the wallet library do.
- Media files' names and the limits of size and type; text outputs of the
  semantic renderer; layout and form fields of the pages; dry runs and the mock
  camera of the bridges.
- Assistant planner and assistant UI: pure functions on text and glue over
  endpoints. ZK verifier contracts and DID scripts: generated pairing checks and
  one-shot scripts; only the trust circuit is modelled, and not the input generator
  `genInput.cjs`, whose expected level (lines 43-44) nothing reads. Metadata generator,
  deployment, examples: tools.

## 7. Plan

In order of importance; done items first.

1. `Orders`, `Merchandise`, `MerchandiseProofs` (done).
2. `SimpleStorage`, `Mediators` (done).
3. `PurchaseDelivery` (done).
4. `TrustScore`, `DataUsers`, `AccessTokens`, `Pipeline` (done).
5. `Semantic`, `Pages`, `WorkerPool`, `HuskylensBridge`, `WebcamBridge` (done).
6. `Entitlements` and its implementation by `PurchaseDelivery` (done).
7. Proofs: the safety of every component, both refinements, and what
   `EveryRequestAnswered` rests on (done).
8. The buyer's watcher, names shared by two providers, a download path shared by
   two tasks, in `Mediators`.
