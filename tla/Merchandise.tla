----------------------------- MODULE Merchandise -----------------------------
(***************************************************************************)
(* The contracts of iot-market/contracts: PubKey (the RSA keys of the      *)
(* mediators), IoTMarket (the list of registered goods) and one Merchandise *)
(* contract per data file offered for sale.  A transaction is one atomic   *)
(* action; one that reverts changes nothing and is not an action.  Callers *)
(* are externally owned accounts, as the mediators and the UI wallet are,  *)
(* so tx.origin and msg.sender are the same account.                       *)
(***************************************************************************)
EXTENDS Naturals, Sequences, FiniteSets

CONSTANTS
  Accounts,     \* externally owned accounts
  NoAccount,    \* address(0): "no account"
  Merchs,       \* addresses at which Merchandise contracts get deployed
  Price,        \* the price a deployment rule sets
  Denied,       \* the accounts a deployment rule denies access to
  Payments,     \* the values callers attach to purchase()
  RETRY_LIMIT,  \* trials granted to a buyer before the goods are banned
  Keys,         \* strings offered to registerKey()
  ValidKeys,    \* those of Keys that start with "[" and end with "]"
  NoKey,        \* the empty string, the default of the key mapping
  Hashes,       \* the data hashes that occur
  NoHash,       \* the hash of an address nothing is deployed at
  Uris,         \* the encrypted URIs owners announce
  MaxLog        \* bound: emitUpload is not called once the log is this long

ASSUME ContractAssumption ==
  /\ NoAccount \notin Accounts
  /\ Price \in Nat \ {0}
  /\ Payments \subseteq Nat
  /\ Denied \subseteq Accounts
  /\ RETRY_LIMIT \in Nat \ {0}
  /\ ValidKeys \subseteq Keys
  /\ NoKey \notin Keys
  /\ NoHash \notin Hashes
  /\ MaxLog \in Nat

VARIABLES
  pubKeys,            \* s_addressToPublicKey of PubKey
  listed,             \* s_merchandises of IoTMarket, as a set
  owner,              \* i_owner; NoAccount while not deployed
  dataHash,           \* i_dataHash
  merchandiseState,   \* s_merchandiseState
  trialCount,         \* s_trialCount
  progressBuyer,      \* s_progressBuyer
  confirmedBuyers,    \* s_confirmedBuyers
  balance,            \* address(this).balance
  log,                \* the events emitted so far, in chain order
  paid,               \* history: what each account has paid for each merch
  settled,            \* history: what confirmed buyers have paid
  taken               \* history: what the owner has withdrawn

vars == <<pubKeys, listed, owner, dataHash, merchandiseState, trialCount,
          progressBuyer, confirmedBuyers, balance, log, paid, settled, taken>>

MerchandiseState == {"SALE", "IN_PROGRESS", "BANNED"}

(***************************************************************************)
(* Events.  "address" is the contract that emits; the owner topic is       *)
(* owner[address].                                                         *)
(***************************************************************************)
Purchase(m, b, k) == [event |-> "Purchase", address |-> m, buyer |-> b, pubkey |-> k]
Verify(m, b, r)   == [event |-> "Verify", address |-> m, buyer |-> b, result |-> r]
Upload(m, b, u)   == [event |-> "Upload", address |-> m, buyer |-> b, uri |-> u]

Event ==
  [event: {"Purchase"}, address: Merchs, buyer: Accounts, pubkey: ValidKeys]
    \cup [event: {"Verify"}, address: Merchs, buyer: Accounts, result: BOOLEAN]
    \cup [event: {"Upload"}, address: Merchs, buyer: Accounts, uri: Uris]

deployed == {m \in Merchs : owner[m] # NoAccount}

Init ==
  /\ pubKeys = [a \in Accounts |-> NoKey]
  /\ listed = {}
  /\ owner = [m \in Merchs |-> NoAccount]
  /\ dataHash = [m \in Merchs |-> NoHash]
  /\ merchandiseState = [m \in Merchs |-> "SALE"]
  /\ trialCount = [m \in Merchs |-> 0]
  /\ progressBuyer = [m \in Merchs |-> NoAccount]
  /\ confirmedBuyers = [m \in Merchs |-> {}]
  /\ balance = [m \in Merchs |-> 0]
  /\ log = <<>>
  /\ paid = [m \in Merchs |-> [a \in Accounts |-> 0]]
  /\ settled = [m \in Merchs |-> 0]
  /\ taken = [m \in Merchs |-> 0]

-----------------------------------------------------------------------------
(***************************************************************************)
(* PubKey                                                                  *)
(***************************************************************************)
isPubKey(k) == k \in ValidKeys

existKey(a) == pubKeys[a] # NoKey

\* Mutant of registerKey: any string is taken for a key.
registerKeyUnchecked(a, k) ==
  /\ pubKeys' = [pubKeys EXCEPT ![a] = k]
  /\ UNCHANGED <<listed, owner, dataHash, merchandiseState, trialCount,
                 progressBuyer, confirmedBuyers, balance, log, paid, settled,
                 taken>>

registerKey(a, k) ==
  /\ isPubKey(k)
  /\ pubKeys' = [pubKeys EXCEPT ![a] = k]
  /\ UNCHANGED <<listed, owner, dataHash, merchandiseState, trialCount,
                 progressBuyer, confirmedBuyers, balance, log, paid, settled,
                 taken>>

(***************************************************************************)
(* getPubKey(who) reverts unless the caller (not who) has a key; who's own *)
(* key may then still be the empty string.                                 *)
(***************************************************************************)
CanGetPubKey(caller) == existKey(caller)
getPubKey(who) == pubKeys[who]

(***************************************************************************)
(* IoTMarket: anyone registers any address, any number of times, deployed  *)
(* or not.                                                                 *)
(***************************************************************************)
registerMerchandise(m) ==
  /\ listed' = listed \cup {m}
  /\ UNCHANGED <<pubKeys, owner, dataHash, merchandiseState, trialCount,
                 progressBuyer, confirmedBuyers, balance, log, paid, settled,
                 taken>>

-----------------------------------------------------------------------------
(***************************************************************************)
(* Merchandise.  Price and the denied accounts are the same for every      *)
(* contract: they come from the deployment rule.                           *)
(***************************************************************************)
constructor(m, o, h) ==
  /\ m \notin deployed
  /\ owner' = [owner EXCEPT ![m] = o]
  /\ dataHash' = [dataHash EXCEPT ![m] = h]
  /\ UNCHANGED <<pubKeys, listed, merchandiseState, trialCount, progressBuyer,
                 confirmedBuyers, balance, log, paid, settled, taken>>

\* Mutant of CanPurchase: access control is forgotten.
CanPurchaseAnybody(m, b, value) ==
  /\ m \in deployed
  /\ merchandiseState[m] = "SALE"
  /\ value >= Price
  /\ b \notin confirmedBuyers[m]
  /\ CanGetPubKey(b)

\* Mutant of CanPurchase: the goods need not be for sale.
CanPurchaseAnytime(m, b, value) ==
  /\ m \in deployed
  /\ value >= Price
  /\ b \notin Denied \cup confirmedBuyers[m]
  /\ CanGetPubKey(b)

CanPurchase(m, b, value) ==
  /\ m \in deployed
  /\ merchandiseState[m] = "SALE"
  /\ value >= Price
  /\ b \notin Denied
  /\ b \notin confirmedBuyers[m]
  /\ CanGetPubKey(b)

\* The whole of msg.value is kept, also what exceeds the price.
purchase(m, b, value) ==
  /\ CanPurchase(m, b, value)
  /\ merchandiseState' = [merchandiseState EXCEPT ![m] = "IN_PROGRESS"]
  /\ progressBuyer' = [progressBuyer EXCEPT ![m] = b]
  /\ balance' = [balance EXCEPT ![m] = @ + value]
  /\ log' = Append(log, Purchase(m, b, getPubKey(b)))
  /\ paid' = [paid EXCEPT ![m][b] = @ + value]
  /\ UNCHANGED <<pubKeys, listed, owner, dataHash, trialCount,
                 confirmedBuyers, settled, taken>>

(***************************************************************************)
(* verify(dataHash), by its three outcomes.                                *)
(***************************************************************************)
\* Mutant of CanVerify: anybody may verify.
CanVerifyAnybody(m, b) == m \in deployed /\ merchandiseState[m] = "IN_PROGRESS"

CanVerify(m, b) ==
  /\ m \in deployed
  /\ merchandiseState[m] = "IN_PROGRESS"
  /\ progressBuyer[m] = b

\* Mutant of RequestAgain: the trial is not counted.
RequestAgainUncounted(m, b) ==
  /\ trialCount[m] + 1 < RETRY_LIMIT
  /\ log' = Append(log, Verify(m, b, FALSE))
  /\ UNCHANGED <<merchandiseState, trialCount, progressBuyer, confirmedBuyers, settled>>

\* A mismatch below the limit: the event asks the owner for the data again.
RequestAgain(m, b) ==
  /\ trialCount[m] + 1 < RETRY_LIMIT
  /\ trialCount' = [trialCount EXCEPT ![m] = @ + 1]
  /\ log' = Append(log, Verify(m, b, FALSE))
  /\ UNCHANGED <<merchandiseState, progressBuyer, confirmedBuyers, settled>>

\* A mismatch at the limit: no event, no refund, the buyer stays recorded.
Ban(m) ==
  /\ trialCount[m] + 1 >= RETRY_LIMIT
  /\ trialCount' = [trialCount EXCEPT ![m] = @ + 1]
  /\ merchandiseState' = [merchandiseState EXCEPT ![m] = "BANNED"]
  /\ UNCHANGED <<log, progressBuyer, confirmedBuyers, settled>>

\* A match: the sale is completed and the goods are for sale again.
Confirm(m, b) ==
  /\ merchandiseState' = [merchandiseState EXCEPT ![m] = "SALE"]
  /\ trialCount' = [trialCount EXCEPT ![m] = 0]
  /\ progressBuyer' = [progressBuyer EXCEPT ![m] = NoAccount]
  /\ confirmedBuyers' = [confirmedBuyers EXCEPT ![m] = @ \cup {b}]
  /\ log' = Append(log, Verify(m, b, TRUE))
  /\ settled' = [settled EXCEPT ![m] = @ + paid[m][b]]

verify(m, b, h) ==
  /\ CanVerify(m, b)
  /\ \/ h # dataHash[m] /\ RequestAgain(m, b)
     \/ h # dataHash[m] /\ Ban(m)
     \/ h = dataHash[m] /\ Confirm(m, b)
  /\ UNCHANGED <<pubKeys, listed, owner, dataHash, balance, paid, taken>>

(***************************************************************************)
(* withdraw() sends the whole balance, whatever the state of a purchase.   *)
(***************************************************************************)
CanWithdraw(m, a) ==
  /\ m \in deployed
  /\ a = owner[m]
  /\ merchandiseState[m] # "BANNED"

\* Mutant of withdraw: the amount is computed from the payments, again and again.
withdrawAgain(m, a) ==
  /\ CanWithdraw(m, a)
  /\ taken' = [taken EXCEPT ![m] = @ + settled[m]]
  /\ UNCHANGED <<pubKeys, listed, owner, dataHash, merchandiseState,
                 trialCount, progressBuyer, confirmedBuyers, balance, log,
                 paid, settled>>

\* Mutant of withdraw: the price is sent, not the balance.
withdrawPrice(m, a) ==
  /\ CanWithdraw(m, a) /\ balance[m] >= Price
  /\ balance' = [balance EXCEPT ![m] = @ - Price]
  /\ taken' = [taken EXCEPT ![m] = @ + Price]
  /\ UNCHANGED <<pubKeys, listed, owner, dataHash, merchandiseState,
                 trialCount, progressBuyer, confirmedBuyers, log, paid,
                 settled>>

withdraw(m, a) ==
  /\ CanWithdraw(m, a)
  /\ balance' = [balance EXCEPT ![m] = 0]
  /\ taken' = [taken EXCEPT ![m] = @ + balance[m]]
  /\ UNCHANGED <<pubKeys, listed, owner, dataHash, merchandiseState,
                 trialCount, progressBuyer, confirmedBuyers, log, paid,
                 settled>>

CanEmitUpload(m, a) ==
  /\ m \in deployed
  /\ a = owner[m]
  /\ merchandiseState[m] = "IN_PROGRESS"

emitUpload(m, a, uri) ==
  /\ Len(log) < MaxLog
  /\ CanEmitUpload(m, a)
  /\ log' = Append(log, Upload(m, progressBuyer[m], uri))
  /\ UNCHANGED <<pubKeys, listed, owner, dataHash, merchandiseState,
                 trialCount, progressBuyer, confirmedBuyers, balance, paid,
                 settled, taken>>

-----------------------------------------------------------------------------
Next ==
  \/ \E a \in Accounts, k \in Keys : registerKey(a, k)
  \/ \E m \in Merchs, a \in Accounts, h \in Hashes : constructor(m, a, h)
  \/ \E m \in Merchs : registerMerchandise(m)
  \/ \E m \in Merchs, a \in Accounts, v \in Payments : purchase(m, a, v)
  \/ \E m \in Merchs, a \in Accounts, h \in Hashes : verify(m, a, h)
  \/ \E m \in Merchs, a \in Accounts : withdraw(m, a)
  \/ \E m \in Merchs, a \in Accounts, u \in Uris : emitUpload(m, a, u)

Spec == Init /\ [][Next]_vars
-----------------------------------------------------------------------------
(***************************************************************************)
(* Properties.                                                             *)
(***************************************************************************)

\* What the open purchase of m has paid and the contract has not settled.
escrow(m) == IF progressBuyer[m] = NoAccount THEN 0 ELSE paid[m][progressBuyer[m]]

\* Every variable has its type.
TypeOK ==
  /\ pubKeys \in [Accounts -> ValidKeys \cup {NoKey}]
  /\ listed \subseteq Merchs
  /\ owner \in [Merchs -> Accounts \cup {NoAccount}]
  /\ dataHash \in [Merchs -> Hashes \cup {NoHash}]
  /\ merchandiseState \in [Merchs -> MerchandiseState]
  /\ trialCount \in [Merchs -> Nat]
  /\ progressBuyer \in [Merchs -> Accounts \cup {NoAccount}]
  /\ confirmedBuyers \in [Merchs -> SUBSET Accounts]
  /\ balance \in [Merchs -> Nat]
  /\ log \in Seq(Event)
  /\ paid \in [Merchs -> [Accounts -> Nat]]
  /\ settled \in [Merchs -> Nat]
  /\ taken \in [Merchs -> Nat]

(***************************************************************************)
(* The four fields that purchase() and verify() keep in step never         *)
(* disagree: there is a recorded buyer exactly while the goods are not for *)
(* sale, the trial counter is that buyer's and stays below the limit until *)
(* the ban, and neither a denied nor an already served account is ever the *)
(* buyer.                                                                  *)
(***************************************************************************)
SaleStateOK(m) ==
  /\ merchandiseState[m] = "SALE" <=> progressBuyer[m] = NoAccount
  /\ merchandiseState[m] = "SALE" => trialCount[m] = 0
  /\ merchandiseState[m] = "IN_PROGRESS" => trialCount[m] < RETRY_LIMIT
  /\ merchandiseState[m] = "BANNED" => trialCount[m] = RETRY_LIMIT
  /\ progressBuyer[m] \notin confirmedBuyers[m] \cup Denied
  /\ confirmedBuyers[m] \cap Denied = {}
  /\ m \notin deployed => progressBuyer[m] = NoAccount /\ confirmedBuyers[m] = {}
SaleStateConsistent == \A m \in Merchs : SaleStateOK(m)

(***************************************************************************)
(* Money is neither lost nor charged twice: what the contract holds and    *)
(* what its owner took is what confirmed buyers and the buyer in progress  *)
(* paid, and an account has paid (at least the price) exactly if it is one *)
(* of these.                                                               *)
(***************************************************************************)
FundsOK(m) ==
  /\ balance[m] + taken[m] = settled[m] + escrow(m)
  /\ \A a \in Accounts :
       IF a \in confirmedBuyers[m] \cup {progressBuyer[m]}
       THEN paid[m][a] >= Price
       ELSE paid[m][a] = 0
FundsAccounted == \A m \in Merchs : FundsOK(m)

\* The log positions at which m emits an event of buyer b.
PurchasesOf(m, b) ==
  {i \in DOMAIN log : log[i].event = "Purchase" /\ log[i].address = m /\ log[i].buyer = b}
VerdictsOf(m, b, r) == {i \in DOMAIN log : log[i] = Verify(m, b, r)}

(***************************************************************************)
(* The mediators and the bridge see the log alone.  It tells them the sale *)
(* state of every contract: who bought, who was served, and how many       *)
(* trials were used, except that the last trial before a ban is silent.    *)
(***************************************************************************)
LogTellsState == \A m \in Merchs, b \in Accounts :
  /\ Cardinality(PurchasesOf(m, b)) =
       IF b \in confirmedBuyers[m] \cup {progressBuyer[m]} THEN 1 ELSE 0
  /\ Cardinality(VerdictsOf(m, b, TRUE)) = IF b \in confirmedBuyers[m] THEN 1 ELSE 0
  /\ b = progressBuyer[m] =>
       Cardinality(VerdictsOf(m, b, FALSE)) =
         IF merchandiseState[m] = "BANNED" THEN trialCount[m] - 1 ELSE trialCount[m]

(***************************************************************************)
(* One sale at a time: between the Purchase event of a buyer and any later *)
(* Upload or Verify event for that buyer, the contract emits nothing for   *)
(* anybody else and has not completed the sale.                            *)
(***************************************************************************)
LogIsSerial == \A i \in DOMAIN log : log[i].event # "Purchase" =>
  \E j \in PurchasesOf(log[i].address, log[i].buyer) :
    /\ j < i
    /\ \A k \in (j + 1)..(i - 1) : log[k].address = log[i].address =>
         /\ log[k].event # "Purchase"
         /\ log[k].buyer = log[i].buyer
         /\ log[k] # Verify(log[i].address, log[i].buyer, TRUE)

(***************************************************************************)
(* "withdraws the settled currency", Merchandise.sol:159: the owner never  *)
(* holds money of a purchase that is still being verified.                 *)
(***************************************************************************)
WithdrawsOnlySettled == \A m \in Merchs : taken[m] <= settled[m]

(***************************************************************************)
(* "makes the goods BANNED and refunds the buyer", Merchandise.sol:134:    *)
(* once banned, the contract holds nothing of the buyer it failed.         *)
(***************************************************************************)
BanRefundsBuyer == \A m \in Merchs :
  merchandiseState[m] = "BANNED" => escrow(m) = 0

(***************************************************************************)
(* The sale of each contract is the sale of Orders.                        *)
(***************************************************************************)
OrderStatus(m, b) ==
  CASE b \in confirmedBuyers[m] -> "delivered"
    [] b = progressBuyer[m] /\ merchandiseState[m] = "IN_PROGRESS" -> "pending"
    [] b = progressBuyer[m] /\ merchandiseState[m] = "BANNED" -> "forfeited"
    [] OTHER -> "none"

Sale == INSTANCE Orders WITH
          Items <- Merchs, Buyers <- Accounts,
          status <- [m \in Merchs |-> [b \in Accounts |-> OrderStatus(m, b)]]
ImplementsOrders == Sale!Spec
=============================================================================
