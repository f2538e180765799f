--------------------------- MODULE MerchandiseProofs ---------------------------
(***************************************************************************)
(* Proofs about Merchandise, for any accounts, contracts, price, limit and *)
(* payments.                                                               *)
(*                                                                         *)
(* TypeOK is not inductive alone: emitUpload() logs the recorded buyer,    *)
(* and that there is one while the goods are in progress is part of        *)
(* SaleStateConsistent.  The two are inductive together.                   *)
(***************************************************************************)
EXTENDS Merchandise, FiniteSetTheorems, TLAPS

Inv == TypeOK /\ SaleStateConsistent

\* The contracts start within the invariant.
LEMMA InitInv == Init => Inv
  BY ContractAssumption
  DEF Init, Inv, TypeOK, MerchandiseState, SaleStateConsistent, SaleStateOK, deployed

\* Every step of a contract keeps the types, given consistent sale states.
LEMMA TypeStep == Inv /\ [Next]_vars => TypeOK'
<1> SUFFICES ASSUME Inv, [Next]_vars
             PROVE  TypeOK'
  OBVIOUS
<1> USE ContractAssumption DEF Inv, TypeOK, MerchandiseState
<1>1. ASSUME NEW a \in Accounts, NEW k \in Keys, registerKey(a, k)
      PROVE  TypeOK'
  BY <1>1 DEF registerKey, isPubKey
<1>2. ASSUME NEW m \in Merchs, NEW a \in Accounts, NEW h \in Hashes,
             constructor(m, a, h)
      PROVE  TypeOK'
  BY <1>2 DEF constructor
<1>3. ASSUME NEW m \in Merchs, registerMerchandise(m)
      PROVE  TypeOK'
  BY <1>3 DEF registerMerchandise
<1>4. ASSUME NEW m \in Merchs, NEW a \in Accounts, NEW v \in Payments,
             purchase(m, a, v)
      PROVE  TypeOK'
  <2>1. v \in Nat
    OBVIOUS
  <2>2. Purchase(m, a, getPubKey(a)) \in Event
    BY <1>4 DEF purchase, CanPurchase, CanGetPubKey, existKey, getPubKey, Purchase, Event
  <2>3. log' \in Seq(Event)
    BY <1>4, <2>2 DEF purchase, CanPurchase
  <2>4. paid' \in [Merchs -> [Accounts -> Nat]]
    BY <1>4, <2>1 DEF purchase, CanPurchase
  <2>5. balance' \in [Merchs -> Nat]
    BY <1>4, <2>1 DEF purchase, CanPurchase
  <2>6. QED
    BY <1>4, <2>3, <2>4, <2>5 DEF purchase, CanPurchase
<1>5. ASSUME NEW m \in Merchs, NEW a \in Accounts, NEW h \in Hashes,
             verify(m, a, h)
      PROVE  TypeOK'
  <2>1. Verify(m, a, TRUE) \in Event /\ Verify(m, a, FALSE) \in Event
    BY DEF Verify, Event
  <2>2. CASE RequestAgain(m, a)
    <3>1. log' \in Seq(Event)
      BY <2>1, <2>2 DEF RequestAgain, Verify
    <3>2. trialCount' \in [Merchs -> Nat]
      BY <2>2 DEF RequestAgain
    <3>3. UNCHANGED <<merchandiseState, progressBuyer, confirmedBuyers, settled>>
      BY <2>2 DEF RequestAgain
    <3>4. QED
      BY <1>5, <3>1, <3>2, <3>3 DEF verify
  <2>3. CASE Ban(m)
    <3>1. trialCount' \in [Merchs -> Nat]
      BY <2>3 DEF Ban
    <3>2. merchandiseState' \in [Merchs -> MerchandiseState]
      BY <2>3 DEF Ban
    <3>3. QED
      BY <1>5, <2>3, <3>1, <3>2 DEF verify, Ban
  <2>4. CASE Confirm(m, a)
    <3>1. log' \in Seq(Event)
      BY <2>1, <2>4 DEF Confirm, Verify
    <3>2. /\ trialCount' \in [Merchs -> Nat]
          /\ merchandiseState' \in [Merchs -> MerchandiseState]
      BY <2>4 DEF Confirm
    <3>3. /\ progressBuyer' \in [Merchs -> Accounts \cup {NoAccount}]
          /\ confirmedBuyers' \in [Merchs -> SUBSET Accounts]
      BY <2>4 DEF Confirm
    <3>4. settled' \in [Merchs -> Nat]
      BY <2>4 DEF Confirm
    <3>5. QED
      BY <1>5, <3>1, <3>2, <3>3, <3>4 DEF verify
  <2>5. QED
    BY <1>5, <2>2, <2>3, <2>4 DEF verify
<1>6. ASSUME NEW m \in Merchs, NEW a \in Accounts, withdraw(m, a)
      PROVE  TypeOK'
  <2>1. taken' \in [Merchs -> Nat]
    BY <1>6 DEF withdraw
  <2>2. QED
    BY <1>6, <2>1 DEF withdraw
<1>7. ASSUME NEW m \in Merchs, NEW a \in Accounts, NEW u \in Uris,
             emitUpload(m, a, u)
      PROVE  TypeOK'
  <2>1. progressBuyer[m] \in Accounts
    BY <1>7 DEF emitUpload, CanEmitUpload, SaleStateConsistent, SaleStateOK
  <2>2. Upload(m, progressBuyer[m], u) \in Event
    BY <2>1 DEF Upload, Event
  <2>3. log' \in Seq(Event)
    BY <1>7, <2>2 DEF emitUpload
  <2>4. QED
    BY <1>7, <2>3 DEF emitUpload
<1>8. CASE UNCHANGED vars
  BY <1>8 DEF vars
<1>9. QED
  BY <1>1, <1>2, <1>3, <1>4, <1>5, <1>6, <1>7, <1>8 DEF Next

\* Every step of a contract keeps its sale state consistent.
LEMMA SaleStateStep == Inv /\ [Next]_vars => SaleStateConsistent'
<1> SUFFICES ASSUME Inv, [Next]_vars, NEW n \in Merchs
             PROVE  SaleStateOK(n)'
  BY DEF SaleStateConsistent
<1>0. SaleStateOK(n)
  BY DEF Inv, SaleStateConsistent
<1> USE ContractAssumption DEF Inv, TypeOK, MerchandiseState, deployed
<1>1. ASSUME NEW a \in Accounts, NEW k \in Keys, registerKey(a, k)
      PROVE  SaleStateOK(n)'
  BY <1>0, <1>1 DEF registerKey, SaleStateOK
<1>2. ASSUME NEW m \in Merchs, NEW a \in Accounts, NEW h \in Hashes,
             constructor(m, a, h)
      PROVE  SaleStateOK(n)'
  BY <1>0, <1>2 DEF constructor, SaleStateOK
<1>3. ASSUME NEW m \in Merchs, registerMerchandise(m)
      PROVE  SaleStateOK(n)'
  BY <1>0, <1>3 DEF registerMerchandise, SaleStateOK
<1>4. ASSUME NEW m \in Merchs, NEW a \in Accounts, NEW v \in Payments,
             purchase(m, a, v)
      PROVE  SaleStateOK(n)'
  <2>1. m \in deployed /\ merchandiseState[m] = "SALE" /\ a \notin Denied \cup confirmedBuyers[m]
    BY <1>4 DEF purchase, CanPurchase
  <2>2. CASE n = m
    BY <1>0, <1>4, <2>1, <2>2 DEF purchase, SaleStateOK
  <2>3. CASE n # m
    BY <1>0, <1>4, <2>3 DEF purchase, SaleStateOK
  <2>4. QED
    BY <2>2, <2>3
<1>5. ASSUME NEW m \in Merchs, NEW a \in Accounts, NEW h \in Hashes,
             verify(m, a, h)
      PROVE  SaleStateOK(n)'
  <2>1. CASE RequestAgain(m, a)
    BY <1>0, <1>5, <2>1 DEF verify, CanVerify, RequestAgain, SaleStateOK
  <2>2. CASE Ban(m)
    BY <1>0, <1>5, <2>2 DEF verify, CanVerify, Ban, SaleStateOK
  <2>3. CASE Confirm(m, a)
    BY <1>0, <1>5, <2>3 DEF verify, CanVerify, Confirm, SaleStateOK
  <2>4. QED
    BY <1>5, <2>1, <2>2, <2>3 DEF verify
<1>6. ASSUME NEW m \in Merchs, NEW a \in Accounts, withdraw(m, a)
      PROVE  SaleStateOK(n)'
  BY <1>0, <1>6 DEF withdraw, SaleStateOK
<1>7. ASSUME NEW m \in Merchs, NEW a \in Accounts, NEW u \in Uris,
             emitUpload(m, a, u)
      PROVE  SaleStateOK(n)'
  BY <1>0, <1>7 DEF emitUpload, SaleStateOK
<1>8. CASE UNCHANGED vars
  BY <1>0, <1>8 DEF vars, SaleStateOK
<1>9. QED
  BY <1>1, <1>2, <1>3, <1>4, <1>5, <1>6, <1>7, <1>8 DEF Next

\* Types and sale states are kept by every behaviour of the contracts.
THEOREM InvAlways == Spec => []Inv
<1>1. Inv /\ [Next]_vars => Inv'
  BY TypeStep, SaleStateStep DEF Inv
<1>2. QED
  BY InitInv, <1>1, PTL DEF Spec

\* TypeOK: every contract variable keeps its type.
THEOREM TypeCorrect == Spec => []TypeOK
<1>1. Inv => TypeOK
  BY DEF Inv
<1>2. QED
  BY InvAlways, <1>1, PTL

\* SaleStateConsistent: purchase() and verify() keep state, buyer and trial
\* counter in step, and neither a denied nor a served account is the buyer.
THEOREM SaleStates == Spec => []SaleStateConsistent
<1>1. Inv => SaleStateConsistent
  BY DEF Inv
<1>2. QED
  BY InvAlways, <1>1, PTL
-----------------------------------------------------------------------------
\* Every step keeps the books of every contract.
LEMMA FundsStep == Inv /\ FundsAccounted /\ [Next]_vars => FundsAccounted'
<1> SUFFICES ASSUME Inv, FundsAccounted, [Next]_vars, NEW n \in Merchs
             PROVE  FundsOK(n)'
  BY DEF FundsAccounted
<1>0. FundsOK(n) /\ SaleStateOK(n)
  BY DEF Inv, SaleStateConsistent, FundsAccounted
<1> USE ContractAssumption DEF Inv, TypeOK, MerchandiseState
<1>1. ASSUME NEW a \in Accounts, NEW k \in Keys, registerKey(a, k)
      PROVE  FundsOK(n)'
  BY <1>0, <1>1 DEF registerKey, FundsOK, escrow
<1>2. ASSUME NEW m \in Merchs, NEW a \in Accounts, NEW h \in Hashes,
             constructor(m, a, h)
      PROVE  FundsOK(n)'
  BY <1>0, <1>2 DEF constructor, FundsOK, escrow
<1>3. ASSUME NEW m \in Merchs, registerMerchandise(m)
      PROVE  FundsOK(n)'
  BY <1>0, <1>3 DEF registerMerchandise, FundsOK, escrow
<1>4. ASSUME NEW m \in Merchs, NEW b \in Accounts, NEW v \in Payments,
             purchase(m, b, v)
      PROVE  FundsOK(n)'
  <2>1. v \in Nat /\ v >= Price
    BY <1>4 DEF purchase, CanPurchase
  <2>2. CASE n # m
    BY <1>0, <1>4, <2>2 DEF purchase, CanPurchase, FundsOK, escrow
  <2>3. CASE n = m
    <3>1. progressBuyer[m] = NoAccount /\ b \notin confirmedBuyers[m]
      BY <1>0, <1>4, <2>3 DEF purchase, CanPurchase, SaleStateOK
    <3>2. paid[m][b] = 0
      BY <1>0, <2>3, <3>1 DEF FundsOK
    <3>3. /\ paid'[m] = [paid[m] EXCEPT ![b] = v]
          /\ progressBuyer'[m] = b
          /\ confirmedBuyers'[m] = confirmedBuyers[m]
      BY <1>4, <2>1, <3>2 DEF purchase, CanPurchase
    <3>4. balance'[m] = balance[m] + v /\ taken'[m] = taken[m] /\ settled'[m] = settled[m]
      BY <1>4 DEF purchase, CanPurchase
    <3>5. balance[m] + taken[m] = settled[m]
      BY <1>0, <2>3, <3>1 DEF FundsOK, escrow
    <3>6. escrow(m)' = v
      BY <3>3 DEF escrow
    <3>7. balance'[m] + taken'[m] = settled'[m] + escrow(m)'
      BY <2>1, <3>4, <3>5, <3>6
    <3>8. ASSUME NEW a \in Accounts
          PROVE  IF a \in confirmedBuyers'[m] \cup {progressBuyer'[m]}
                 THEN paid'[m][a] >= Price
                 ELSE paid'[m][a] = 0
      BY <1>0, <2>1, <2>3, <3>1, <3>3 DEF FundsOK
    <3>9. QED
      BY <2>3, <3>7, <3>8 DEF FundsOK
  <2>4. QED
    BY <2>2, <2>3
<1>5. ASSUME NEW m \in Merchs, NEW b \in Accounts, NEW h \in Hashes,
             verify(m, b, h)
      PROVE  FundsOK(n)'
  <2>1. progressBuyer[m] = b
    BY <1>5 DEF verify, CanVerify
  <2>2. CASE RequestAgain(m, b)
    BY <1>0, <1>5, <2>2 DEF verify, RequestAgain, FundsOK, escrow
  <2>3. CASE Ban(m)
    BY <1>0, <1>5, <2>3 DEF verify, Ban, FundsOK, escrow
  <2>4. CASE Confirm(m, b) /\ n # m
    BY <1>0, <1>5, <2>4 DEF verify, Confirm, FundsOK, escrow
  <2>5. CASE Confirm(m, b) /\ n = m
    <3>1. /\ settled'[m] = settled[m] + paid[m][b]
          /\ progressBuyer'[m] = NoAccount
          /\ confirmedBuyers'[m] = confirmedBuyers[m] \cup {b}
      BY <2>5 DEF Confirm
    <3>2. paid' = paid /\ balance' = balance /\ taken' = taken
      BY <1>5 DEF verify
    <3>3. balance[m] + taken[m] = settled[m] + paid[m][b]
      BY <1>0, <2>1, <2>5 DEF FundsOK, escrow
    <3>4. balance'[m] + taken'[m] = settled'[m] + escrow(m)'
      BY <3>1, <3>2, <3>3 DEF escrow
    <3>5. ASSUME NEW a \in Accounts
          PROVE  IF a \in confirmedBuyers'[m] \cup {progressBuyer'[m]}
                 THEN paid'[m][a] >= Price
                 ELSE paid'[m][a] = 0
      BY <1>0, <2>1, <2>5, <3>1, <3>2 DEF FundsOK
    <3>6. QED
      BY <2>5, <3>4, <3>5 DEF FundsOK
  <2>6. QED
    BY <1>5, <2>2, <2>3, <2>4, <2>5 DEF verify
<1>6. ASSUME NEW m \in Merchs, NEW a \in Accounts, withdraw(m, a)
      PROVE  FundsOK(n)'
  <2>1. balance'[n] + taken'[n] = balance[n] + taken[n]
    BY <1>6 DEF withdraw
  <2>2. paid' = paid /\ settled' = settled /\ progressBuyer' = progressBuyer
          /\ confirmedBuyers' = confirmedBuyers
    BY <1>6 DEF withdraw
  <2>3. QED
    BY <1>0, <2>1, <2>2 DEF FundsOK, escrow
<1>7. ASSUME NEW m \in Merchs, NEW a \in Accounts, NEW u \in Uris,
             emitUpload(m, a, u)
      PROVE  FundsOK(n)'
  BY <1>0, <1>7 DEF emitUpload, FundsOK, escrow
<1>8. CASE UNCHANGED vars
  BY <1>0, <1>8 DEF vars, FundsOK, escrow
<1>9. QED
  BY <1>1, <1>2, <1>3, <1>4, <1>5, <1>6, <1>7, <1>8 DEF Next

\* FundsAccounted: what the contract holds and its owner took is what served
\* buyers and the buyer in progress paid, each of them once.
THEOREM Funds == Spec => []FundsAccounted
<1>1. Init => FundsAccounted
  BY ContractAssumption DEF Init, FundsAccounted, FundsOK, escrow
<1>2. QED
  BY <1>1, InvAlways, FundsStep, PTL DEF Spec

-----------------------------------------------------------------------------
(***************************************************************************)
(* Refinement of Orders.  OrderStatus of every contract and account is     *)
(* computed from three variables; the lemmas say how a step that changes   *)
(* one of them changes it.                                                 *)
(***************************************************************************)
statusBar == [m \in Merchs |-> [b \in Accounts |-> OrderStatus(m, b)]]

\* A step that leaves state, buyer and confirmed buyers alone leaves the abstract orders alone.
LEMMA StatusUnchanged ==
  ASSUME UNCHANGED <<merchandiseState, progressBuyer, confirmedBuyers>>
  PROVE  UNCHANGED statusBar
  BY DEF statusBar, OrderStatus

\* A step that changes the sale of m only, and there the status of b only.
LEMMA StatusChange ==
  ASSUME NEW m \in Merchs, NEW b \in Accounts, NEW s,
         OrderStatus(m, b)' = s,
         \A n \in Merchs, a \in Accounts :
           <<n, a>> # <<m, b>> => OrderStatus(n, a)' = OrderStatus(n, a)
  PROVE  statusBar' = [statusBar EXCEPT ![m][b] = s]
<1>1. statusBar' = [n \in Merchs |-> [a \in Accounts |-> OrderStatus(n, a)']]
  BY DEF statusBar
<1>2. [statusBar EXCEPT ![m][b] = s] =
        [n \in Merchs |-> [a \in Accounts |->
           IF n = m /\ a = b THEN s ELSE OrderStatus(n, a)]]
  BY DEF statusBar
<1>3. QED
  BY <1>1, <1>2

\* Every step of the contracts is a step of Orders or leaves the orders alone.
LEMMA OrdersStep == Inv /\ [Next]_vars => [Sale!Next]_statusBar
<1> SUFFICES ASSUME Inv, [Next]_vars
             PROVE  Sale!Next \/ UNCHANGED statusBar
  OBVIOUS
<1> USE ContractAssumption DEF Inv, TypeOK, MerchandiseState
<1>1. ASSUME NEW a \in Accounts, NEW k \in Keys, registerKey(a, k)
      PROVE  UNCHANGED statusBar
  BY <1>1, StatusUnchanged DEF registerKey
<1>2. ASSUME NEW m \in Merchs, NEW a \in Accounts, NEW h \in Hashes,
             constructor(m, a, h)
      PROVE  UNCHANGED statusBar
  BY <1>2, StatusUnchanged DEF constructor
<1>3. ASSUME NEW m \in Merchs, registerMerchandise(m)
      PROVE  UNCHANGED statusBar
  BY <1>3, StatusUnchanged DEF registerMerchandise
<1>4. ASSUME NEW m \in Merchs, NEW b \in Accounts, NEW v \in Payments,
             purchase(m, b, v)
      PROVE  Sale!Next
  <2>1. SaleStateOK(m)
    BY DEF SaleStateConsistent
  <2>2. /\ progressBuyer[m] = NoAccount
        /\ b \notin confirmedBuyers[m]
        /\ merchandiseState[m] = "SALE"
    BY <1>4, <2>1 DEF purchase, CanPurchase, SaleStateOK
  <2>3. /\ merchandiseState' = [merchandiseState EXCEPT ![m] = "IN_PROGRESS"]
        /\ progressBuyer' = [progressBuyer EXCEPT ![m] = b]
        /\ confirmedBuyers' = confirmedBuyers
    BY <1>4 DEF purchase, CanPurchase
  <2>4. OrderStatus(m, b)' = "pending"
    BY <2>2, <2>3 DEF OrderStatus
  <2>5. \A n \in Merchs, a \in Accounts :
          <<n, a>> # <<m, b>> => OrderStatus(n, a)' = OrderStatus(n, a)
    BY <2>2, <2>3 DEF OrderStatus
  <2>6. statusBar' = [statusBar EXCEPT ![m][b] = "pending"]
    BY <2>4, <2>5, StatusChange
  <2>7. \A a \in Accounts : OrderStatus(m, a) \in {"none", "delivered"}
    BY <2>2 DEF OrderStatus
  <2>8. OrderStatus(m, b) = "none"
    BY <2>2 DEF OrderStatus
  <2>9. Sale!Order(m, b)
    BY <2>6, <2>7, <2>8 DEF Sale!Order, Sale!ForSale, statusBar
  <2>10. QED
    BY <2>9 DEF Sale!Next
<1>5. ASSUME NEW m \in Merchs, NEW b \in Accounts, NEW h \in Hashes,
             verify(m, b, h)
      PROVE  Sale!Next \/ UNCHANGED statusBar
  <2>1. SaleStateOK(m)
    BY DEF SaleStateConsistent
  <2>2. /\ progressBuyer[m] = b
        /\ b \notin confirmedBuyers[m]
        /\ merchandiseState[m] = "IN_PROGRESS"
    BY <1>5, <2>1 DEF verify, CanVerify, SaleStateOK
  <2>3. OrderStatus(m, b) = "pending"
    BY <2>2 DEF OrderStatus
  <2>4. CASE RequestAgain(m, b)
    BY <2>4, StatusUnchanged DEF RequestAgain
  <2>5. CASE Ban(m)
    <3>1. /\ merchandiseState' = [merchandiseState EXCEPT ![m] = "BANNED"]
          /\ UNCHANGED <<progressBuyer, confirmedBuyers>>
      BY <2>5 DEF Ban
    <3>2. OrderStatus(m, b)' = "forfeited"
      BY <2>2, <3>1 DEF OrderStatus
    <3>3. \A n \in Merchs, a \in Accounts :
            <<n, a>> # <<m, b>> => OrderStatus(n, a)' = OrderStatus(n, a)
      BY <2>2, <3>1 DEF OrderStatus
    <3>4. statusBar' = [statusBar EXCEPT ![m][b] = "forfeited"]
      BY <3>2, <3>3, StatusChange
    <3>5. Sale!Forfeit(m, b)
      BY <2>3, <3>4 DEF Sale!Forfeit, statusBar
    <3>6. QED
      BY <3>5 DEF Sale!Next
  <2>6. CASE Confirm(m, b)
    <3>1. /\ merchandiseState' = [merchandiseState EXCEPT ![m] = "SALE"]
          /\ progressBuyer' = [progressBuyer EXCEPT ![m] = NoAccount]
          /\ confirmedBuyers' = [confirmedBuyers EXCEPT ![m] = @ \cup {b}]
      BY <2>6 DEF Confirm
    <3>2. OrderStatus(m, b)' = "delivered"
      BY <3>1 DEF OrderStatus
    <3>3. \A n \in Merchs, a \in Accounts :
            <<n, a>> # <<m, b>> => OrderStatus(n, a)' = OrderStatus(n, a)
      BY <2>2, <3>1 DEF OrderStatus
    <3>4. statusBar' = [statusBar EXCEPT ![m][b] = "delivered"]
      BY <3>2, <3>3, StatusChange
    <3>5. Sale!Deliver(m, b)
      BY <2>3, <3>4 DEF Sale!Deliver, statusBar
    <3>6. QED
      BY <3>5 DEF Sale!Next
  <2>7. QED
    BY <1>5, <2>4, <2>5, <2>6 DEF verify
<1>6. ASSUME NEW m \in Merchs, NEW a \in Accounts, withdraw(m, a)
      PROVE  UNCHANGED statusBar
  BY <1>6, StatusUnchanged DEF withdraw
<1>7. ASSUME NEW m \in Merchs, NEW a \in Accounts, NEW u \in Uris,
             emitUpload(m, a, u)
      PROVE  UNCHANGED statusBar
  BY <1>7, StatusUnchanged DEF emitUpload
<1>8. CASE UNCHANGED vars
  BY <1>8, StatusUnchanged DEF vars
<1>9. QED
  BY <1>1, <1>2, <1>3, <1>4, <1>5, <1>6, <1>7, <1>8 DEF Next

\* ImplementsOrders: each contract sells to one buyer at a time and to each
\* buyer once, and a ban is for ever, as Orders demands.
THEOREM Refinement == Spec => ImplementsOrders
<1>1. Init => Sale!Init
  BY ContractAssumption DEF Init, Sale!Init, OrderStatus
<1>2. Inv /\ [Next]_vars => [Sale!Next]_statusBar
  BY OrdersStep
<1>3. QED
  BY <1>1, <1>2, InvAlways, PTL DEF Spec, ImplementsOrders, Sale!Spec, statusBar
-----------------------------------------------------------------------------
(***************************************************************************)
(* The log.  What it says of a contract and an account are three sets of   *)
(* positions; an appended event adds its position to at most one of them.  *)
(***************************************************************************)
\* A set of positions is finite, and a further position counts once.
LEMMA OneMore ==
  ASSUME NEW n \in Nat, NEW S \in SUBSET (1..n)
  PROVE  Cardinality(S) \in Nat /\ Cardinality(S \cup {n + 1}) = Cardinality(S) + 1
<1>1. IsFiniteSet(1..n)
  BY FS_Interval
<1>2. IsFiniteSet(S)
  BY <1>1, FS_Subset
<1>3. n + 1 \notin S
  OBVIOUS
<1>4. QED
  BY <1>2, <1>3, FS_AddElement, FS_CardinalityType

\* An appended event takes the next position.
LEMMA Appended ==
  ASSUME NEW l \in Seq(Event), NEW e
  PROVE  /\ Len(l) \in Nat /\ DOMAIN l = 1..Len(l) /\ DOMAIN Append(l, e) = DOMAIN l \cup {Len(l) + 1}
         /\ Append(l, e)[Len(l) + 1] = e /\ \A i \in DOMAIN l : Append(l, e)[i] = l[i]
<1>1. /\ DOMAIN l = 1..Len(l) /\ DOMAIN Append(l, e) = 1..(Len(l) + 1) /\ Len(l) \in Nat
      /\ Append(l, e)[Len(l) + 1] = e /\ \A i \in 1..Len(l) : Append(l, e)[i] = l[i]
  OBVIOUS
<1>2. 1..(Len(l) + 1) = (1..Len(l)) \cup {Len(l) + 1}
  BY <1>1
<1>3. QED
  BY <1>1, <1>2

\* The positions at which a log tells of a purchase, a match and a mismatch, and how many they are.
Match(m, b) == Verify(m, b, TRUE)
Mismatch(m, b) == Verify(m, b, FALSE)
PurchasesIn(l, m, b) == {i \in DOMAIN l : l[i].event = "Purchase" /\ l[i].address = m /\ l[i].buyer = b}
MatchesIn(l, m, b) == {i \in DOMAIN l : l[i] = Match(m, b)}
MismatchesIn(l, m, b) == {i \in DOMAIN l : l[i] = Mismatch(m, b)}
Purchases(l, m, b) == Cardinality(PurchasesIn(l, m, b))
Matches(l, m, b) == Cardinality(MatchesIn(l, m, b))
Mismatches(l, m, b) == Cardinality(MismatchesIn(l, m, b))

\* What the log says after a step is what the log after the step says.
LEMMA LogPrimes ==
  ASSUME NEW m, NEW b
  PROVE  /\ Purchases(log, m, b)' = Purchases(log', m, b)
         /\ Matches(log, m, b)' = Matches(log', m, b)
         /\ Mismatches(log, m, b)' = Mismatches(log', m, b)
  BY DEF Purchases, PurchasesIn, Matches, MatchesIn, Mismatches, MismatchesIn, Match, Mismatch, Verify

\* What an appended event adds to the number of purchases.
LEMMA PurchaseCounts ==
  ASSUME NEW l \in Seq(Event), NEW m, NEW b, NEW e
  PROVE  /\ Purchases(l, m, b) \in Nat
         /\ Purchases(Append(l, e), m, b) = Purchases(l, m, b) +
              IF e.event = "Purchase" /\ e.address = m /\ e.buyer = b THEN 1 ELSE 0
<1>1. Len(l) \in Nat /\ PurchasesIn(l, m, b) \in SUBSET (1..Len(l))
  BY DEF PurchasesIn
<1>2. /\ Purchases(l, m, b) \in Nat
      /\ Cardinality(PurchasesIn(l, m, b) \cup {Len(l) + 1}) = Purchases(l, m, b) + 1
  BY <1>1, OneMore DEF Purchases
<1>3. PurchasesIn(Append(l, e), m, b) =
        IF e.event = "Purchase" /\ e.address = m /\ e.buyer = b
        THEN PurchasesIn(l, m, b) \cup {Len(l) + 1} ELSE PurchasesIn(l, m, b)
  BY <1>1, Appended DEF PurchasesIn
<1>4. Purchases(Append(l, e), m, b) = Purchases(l, m, b) +
        IF e.event = "Purchase" /\ e.address = m /\ e.buyer = b THEN 1 ELSE 0
  <2>1. CASE e.event = "Purchase" /\ e.address = m /\ e.buyer = b
    BY <1>2, <1>3, <2>1 DEF Purchases
  <2>2. CASE ~(e.event = "Purchase" /\ e.address = m /\ e.buyer = b)
    <3>1. Purchases(Append(l, e), m, b) = Purchases(l, m, b)
      BY <1>3, <2>2 DEF Purchases
    <3>2. QED
      BY <1>2, <2>2, <3>1
  <2>3. QED
    BY <2>1, <2>2
<1>5. QED
  BY <1>2, <1>4

\* What it adds to the number of matches.
LEMMA MatchCounts ==
  ASSUME NEW l \in Seq(Event), NEW m, NEW b, NEW e
  PROVE  /\ Matches(l, m, b) \in Nat
         /\ Matches(Append(l, e), m, b) = Matches(l, m, b) + IF e = Match(m, b) THEN 1 ELSE 0
<1>1. Len(l) \in Nat /\ MatchesIn(l, m, b) \in SUBSET (1..Len(l))
  BY DEF MatchesIn
<1>2. /\ Matches(l, m, b) \in Nat
      /\ Cardinality(MatchesIn(l, m, b) \cup {Len(l) + 1}) = Matches(l, m, b) + 1
  BY <1>1, OneMore DEF Matches
<1>3. MatchesIn(Append(l, e), m, b) =
        IF e = Match(m, b) THEN MatchesIn(l, m, b) \cup {Len(l) + 1} ELSE MatchesIn(l, m, b)
  BY <1>1, Appended DEF MatchesIn
<1>4. Matches(Append(l, e), m, b) = Matches(l, m, b) + IF e = Match(m, b) THEN 1 ELSE 0
  <2>1. CASE e = Match(m, b)
    BY <1>2, <1>3, <2>1 DEF Matches
  <2>2. CASE e # Match(m, b)
    <3>1. Matches(Append(l, e), m, b) = Matches(l, m, b)
      BY <1>3, <2>2 DEF Matches
    <3>2. QED
      BY <1>2, <2>2, <3>1
  <2>3. QED
    BY <2>1, <2>2
<1>5. QED
  BY <1>2, <1>4

\* What it adds to the number of mismatches.
LEMMA MismatchCounts ==
  ASSUME NEW l \in Seq(Event), NEW m, NEW b, NEW e
  PROVE  /\ Mismatches(l, m, b) \in Nat
         /\ Mismatches(Append(l, e), m, b) = Mismatches(l, m, b) + IF e = Mismatch(m, b) THEN 1 ELSE 0
<1>1. Len(l) \in Nat /\ MismatchesIn(l, m, b) \in SUBSET (1..Len(l))
  BY DEF MismatchesIn
<1>2. /\ Mismatches(l, m, b) \in Nat
      /\ Cardinality(MismatchesIn(l, m, b) \cup {Len(l) + 1}) = Mismatches(l, m, b) + 1
  BY <1>1, OneMore DEF Mismatches
<1>3. MismatchesIn(Append(l, e), m, b) =
        IF e = Mismatch(m, b) THEN MismatchesIn(l, m, b) \cup {Len(l) + 1} ELSE MismatchesIn(l, m, b)
  BY <1>1, Appended DEF MismatchesIn
<1>4. Mismatches(Append(l, e), m, b) = Mismatches(l, m, b) + IF e = Mismatch(m, b) THEN 1 ELSE 0
  <2>1. CASE e = Mismatch(m, b)
    BY <1>2, <1>3, <2>1 DEF Mismatches
  <2>2. CASE e # Mismatch(m, b)
    <3>1. Mismatches(Append(l, e), m, b) = Mismatches(l, m, b)
      BY <1>3, <2>2 DEF Mismatches
    <3>2. QED
      BY <1>2, <2>2, <3>1
  <2>3. QED
    BY <2>1, <2>2
<1>5. QED
  BY <1>2, <1>4

(***************************************************************************)
(* LogTellsState is not inductive alone: that a new buyer starts with no   *)
(* failed trials in the log holds because an account that is not and was   *)
(* not a buyer has no verdicts there.                                      *)
(***************************************************************************)
Tells(m, b) ==
  /\ Purchases(log, m, b) =
       IF b \in confirmedBuyers[m] \cup {progressBuyer[m]} THEN 1 ELSE 0
  /\ Matches(log, m, b) = IF b \in confirmedBuyers[m] THEN 1 ELSE 0
  /\ b = progressBuyer[m] =>
       Mismatches(log, m, b) =
         IF merchandiseState[m] = "BANNED" THEN trialCount[m] - 1 ELSE trialCount[m]
  /\ b \notin confirmedBuyers[m] \cup {progressBuyer[m]} => Mismatches(log, m, b) = 0
LogTells == \A m \in Merchs, b \in Accounts : Tells(m, b)

\* Every step of a contract that is told in the log changes what it tells.
LEMMA LogTellsStep == Inv /\ LogTells /\ [Next]_vars => LogTells'
<1> SUFFICES ASSUME Inv, LogTells, [Next]_vars, NEW n \in Merchs, NEW a \in Accounts
             PROVE  Tells(n, a)'
  BY DEF LogTells
<1>0. Tells(n, a) /\ TypeOK /\ (\A m \in Merchs : SaleStateOK(m)) /\ RETRY_LIMIT \in Nat \ {0}
  BY ContractAssumption DEF LogTells, Inv, SaleStateConsistent
<1>t. /\ owner \in [Merchs -> Accounts \cup {NoAccount}] /\ NoAccount \notin Accounts
      /\ merchandiseState \in [Merchs -> MerchandiseState] /\ trialCount \in [Merchs -> Nat]
      /\ progressBuyer \in [Merchs -> Accounts \cup {NoAccount}] /\ confirmedBuyers \in [Merchs -> SUBSET Accounts]
  BY <1>0, ContractAssumption DEF TypeOK
<1>l. log \in Seq(Event)
  BY <1>0 DEF TypeOK
<1>c. /\ Purchases(log, n, a) \in Nat
      /\ Matches(log, n, a) \in Nat /\ Mismatches(log, n, a) \in Nat
  BY <1>l, PurchaseCounts, MatchCounts, MismatchCounts
<1>p. /\ Purchases(log, n, a)' = Purchases(log', n, a)
      /\ Matches(log, n, a)' = Matches(log', n, a)
      /\ Mismatches(log, n, a)' = Mismatches(log', n, a)
  BY LogPrimes
<1>1. ASSUME UNCHANGED <<merchandiseState, trialCount, progressBuyer, confirmedBuyers, log>>
      PROVE  Tells(n, a)'
  BY <1>0, <1>1, <1>p DEF Tells
<1>2. ASSUME NEW m \in Merchs, NEW b \in Accounts, NEW v \in Payments, purchase(m, b, v)
      PROVE  Tells(n, a)'
  <2>1. PICK e : e = Purchase(m, b, getPubKey(b))
    OBVIOUS
  <2>2. /\ e.event = "Purchase" /\ e.address = m /\ e.buyer = b
        /\ e # Match(n, a) /\ e # Mismatch(n, a)
    BY <2>1 DEF Purchase, Verify, Match, Mismatch
  <2>3. /\ log' = Append(log, e) /\ merchandiseState' = [merchandiseState EXCEPT ![m] = "IN_PROGRESS"]
        /\ progressBuyer' = [progressBuyer EXCEPT ![m] = b] /\ UNCHANGED <<trialCount, confirmedBuyers>>
        /\ merchandiseState[m] = "SALE" /\ b \notin confirmedBuyers[m]
    BY <1>2, <2>1 DEF purchase, CanPurchase
  <2>4. /\ Purchases(log', n, a) = Purchases(log, n, a) + IF n = m /\ a = b THEN 1 ELSE 0
        /\ Matches(log', n, a) = Matches(log, n, a)
        /\ Mismatches(log', n, a) = Mismatches(log, n, a)
    <3>1. Purchases(log', n, a) = Purchases(log, n, a) + IF n = m /\ a = b THEN 1 ELSE 0
      BY <1>l, <2>2, <2>3, PurchaseCounts
    <3>2. Matches(log', n, a) = Matches(log, n, a)
      BY <1>l, <1>c, <2>2, <2>3, MatchCounts, MismatchCounts
    <3>3. Mismatches(log', n, a) = Mismatches(log, n, a)
      BY <1>l, <1>c, <2>2, <2>3, MatchCounts, MismatchCounts
    <3>4. QED
      BY <3>1, <3>2, <3>3
  <2>5. progressBuyer[m] = NoAccount /\ trialCount[m] = 0
    BY <1>0, <2>3 DEF SaleStateOK
  <2>6. QED
    <3>1. CASE n = m
      <4>1. /\ progressBuyer'[n] = b /\ confirmedBuyers'[n] = confirmedBuyers[n]
            /\ merchandiseState'[n] = "IN_PROGRESS" /\ trialCount'[n] = 0
        BY <1>t, <2>3, <2>5, <3>1
      <4>2. QED
        BY <1>0, <1>t, <1>c, <2>3, <2>4, <2>5, <3>1, <4>1, <1>p DEF Tells
    <3>2. CASE n # m
      <4>1. /\ progressBuyer'[n] = progressBuyer[n] /\ confirmedBuyers'[n] = confirmedBuyers[n]
            /\ merchandiseState'[n] = merchandiseState[n] /\ trialCount'[n] = trialCount[n]
        BY <1>t, <2>3, <3>2
      <4>2. QED
        BY <1>0, <1>c, <2>4, <3>2, <4>1, <1>p DEF Tells
    <3>3. QED
      BY <3>1, <3>2
<1>3. ASSUME NEW m \in Merchs, NEW b \in Accounts, NEW h \in Hashes, verify(m, b, h)
      PROVE  Tells(n, a)'
  <2>1. /\ merchandiseState[m] = "IN_PROGRESS" /\ progressBuyer[m] = b /\ b \notin confirmedBuyers[m]
        /\ trialCount[m] \in Nat
    BY <1>0, <1>t, <1>3 DEF verify, CanVerify, SaleStateOK
  <2>2. CASE RequestAgain(m, b)
    <3>1. PICK e : e = Mismatch(m, b)
      OBVIOUS
    <3>2. /\ e.event # "Purchase" /\ e # Match(n, a)
          /\ e = Mismatch(n, a) <=> m = n /\ b = a
      BY <3>1 DEF Verify, Match, Mismatch
    <3>3. /\ Purchases(log', n, a) = Purchases(log, n, a)
          /\ Matches(log', n, a) = Matches(log, n, a)
          /\ Mismatches(log', n, a) =
               Mismatches(log, n, a) + IF n = m /\ a = b THEN 1 ELSE 0
      <4>1. log' = Append(log, e)
        BY <2>2, <3>1 DEF RequestAgain, Match, Mismatch
      <4>2. Purchases(log', n, a) = Purchases(log, n, a)
        BY <1>l, <1>c, <3>2, <4>1, PurchaseCounts
      <4>3. Matches(log', n, a) = Matches(log, n, a) + IF e = Match(n, a) THEN 1 ELSE 0
        BY <1>l, <4>1, MatchCounts
      <4>4. Mismatches(log', n, a) = Mismatches(log, n, a) + IF e = Mismatch(n, a) THEN 1 ELSE 0
        BY <1>l, <4>1, MismatchCounts
      <4>5. QED
        BY <1>c, <3>2, <4>2, <4>3, <4>4
    <3>4. /\ trialCount' = [trialCount EXCEPT ![m] = trialCount[m] + 1]
          /\ UNCHANGED <<merchandiseState, progressBuyer, confirmedBuyers>>
      BY <2>2 DEF RequestAgain
    <3>5. QED
      BY <1>0, <1>t, <1>c, <2>1, <3>3, <3>4, <1>p DEF Tells
  <2>3. CASE Ban(m)
    <3>1. /\ trialCount' = [trialCount EXCEPT ![m] = trialCount[m] + 1] /\ UNCHANGED <<log, progressBuyer, confirmedBuyers>>
          /\ merchandiseState' = [merchandiseState EXCEPT ![m] = "BANNED"]
      BY <2>3 DEF Ban
    <3>2. QED
      BY <1>0, <1>t, <1>c, <2>1, <3>1, <1>p DEF Tells
  <2>4. CASE Confirm(m, b)
    <3>1. PICK e : e = Match(m, b)
      OBVIOUS
    <3>2. /\ e.event # "Purchase" /\ e # Mismatch(n, a)
          /\ e = Match(n, a) <=> m = n /\ b = a
      BY <3>1 DEF Verify, Match, Mismatch
    <3>3. /\ Purchases(log', n, a) = Purchases(log, n, a)
          /\ Mismatches(log', n, a) = Mismatches(log, n, a)
          /\ Matches(log', n, a) =
               Matches(log, n, a) + IF n = m /\ a = b THEN 1 ELSE 0
      <4>1. log' = Append(log, e)
        BY <2>4, <3>1 DEF Confirm, Match, Mismatch
      <4>2. Purchases(log', n, a) = Purchases(log, n, a)
        BY <1>l, <1>c, <3>2, <4>1, PurchaseCounts
      <4>3. Matches(log', n, a) = Matches(log, n, a) + IF e = Match(n, a) THEN 1 ELSE 0
        BY <1>l, <4>1, MatchCounts
      <4>4. Mismatches(log', n, a) = Mismatches(log, n, a) + IF e = Mismatch(n, a) THEN 1 ELSE 0
        BY <1>l, <4>1, MismatchCounts
      <4>5. QED
        BY <1>c, <3>2, <4>2, <4>3, <4>4
    <3>4. /\ merchandiseState' = [merchandiseState EXCEPT ![m] = "SALE"]
          /\ trialCount' = [trialCount EXCEPT ![m] = 0]
          /\ progressBuyer' = [progressBuyer EXCEPT ![m] = NoAccount]
          /\ confirmedBuyers' = [confirmedBuyers EXCEPT ![m] = confirmedBuyers[m] \cup {b}]
      BY <2>4 DEF Confirm
    <3>5. CASE n = m
      BY <1>0, <1>t, <1>c, <2>1, <3>3, <3>4, <3>5, <1>p DEF Tells
    <3>6. CASE n # m
      BY <1>0, <1>t, <1>c, <3>3, <3>4, <3>6, <1>p DEF Tells
    <3>7. QED
      BY <3>5, <3>6
  <2>5. QED
    BY <1>3, <2>2, <2>3, <2>4 DEF verify
<1>4. ASSUME NEW m \in Merchs, NEW b \in Accounts, NEW u \in Uris, emitUpload(m, b, u)
      PROVE  Tells(n, a)'
  <2>1. PICK e : e = Upload(m, progressBuyer[m], u)
    OBVIOUS
  <2>2. e.event # "Purchase" /\ e # Match(n, a) /\ e # Mismatch(n, a)
    BY <2>1 DEF Upload, Verify, Match, Mismatch
  <2>3. /\ Purchases(log', n, a) = Purchases(log, n, a)
        /\ Matches(log', n, a) = Matches(log, n, a)
        /\ Mismatches(log', n, a) = Mismatches(log, n, a)
    BY <1>l, <1>4, <2>1, <2>2, PurchaseCounts, MatchCounts, MismatchCounts DEF emitUpload
  <2>4. UNCHANGED <<merchandiseState, trialCount, progressBuyer, confirmedBuyers>>
    BY <1>4 DEF emitUpload
  <2>5. QED
    BY <1>0, <2>3, <2>4, <1>p DEF Tells
<1>5. QED
  BY <1>1, <1>2, <1>3, <1>4 DEF Next, registerKey, constructor, registerMerchandise, withdraw, vars

\* LogTellsState: the events a contract emitted tell who bought, who was served and how many trials
\* failed, which is all the mediators and the bridge know of it.
THEOREM LogTellsTheSale == Spec => []LogTellsState
<1>1. Init => LogTells
  <2>1. ASSUME Init, NEW m \in Merchs, NEW b \in Accounts
        PROVE  Tells(m, b)
    <3>1. PurchasesIn(log, m, b) = {} /\ MatchesIn(log, m, b) = {} /\ MismatchesIn(log, m, b) = {}
      BY <2>1 DEF Init, PurchasesIn, MatchesIn, MismatchesIn
    <3>2. Purchases(log, m, b) = 0 /\ Matches(log, m, b) = 0 /\ Mismatches(log, m, b) = 0
      BY <3>1, FS_EmptySet DEF Purchases, Matches, Mismatches
    <3>3. confirmedBuyers[m] = {} /\ progressBuyer[m] # b /\ trialCount[m] = 0
      BY <2>1, ContractAssumption DEF Init
    <3>4. QED
      BY <3>2, <3>3 DEF Tells
  <2>2. QED
    BY <2>1 DEF LogTells
<1>2. LogTells => LogTellsState
  BY DEF LogTells, Tells, LogTellsState, Purchases, PurchasesIn, PurchasesOf, VerdictsOf,
         Matches, MatchesIn, Mismatches, MismatchesIn, Match, Mismatch
<1>3. QED
  BY <1>1, <1>2, InvAlways, LogTellsStep, PTL DEF Spec
-----------------------------------------------------------------------------
(***************************************************************************)
(* The order of the log.  LogIsSerial speaks of the events there are; what *)
(* an event to come needs is that the sale in progress was opened by its   *)
(* buyer's purchase and that the contract has kept to it since.            *)
(***************************************************************************)
Quiet(l, j, i, m, b) ==
  \A k \in (j + 1)..(i - 1) : l[k].address = m =>
    l[k].event # "Purchase" /\ l[k].buyer = b /\ l[k] # Match(m, b)
Opened(l, i, m, b) == \E j \in PurchasesIn(l, m, b) : j < i /\ Quiet(l, j, i, m, b)
SerialLog(l) == \A i \in DOMAIN l : l[i].event # "Purchase" => Opened(l, i, l[i].address, l[i].buyer)
OpenSales(l, buyer) == \A m \in Merchs : buyer[m] # NoAccount => Opened(l, Len(l) + 1, m, buyer[m])
Serial == SerialLog(log) /\ OpenSales(log, progressBuyer)

\* What is serial after a step is the log after the step.
LEMMA SerialPrimes == Serial' <=> SerialLog(log') /\ OpenSales(log', progressBuyer')
  BY DEF Serial, SerialLog, OpenSales, Opened, Quiet, PurchasesIn, Match, Verify

\* What opened a sale before some position still does after an event, and up to the event if that
\* is another contract's or goes on with the sale.
LEMMA OpenedKept ==
  ASSUME NEW l \in Seq(Event), NEW e, NEW m, NEW b, NEW i \in 1..(Len(l) + 1), Opened(l, i, m, b)
  PROVE  /\ Opened(Append(l, e), i, m, b)
         /\ i = Len(l) + 1 /\ (e.address = m => e.event # "Purchase" /\ e.buyer = b /\ e # Match(m, b)) =>
              Opened(Append(l, e), Len(l) + 2, m, b)
<1> DEFINE k == Append(l, e)
<1>1. /\ Len(l) \in Nat /\ DOMAIN l = 1..Len(l) /\ DOMAIN k = DOMAIN l \cup {Len(l) + 1}
      /\ k[Len(l) + 1] = e /\ \A j \in DOMAIN l : k[j] = l[j]
  BY Appended
<1> HIDE DEF k
<1>2. PICK j \in PurchasesIn(l, m, b) : j < i /\ Quiet(l, j, i, m, b)
  BY DEF Opened
<1>3. j \in 1..Len(l) /\ j \in PurchasesIn(k, m, b)
  BY <1>1, <1>2 DEF PurchasesIn
<1>4. Quiet(k, j, i, m, b)
  <2>1. \A x \in (j + 1)..(i - 1) : x \in DOMAIN l
    BY <1>1, <1>3
  <2>2. QED
    BY <1>1, <1>2, <2>1 DEF Quiet
<1>5. ASSUME i = Len(l) + 1, e.address = m => e.event # "Purchase" /\ e.buyer = b /\ e # Match(m, b)
      PROVE  Opened(k, Len(l) + 2, m, b)
  <2>1. \A x \in (j + 1)..((Len(l) + 2) - 1) : x = Len(l) + 1 \/ x \in (j + 1)..(i - 1)
    BY <1>1, <1>3, <1>5
  <2>2. Quiet(k, j, Len(l) + 2, m, b)
    BY <1>1, <1>4, <1>5, <2>1 DEF Quiet
  <2>3. j < Len(l) + 2
    BY <1>1, <1>3
  <2>4. QED
    BY <1>3, <2>2, <2>3 DEF Opened
<1>6. QED
  BY <1>2, <1>3, <1>4, <1>5 DEF Opened, k

\* An event that opens a sale, or goes on with the one in progress, keeps the log serial.
LEMMA SerialAppends ==
  ASSUME NEW l \in Seq(Event), NEW e, NEW m \in Merchs, e.address = m,
         NEW before \in [Merchs -> Accounts \cup {NoAccount}], NEW after \in [Merchs -> Accounts \cup {NoAccount}],
         SerialLog(l), OpenSales(l, before), \A n \in Merchs \ {m} : after[n] = before[n],
         \/ e.event = "Purchase" /\ e.buyer = after[m]
         \/ /\ e.event # "Purchase" /\ before[m] # NoAccount /\ e.buyer = before[m]
            /\ after[m] = NoAccount \/ (after[m] = before[m] /\ e # Match(m, before[m]))
  PROVE  SerialLog(Append(l, e)) /\ OpenSales(Append(l, e), after)
<1> DEFINE k == Append(l, e)
<1>1. /\ Len(l) \in Nat /\ DOMAIN l = 1..Len(l) /\ DOMAIN k = DOMAIN l \cup {Len(l) + 1}
      /\ k[Len(l) + 1] = e /\ \A j \in DOMAIN l : k[j] = l[j]
  BY Appended
<1>2. Len(k) = Len(l) + 1 /\ Len(k) + 1 = Len(l) + 2
  BY <1>1
<1>3. \A n, b : \A i \in 1..(Len(l) + 1) : Opened(l, i, n, b) => Opened(k, i, n, b)
  BY OpenedKept
<1>4. \A n, b : Opened(l, Len(l) + 1, n, b) /\ (e.address = n => e.event # "Purchase" /\ e.buyer = b /\ e # Match(n, b)) =>
                  Opened(k, Len(l) + 2, n, b)
  <2>1. Len(l) + 1 \in 1..(Len(l) + 1)
    BY <1>1
  <2>2. QED
    BY <2>1, OpenedKept
<1> HIDE DEF k
<1>5. SerialLog(k)
  <2>1. ASSUME NEW i \in DOMAIN k, k[i].event # "Purchase"
        PROVE  Opened(k, i, k[i].address, k[i].buyer)
    <3>1. CASE i \in DOMAIN l
      <4>1. Opened(l, i, k[i].address, k[i].buyer) /\ i \in 1..(Len(l) + 1)
        BY <1>1, <2>1, <3>1 DEF SerialLog
      <4>2. QED
        BY <1>3, <4>1
    <3>2. CASE i = Len(l) + 1
      <4>1. k[i] = e /\ Opened(l, Len(l) + 1, m, before[m]) /\ e.buyer = before[m]
        BY <1>1, <2>1, <3>2 DEF OpenSales
      <4>2. Len(l) + 1 \in 1..(Len(l) + 1)
        BY <1>1
      <4>3. QED
        BY <1>3, <3>2, <4>1, <4>2
    <3>3. QED
      BY <1>1, <2>1, <3>1, <3>2
  <2>2. QED
    BY <2>1 DEF SerialLog
<1>6. OpenSales(k, after)
  <2>1. ASSUME NEW n \in Merchs, after[n] # NoAccount
        PROVE  Opened(k, Len(k) + 1, n, after[n])
    <3>1. CASE n # m
      BY <1>2, <1>4, <2>1, <3>1 DEF OpenSales
    <3>2. CASE n = m /\ e.event = "Purchase" /\ e.buyer = after[m]
      <4>1. Len(l) + 1 \in PurchasesIn(k, m, after[m])
        BY <1>1, <3>2 DEF PurchasesIn
      <4>2. Quiet(k, Len(l) + 1, Len(l) + 2, m, after[m]) /\ Len(l) + 1 < Len(l) + 2
        BY <1>1 DEF Quiet
      <4>3. QED
        BY <1>2, <3>2, <4>1, <4>2 DEF Opened
    <3>3. CASE n = m /\ e.event # "Purchase"
      <4>1. after[m] = before[m] /\ e.buyer = before[m] /\ e # Match(m, before[m]) /\ before[m] # NoAccount
        BY <2>1, <3>3
      <4>2. Opened(l, Len(l) + 1, m, before[m])
        BY <4>1 DEF OpenSales
      <4>3. QED
        BY <1>2, <1>4, <3>3, <4>1, <4>2
    <3>4. QED
      BY <3>1, <3>2, <3>3
  <2>2. QED
    BY <2>1 DEF OpenSales
<1>7. QED
  BY <1>5, <1>6 DEF k

\* Every step of a contract keeps its log serial.
LEMMA SerialStep == Inv /\ Serial /\ [Next]_vars => Serial'
<1> SUFFICES ASSUME Inv, Serial, [Next]_vars
             PROVE  SerialLog(log') /\ OpenSales(log', progressBuyer')
  BY SerialPrimes
<1>0. /\ SerialLog(log) /\ OpenSales(log, progressBuyer) /\ log \in Seq(Event)
      /\ progressBuyer \in [Merchs -> Accounts \cup {NoAccount}] /\ \A m \in Merchs : SaleStateOK(m)
  BY DEF Serial, Inv, TypeOK, SaleStateConsistent
<1>1. ASSUME UNCHANGED <<log, progressBuyer>>
      PROVE  SerialLog(log') /\ OpenSales(log', progressBuyer')
  BY <1>0, <1>1
<1>2. ASSUME NEW m \in Merchs, NEW b \in Accounts, NEW v \in Payments, purchase(m, b, v)
      PROVE  SerialLog(log') /\ OpenSales(log', progressBuyer')
  <2>1. PICK e : e = Purchase(m, b, getPubKey(b))
    OBVIOUS
  <2>2. e.event = "Purchase" /\ e.address = m /\ e.buyer = b
    BY <2>1 DEF Purchase
  <2>3. log' = Append(log, e) /\ progressBuyer' = [progressBuyer EXCEPT ![m] = b]
    BY <1>2, <2>1 DEF purchase
  <2>4. /\ progressBuyer' \in [Merchs -> Accounts \cup {NoAccount}] /\ progressBuyer'[m] = b
        /\ \A n \in Merchs \ {m} : progressBuyer'[n] = progressBuyer[n]
    BY <1>0, <2>3
  <2>5. SerialLog(Append(log, e)) /\ OpenSales(Append(log, e), progressBuyer')
    BY <1>0, <2>2, <2>4, SerialAppends
  <2>6. QED
    BY <2>3, <2>5
<1>3. ASSUME NEW m \in Merchs, NEW b \in Accounts, NEW h \in Hashes, verify(m, b, h)
      PROVE  SerialLog(log') /\ OpenSales(log', progressBuyer')
  <2>1. progressBuyer[m] = b /\ b # NoAccount
    BY <1>3, ContractAssumption DEF verify, CanVerify
  <2>2. CASE RequestAgain(m, b)
    <3>1. PICK e : e = Mismatch(m, b)
      OBVIOUS
    <3>2. e.event # "Purchase" /\ e.address = m /\ e.buyer = b /\ e # Match(m, b)
      BY <3>1 DEF Match, Mismatch, Verify
    <3>3. log' = Append(log, e) /\ progressBuyer' = progressBuyer
      BY <2>2, <3>1 DEF RequestAgain, Mismatch
    <3>4. SerialLog(Append(log, e)) /\ OpenSales(Append(log, e), progressBuyer)
      BY <1>0, <2>1, <3>2, SerialAppends
    <3>5. QED
      BY <3>3, <3>4
  <2>3. CASE Ban(m)
    BY <1>1, <2>3 DEF Ban
  <2>4. CASE Confirm(m, b)
    <3>1. PICK e : e = Match(m, b)
      OBVIOUS
    <3>2. e.event # "Purchase" /\ e.address = m /\ e.buyer = b
      BY <3>1 DEF Match, Verify
    <3>3. log' = Append(log, e) /\ progressBuyer' = [progressBuyer EXCEPT ![m] = NoAccount]
      BY <2>4, <3>1 DEF Confirm, Match
    <3>4. /\ progressBuyer' \in [Merchs -> Accounts \cup {NoAccount}] /\ progressBuyer'[m] = NoAccount
          /\ \A n \in Merchs \ {m} : progressBuyer'[n] = progressBuyer[n]
      BY <1>0, <3>3
    <3>5. SerialLog(Append(log, e)) /\ OpenSales(Append(log, e), progressBuyer')
      BY <1>0, <2>1, <3>2, <3>4, SerialAppends
    <3>6. QED
      BY <3>3, <3>5
  <2>5. QED
    BY <1>3, <2>2, <2>3, <2>4 DEF verify
<1>4. ASSUME NEW m \in Merchs, NEW a \in Accounts, NEW u \in Uris, emitUpload(m, a, u)
      PROVE  SerialLog(log') /\ OpenSales(log', progressBuyer')
  <2>1. progressBuyer[m] # NoAccount
    BY <1>0, <1>4 DEF emitUpload, CanEmitUpload, SaleStateOK
  <2>2. PICK e : e = Upload(m, progressBuyer[m], u)
    OBVIOUS
  <2>3. e.event # "Purchase" /\ e.address = m /\ e.buyer = progressBuyer[m] /\ e # Match(m, progressBuyer[m])
    BY <2>2 DEF Upload, Match, Verify
  <2>4. log' = Append(log, e) /\ progressBuyer' = progressBuyer
    BY <1>4, <2>2 DEF emitUpload
  <2>5. SerialLog(Append(log, e)) /\ OpenSales(Append(log, e), progressBuyer)
    BY <1>0, <2>1, <2>3, SerialAppends
  <2>6. QED
    BY <2>4, <2>5
<1>5. QED
  BY <1>1, <1>2, <1>3, <1>4 DEF Next, registerKey, constructor, registerMerchandise, withdraw, vars

\* LogIsSerial: a contract serves one sale at a time, so every Upload and Verify event belongs to the
\* latest purchase of its contract.
THEOREM LogSerial == Spec => []LogIsSerial
<1>1. Init => Serial
  BY DEF Init, Serial, SerialLog, OpenSales
<1>2. Serial => LogIsSerial
  BY DEF Serial, SerialLog, Opened, Quiet, PurchasesIn, Match, LogIsSerial, PurchasesOf
<1>3. QED
  BY <1>1, <1>2, InvAlways, SerialStep, PTL DEF Spec
=============================================================================
