---------------------------- MODULE MediatorsProofs ----------------------------
(***************************************************************************)
(* Proofs about Mediators, for any owners, buyers, files and bounds on     *)
(* faults.                                                                 *)
(*                                                                         *)
(* The contracts are those of Merchandise, so what MerchandiseProofs says  *)
(* of them holds here too, once every transaction of a mediator is seen to *)
(* be one of theirs.  What the mediators add: a task knows whose sale it   *)
(* works on, the sale is in progress for that buyer, and no other task     *)
(* works on it.                                                            *)
(***************************************************************************)
EXTENDS Mediators, FiniteSetTheorems, TLAPS

Contracts == INSTANCE MerchandiseProofs WITH Keys <- ValidKeys, Payments <- {Price}

\* The mediators' constants satisfy what the contracts assume of theirs.
LEMMA ContractsFit ==
  /\ NoAccount \notin Accounts /\ Price \in Nat \ {0} /\ {Price} \subseteq Nat /\ Denied \subseteq Accounts
  /\ RETRY_LIMIT \in Nat \ {0} /\ ValidKeys \subseteq ValidKeys /\ NoKey \notin ValidKeys
  /\ NoHash \notin Hashes /\ MaxLog \in Nat
<1>1. NoKey \notin ValidKeys /\ NoHash \notin Hashes
  BY DEF NoKey, ValidKeys, RSAKey, NoHash, Hashes, to_hash
<1>2. MaxLog \in Nat
  <2>1. Cardinality(Buyers) \in Nat /\ MaxMerchs \in Nat /\ RETRY_LIMIT \in Nat
    BY MediatorAssumption, FS_CardinalityType
  <2>2. \A x, y \in Nat : x * y \in Nat
    OBVIOUS
  <2>3. MaxMerchs * Cardinality(Buyers) \in Nat
    BY <2>1, <2>2
  <2>4. MaxUploads \in Nat
    BY <2>1, <2>2, <2>3 DEF MaxUploads
  <2>5. 2 * MaxUploads \in Nat /\ 2 * MaxMerchs \in Nat
    BY <2>1, <2>4
  <2>6. 2 * MaxMerchs * Cardinality(Buyers) \in Nat
    BY <2>1, <2>2, <2>5
  <2>7. QED
    BY <2>5, <2>6 DEF MaxLog
<1>3. QED
  BY <1>1, <1>2, MediatorAssumption

\* The transactions the mediators send are transactions of the contracts.
LEMMA Transactions ==
  ASSUME NEW m, NEW a, NEW x
  PROVE  /\ Chain!registerKey(a, x) <=> Contracts!registerKey(a, x)
         /\ Chain!constructor(m, a, x) <=> Contracts!constructor(m, a, x)
         /\ Chain!registerMerchandise(m) <=> Contracts!registerMerchandise(m)
         /\ Chain!purchase(m, a, x) <=> Contracts!purchase(m, a, x)
         /\ Chain!verify(m, a, x) <=> Contracts!verify(m, a, x)
         /\ Chain!withdraw(m, a) <=> Contracts!withdraw(m, a)
         /\ Chain!emitUpload(m, a, x) <=> Contracts!emitUpload(m, a, x)
  BY DEF Chain!registerKey, Contracts!registerKey, Chain!isPubKey, Contracts!isPubKey,
         Chain!constructor, Contracts!constructor, Chain!deployed, Contracts!deployed,
         Chain!registerMerchandise, Contracts!registerMerchandise,
         Chain!purchase, Contracts!purchase, Chain!CanPurchase, Contracts!CanPurchase,
         Chain!CanGetPubKey, Contracts!CanGetPubKey, Chain!existKey, Contracts!existKey,
         Chain!getPubKey, Contracts!getPubKey, Chain!Purchase, Contracts!Purchase,
         Chain!verify, Contracts!verify, Chain!CanVerify, Contracts!CanVerify,
         Chain!RequestAgain, Contracts!RequestAgain, Chain!Ban, Contracts!Ban,
         Chain!Confirm, Contracts!Confirm, Chain!Verify, Contracts!Verify,
         Chain!withdraw, Contracts!withdraw, Chain!CanWithdraw, Contracts!CanWithdraw,
         Chain!emitUpload, Contracts!emitUpload, Chain!CanEmitUpload, Contracts!CanEmitUpload,
         Chain!Upload, Contracts!Upload

\* The transactions there are, as the contracts' steps.
LEMMA ChainStep ==
  ASSUME Contracts!Inv,
         \/ \E a \in Accounts, k \in ValidKeys : Chain!registerKey(a, k)
         \/ \E m \in Merchs, a \in Accounts, h \in Hashes : Chain!constructor(m, a, h)
         \/ \E m \in Merchs : Chain!registerMerchandise(m)
         \/ \E m \in Merchs, a \in Accounts : Chain!purchase(m, a, Price)
         \/ \E m \in Merchs, a \in Accounts, h \in Hashes : Chain!verify(m, a, h)
         \/ \E m \in Merchs, a \in Accounts : Chain!withdraw(m, a)
         \/ \E m \in Merchs, a \in Accounts, u \in Uris : Chain!emitUpload(m, a, u)
         \/ UNCHANGED chainVars
  PROVE  Contracts!Inv'
<1>1. [Contracts!Next]_Contracts!vars
  BY Transactions DEF Contracts!Next, Contracts!vars, chainVars
<1>2. Contracts!TypeOK' /\ Contracts!SaleStateConsistent'
  BY <1>1, ContractsFit, Contracts!TypeStep, Contracts!SaleStateStep
<1>3. QED
  BY <1>2 DEF Contracts!Inv
-----------------------------------------------------------------------------
(***************************************************************************)
(* What a task is, whatever the state.                                     *)
(***************************************************************************)
Pcs == {"post", "get_pubkey", "emit", "withdraw", "fetch", "save", "read", "verify", "query"}
TaskShape == [who: Accounts, entry: Nat, pc: Pcs, uuid: Nat, pubkey: ValidKeys \cup {NoKey},
              name: Names \cup {NoFile}, file: Contents \cup {NoFile}, ok: BOOLEAN]
WatcherShape == [pc: {"idle", "register", "insert", "dead"}, file: Files \cup {NoFile}, merch: Merchs \cup {0}]

MediatorTypes ==
  /\ uploads \in [Names -> Contents \cup {NoFile}] /\ db \in Seq(Names \cup {NoFile})
  /\ proc \in [Accounts -> {"down", "started", "running", "deaf"}] /\ starts \in [Accounts -> 0..(MaxCrashes + 1)]
  /\ todo \in [Accounts -> SUBSET Files] /\ watcher \in [Accounts -> WatcherShape]
  /\ deployed_files \in [Accounts -> [Merchs -> Files \cup {NoFile}]]
  /\ downloads \in [Accounts -> [Names -> Contents \cup {NoFile}]]
  /\ tasks \subseteq TaskShape /\ arrived \subseteq Files
  /\ faults \in [crash: 0..MaxCrashes, tamper: 0..MaxTampers, failure: 0..MaxFailures]
  /\ abandoned \subseteq Merchs
  /\ verdicts \subseteq [merch: Merchs, buyer: Buyers, ok: BOOLEAN, result: BOOLEAN]

\* A watcher that registers has a contract; a key in use leads to a stored file.
WatchersOK == \A a \in Accounts : watcher[a].pc \in {"register", "insert"} => watcher[a].merch \in Merchs
StoredOK == \A k \in DOMAIN db : db[k] \in Names => uploads[db[k]] \in Contents

\* A mediator that runs has a registered key, and so has who is buying, for whom a mediator may run.
KeysOK ==
  /\ \A a \in Accounts : proc[a] # "down" => pubKeys[a] # NoKey
  /\ \A m \in Merchs : progressBuyer[m] # NoAccount =>
       progressBuyer[m] \in Buyers /\ pubKeys[progressBuyer[m]] # NoKey

\* A task runs for the account its log is addressed to, and holds what its next step needs.
Role(t) ==
  /\ t.entry \in DOMAIN log /\ proc[t.who] # "down"
  /\ t.pc \in {"post", "get_pubkey", "emit"} =>
       log[t.entry].event \in {"Purchase", "Verify"} /\ t.who = owner[log[t.entry].address]
  /\ t.pc \in {"fetch", "save", "read", "verify"} => log[t.entry].event = "Upload" /\ t.who = log[t.entry].buyer
  /\ t.pc = "query" => t.who \in Buyers
Holds(t) ==
  /\ t.pc = "emit" => t.pubkey \in ValidKeys
  /\ t.pc = "save" => t.name \in Names /\ t.file \in Contents
  /\ t.pc = "read" => t.name \in Names /\ downloads[t.who][t.name] \in Contents
  /\ t.pc = "verify" => t.file \in Contents
TasksOK == \A t \in tasks : Role(t) /\ Holds(t)

\* A working task works on a sale in progress, for its buyer, which has not been abandoned.
OnSale(t) ==
  LET m == log[t.entry].address
  IN  merchandiseState[m] = "IN_PROGRESS" /\ progressBuyer[m] = log[t.entry].buyer /\ m \notin abandoned
WorkersOK ==
  /\ \A t \in tasks : Working(t) => OnSale(t)
  /\ \A t, u \in tasks : Working(t) /\ Working(u) /\ log[t.entry].address = log[u.entry].address => t = u
  /\ \A m \in Merchs : /\ merchandiseState[m] = "IN_PROGRESS" /\ m \notin abandoned =>
                            \E t \in tasks : Working(t) /\ log[t.entry].address = m
                       /\ m \in abandoned => merchandiseState[m] = "IN_PROGRESS"

MediatorInv == Contracts!Inv /\ MediatorTypes /\ WatchersOK /\ StoredOK /\ KeysOK /\ TasksOK /\ WorkersOK
-----------------------------------------------------------------------------
\* What the contracts' invariant says, in the terms of the mediators.
LEMMA ChainFacts ==
  ASSUME Contracts!Inv
  PROVE  /\ pubKeys \in [Accounts -> ValidKeys \cup {NoKey}] /\ owner \in [Merchs -> Accounts \cup {NoAccount}]
         /\ merchandiseState \in [Merchs -> {"SALE", "IN_PROGRESS", "BANNED"}]
         /\ progressBuyer \in [Merchs -> Accounts \cup {NoAccount}] /\ NoAccount \notin Accounts
         /\ Len(log) \in Nat /\ DOMAIN log = 1..Len(log)
         /\ \A i \in DOMAIN log :
              /\ log[i].address \in Merchs /\ log[i].buyer \in Accounts
              /\ log[i].event = "Purchase" => log[i].pubkey \in ValidKeys
         /\ \A m \in Merchs : /\ merchandiseState[m] = "SALE" <=> progressBuyer[m] = NoAccount
                              /\ progressBuyer[m] # NoAccount => owner[m] \in Accounts
<1>1. /\ pubKeys \in [Accounts -> ValidKeys \cup {NoKey}] /\ owner \in [Merchs -> Accounts \cup {NoAccount}]
      /\ merchandiseState \in [Merchs -> {"SALE", "IN_PROGRESS", "BANNED"}]
      /\ progressBuyer \in [Merchs -> Accounts \cup {NoAccount}] /\ log \in Seq(Contracts!Event)
  BY DEF Contracts!Inv, Contracts!TypeOK, Contracts!MerchandiseState
<1>2. \A m \in Merchs : /\ merchandiseState[m] = "SALE" <=> progressBuyer[m] = NoAccount
                        /\ progressBuyer[m] # NoAccount => owner[m] \in Accounts
  BY <1>1 DEF Contracts!Inv, Contracts!SaleStateConsistent, Contracts!SaleStateOK, Contracts!deployed
<1>3. \A e \in Contracts!Event : /\ e.address \in Merchs /\ e.buyer \in Accounts
                                 /\ e.event = "Purchase" => e.pubkey \in ValidKeys
  BY DEF Contracts!Event
<1>4. Len(log) \in Nat /\ DOMAIN log = 1..Len(log) /\ \A i \in DOMAIN log : log[i] \in Contracts!Event
  BY <1>1
<1>5. QED
  BY <1>1, <1>2, <1>3, <1>4, MediatorAssumption

\* What happens aside of the sales leaves their tasks to their work.
LEMMA Aside ==
  ASSUME MediatorInv, UNCHANGED <<merchandiseState, progressBuyer, log, tasks, abandoned, downloads>>,
         \A m \in Merchs : owner[m] # NoAccount => owner'[m] = owner[m],
         \A a \in Accounts : proc[a] # "down" => proc'[a] # "down"
  PROVE  TasksOK' /\ WorkersOK'
<1>1. TasksOK /\ WorkersOK /\ Contracts!Inv /\ \A t \in tasks : t.who \in Accounts
  BY DEF MediatorInv, MediatorTypes, TaskShape
<1>2. WorkersOK'
  BY <1>1 DEF WorkersOK, OnSale, Working
<1>3. \A t \in tasks : t.pc \in {"post", "get_pubkey", "emit"} => owner'[log[t.entry].address] = owner[log[t.entry].address]
  <2>1. ASSUME NEW t \in tasks, t.pc \in {"post", "get_pubkey", "emit"}
        PROVE  owner'[log[t.entry].address] = owner[log[t.entry].address]
    <3>1. OnSale(t) /\ t.entry \in DOMAIN log
      BY <1>1, <2>1 DEF WorkersOK, Working, TasksOK, Role
    <3>2. log[t.entry].address \in Merchs /\ owner[log[t.entry].address] # NoAccount
      BY <1>1, <3>1, ChainFacts DEF OnSale
    <3>3. QED
      BY <3>2
  <2>2. QED
    BY <2>1
<1>4. TasksOK'
  BY <1>1, <1>3 DEF TasksOK, Role, Holds
<1>5. QED
  BY <1>2, <1>4

\* A task goes on to its next step.
LEMMA Moves ==
  ASSUME MediatorInv, NEW t \in tasks, NEW u \in TaskShape, tasks' = (tasks \ {t}) \cup {u},
         u.entry = t.entry, u.who = t.who, Working(t), Working(u),
         \/ t.pc \in {"post", "get_pubkey", "emit"} /\ u.pc \in {"get_pubkey", "emit"}
         \/ t.pc \in {"fetch", "save", "read", "verify"} /\ u.pc \in {"save", "read", "verify"},
         u.pc = "emit" => u.pubkey \in ValidKeys, u.pc = "save" => u.name \in Names /\ u.file \in Contents,
         u.pc = "read" => u.name \in Names /\ downloads'[u.who][u.name] \in Contents,
         u.pc = "verify" => u.file \in Contents,
         \A a \in Accounts, n \in Names : downloads[a][n] \in Contents => downloads'[a][n] \in Contents,
         UNCHANGED <<merchandiseState, progressBuyer, log, abandoned, owner, proc>>
  PROVE  TasksOK' /\ WorkersOK'
<1>1. TasksOK /\ WorkersOK /\ \A x \in tasks : x.who \in Accounts
  BY DEF MediatorInv, MediatorTypes, TaskShape
<1>2. (Role(u) /\ Holds(u))'
  BY <1>1 DEF TasksOK, Role, Holds
<1>3. \A x \in tasks : (Role(x) /\ Holds(x))'
  BY <1>1 DEF TasksOK, Role, Holds
<1>4. TasksOK'
  BY <1>2, <1>3 DEF TasksOK
<1>5. WorkersOK'
  <2>1. \A x \in tasks' : Working(x) => OnSale(x)'
    BY <1>1 DEF WorkersOK, OnSale
  <2>2. \A x, y \in tasks' : Working(x) /\ Working(y) /\ log[x.entry].address = log[y.entry].address => x = y
    BY <1>1 DEF WorkersOK
  <2>3. \A m \in Merchs : /\ merchandiseState[m] = "IN_PROGRESS" /\ m \notin abandoned =>
                               \E x \in tasks' : Working(x) /\ log[x.entry].address = m
                          /\ m \in abandoned => merchandiseState[m] = "IN_PROGRESS"
    BY <1>1 DEF WorkersOK
  <2>4. QED
    BY <2>1, <2>2, <2>3 DEF WorkersOK, Working
<1>6. QED
  BY <1>4, <1>5

\* Some tasks end, and the sales those of them worked on that were working are abandoned.
LEMMA Leave ==
  ASSUME MediatorInv, NEW S, tasks' = tasks \ S,
         abandoned' = abandoned \cup {log[t.entry].address : t \in {u \in tasks \cap S : Working(u)}},
         UNCHANGED <<merchandiseState, progressBuyer, log, owner, downloads>>,
         \A t \in tasks \ S : proc'[t.who] # "down"
  PROVE  TasksOK' /\ WorkersOK' /\ abandoned' \subseteq Merchs
<1>1. TasksOK /\ WorkersOK /\ Contracts!Inv /\ abandoned \subseteq Merchs
  BY DEF MediatorInv, MediatorTypes
<1>2. TasksOK'
  BY <1>1 DEF TasksOK, Role, Holds
<1>3. \A t \in tasks : log[t.entry].address \in Merchs
  BY <1>1, ChainFacts DEF TasksOK, Role
<1>4. WorkersOK'
  <2>1. \A t \in tasks' : Working(t) => OnSale(t)'
    <3>1. ASSUME NEW t \in tasks', Working(t)
          PROVE  log[t.entry].address \notin abandoned'
      BY <1>1, <3>1 DEF WorkersOK, OnSale
    <3>2. QED
      BY <1>1, <3>1 DEF WorkersOK, OnSale
  <2>2. \A x, y \in tasks' : Working(x) /\ Working(y) /\ log[x.entry].address = log[y.entry].address => x = y
    BY <1>1 DEF WorkersOK
  <2>3. \A m \in Merchs : /\ merchandiseState[m] = "IN_PROGRESS" /\ m \notin abandoned' =>
                               \E x \in tasks' : Working(x) /\ log[x.entry].address = m
                          /\ m \in abandoned' => merchandiseState[m] = "IN_PROGRESS"
    BY <1>1 DEF WorkersOK, OnSale
  <2>4. QED
    BY <2>1, <2>2, <2>3 DEF WorkersOK, Working
<1>5. QED
  BY <1>1, <1>2, <1>3, <1>4
\* The task of a log: whose it is, what it starts with, and that it works unless the log needs no handling.
LEMMA NewTask ==
  ASSUME NEW i \in Nat, NEW e, e.event \in {"Purchase", "Upload"} \/ (e.event = "Verify" /\ e.result \in BOOLEAN),
         Addressee(e) \in Accounts
  PROVE  /\ Task(i, e) \in TaskShape /\ Task(i, e).entry = i /\ Task(i, e).who = Addressee(e)
         /\ Working(Task(i, e)) <=> NeedsHandling(e)
         /\ e.event = "Upload" => Task(i, e).pc = "fetch"
         /\ e.event # "Upload" => Task(i, e).pc \in {"post", "withdraw"}
<1>1. /\ FirstStep(e) \in {"post", "withdraw", "fetch"} /\ (e.event = "Upload" <=> FirstStep(e) = "fetch")
      /\ NeedsHandling(e) <=> FirstStep(e) # "withdraw"
  BY DEF FirstStep, NeedsHandling
<1>2. PICK t : t = Task(i, e)
  OBVIOUS
<1>3. /\ t.entry = i /\ t.who = Addressee(e) /\ t.pc = FirstStep(e)
      /\ t = [who |-> Addressee(e), entry |-> i, pc |-> FirstStep(e), uuid |-> 0,
               pubkey |-> NoKey, name |-> NoFile, file |-> NoFile, ok |-> FALSE]
  BY <1>2 DEF Task
<1>4. t \in TaskShape
  BY <1>1, <1>3 DEF TaskShape, Pcs
<1>5. QED
  BY <1>1, <1>2, <1>3, <1>4 DEF Working

\* An appended event takes the next position, and nothing else changes.
LEMMA Appends ==
  ASSUME NEW S, NEW l \in Seq(S), NEW e
  PROVE  /\ Len(Append(l, e)) = Len(l) + 1 /\ Append(l, e)[Len(l) + 1] = e /\ Append(l, e) # l
         /\ DOMAIN Append(l, e) = 1..(Len(l) + 1) /\ \A i \in DOMAIN l : Append(l, e)[i] = l[i]
<1>1. /\ Len(Append(l, e)) = Len(l) + 1 /\ Append(l, e)[Len(l) + 1] = e /\ Len(l) \in Nat /\ DOMAIN l = 1..Len(l)
      /\ DOMAIN Append(l, e) = 1..(Len(l) + 1) /\ \A i \in 1..Len(l) : Append(l, e)[i] = l[i]
  OBVIOUS
<1>2. PICK k : k = Append(l, e)
  OBVIOUS
<1>3. DOMAIN k # DOMAIN l
  <2>1. Len(l) + 1 \in 1..(Len(l) + 1) /\ Len(l) + 1 \notin 1..Len(l)
    BY <1>1
  <2>2. QED
    BY <1>1, <1>2, <2>1
<1>4. k # l
  BY <1>3
<1>5. QED
  BY <1>1, <1>2, <1>4

\* What becomes of an appended event, with an addressee who hears it and without.
LEMMA Delivered ==
  ASSUME NEW e, NEW stay, log' # log, log'[Len(log')] = e, Dispatch(stay)
  PROVE  /\ proc[Addressee(e)] = "running" => tasks' = stay \cup {Task(Len(log'), e)} /\ UNCHANGED <<abandoned, unpaid>>
         /\ proc[Addressee(e)] # "running" => tasks' = stay
         /\ abandoned' = IF proc[Addressee(e)] # "running" /\ NeedsHandling(e) THEN abandoned \cup {e.address} ELSE abandoned
         /\ unpaid' = IF proc[Addressee(e)] # "running" /\ ~NeedsHandling(e) THEN unpaid \cup {e.address} ELSE unpaid
<1> DEFINE lost == IF proc[Addressee(e)] = "running" THEN {} ELSE {e.address}
<1>1. /\ tasks' = IF lost = {} THEN stay \cup {Task(Len(log'), e)} ELSE stay
      /\ abandoned' = IF NeedsHandling(e) THEN abandoned \cup lost ELSE abandoned
      /\ unpaid' = IF NeedsHandling(e) THEN unpaid ELSE unpaid \cup lost
  BY DEF Dispatch
<1>2. {e.address} # {}
  OBVIOUS
<1>3. CASE proc[Addressee(e)] = "running"
  <2>1. lost = {}
    BY <1>3
  <2>2. QED
    BY <1>1, <1>3, <2>1
<1>4. CASE proc[Addressee(e)] # "running"
  <2>1. lost = {e.address}
    BY <1>4
  <2>2. QED
    BY <1>1, <1>2, <1>4, <2>1
<1>5. QED
  BY <1>3, <1>4

\* A contract emits an event: its addressee gets a task, or the sale is abandoned.
LEMMA Emitted ==
  ASSUME MediatorInv, NEW m \in Merchs, m \notin abandoned, NEW e, e.address = m, log' = Append(log, e),
         e.event \in {"Purchase", "Upload"} \/ (e.event = "Verify" /\ e.result \in BOOLEAN),
         Addressee(e) \in Accounts, UNCHANGED <<owner, proc, downloads>>,
         NEW stay, Dispatch(stay),
         \A u \in stay : u \in TaskShape /\ Role(u) /\ Holds(u) /\ (Working(u) => u \in tasks /\ log[u.entry].address # m),
         \A u \in tasks : Working(u) /\ log[u.entry].address # m => u \in stay,
         \A n \in Merchs \ {m} : merchandiseState'[n] = merchandiseState[n] /\ progressBuyer'[n] = progressBuyer[n],
         NeedsHandling(e) => merchandiseState'[m] = "IN_PROGRESS" /\ progressBuyer'[m] = e.buyer,
         ~NeedsHandling(e) => merchandiseState'[m] # "IN_PROGRESS"
  PROVE  tasks' \subseteq TaskShape /\ abandoned' \subseteq Merchs /\ TasksOK' /\ WorkersOK'
<1>1. /\ TasksOK /\ WorkersOK /\ Contracts!Inv /\ abandoned \subseteq Merchs /\ Len(log) \in Nat /\ DOMAIN log = 1..Len(log)
      /\ \A i \in DOMAIN log : log[i].address \in Merchs
  BY ChainFacts DEF MediatorInv, MediatorTypes
<1>2. /\ Len(log') = Len(log) + 1 /\ log'[Len(log) + 1] = e /\ log' # log
      /\ DOMAIN log' = 1..(Len(log) + 1) /\ \A i \in DOMAIN log : log'[i] = log[i]
  <2>1. log \in Seq(Contracts!Event)
    BY <1>1 DEF Contracts!Inv, Contracts!TypeOK
  <2>2. QED
    BY <2>1, Appends
<1>3. PICK new : new = Task(Len(log) + 1, e)
  OBVIOUS
<1>4. /\ new \in TaskShape /\ new.entry = Len(log) + 1 /\ new.who = Addressee(e)
      /\ Working(new) <=> NeedsHandling(e)
      /\ e.event = "Upload" => new.pc = "fetch"
      /\ e.event # "Upload" => new.pc \in {"post", "withdraw"}
  <2>1. Len(log) + 1 \in Nat
    BY <1>1
  <2>2. QED
    BY <1>3, <2>1, NewTask
<1>5. /\ proc[Addressee(e)] = "running" => tasks' = stay \cup {new}
      /\ proc[Addressee(e)] # "running" => tasks' = stay
      /\ abandoned' = IF proc[Addressee(e)] # "running" /\ NeedsHandling(e) THEN abandoned \cup {m} ELSE abandoned
  BY <1>2, <1>3, Delivered
<1>6. \A u \in stay : u.entry \in DOMAIN log /\ u.entry \in DOMAIN log' /\ log'[u.entry] = log[u.entry]
  <2>1. DOMAIN log \subseteq DOMAIN log'
    <3>1. Len(log) \in Nat
      BY <1>1
    <3>2. 1..Len(log) \subseteq 1..(Len(log) + 1)
      BY <3>1
    <3>3. QED
      BY <1>1, <1>2, <3>2
  <2>2. \A u \in stay : u.entry \in DOMAIN log
    BY DEF Role
  <2>3. QED
    BY <1>2, <2>1, <2>2
<1>7. \A u \in stay : (Role(u) /\ Holds(u))'
  BY <1>6 DEF Role, Holds
<1>8. proc[Addressee(e)] = "running" => (Role(new) /\ Holds(new))'
  <2>1. new.entry \in DOMAIN log' /\ log'[new.entry] = e
    <3>1. Len(log) \in Nat
      BY <1>1
    <3>2. Len(log) + 1 \in 1..(Len(log) + 1)
      BY <3>1
    <3>3. QED
      BY <1>2, <1>4, <3>2
  <2>2. /\ new.pc \in {"post", "withdraw", "fetch"} /\ (new.pc = "fetch" => e.event = "Upload" /\ new.who = e.buyer)
        /\ new.pc = "post" => e.event \in {"Purchase", "Verify"} /\ new.who = owner[m]
    BY <1>4 DEF Addressee
  <2>3. QED
    BY <1>4, <2>1, <2>2 DEF Role, Holds
<1>9. TasksOK'
  BY <1>5, <1>7, <1>8 DEF TasksOK
<1>10. \A u \in tasks' : u \in stay \/ (u = new /\ proc[Addressee(e)] = "running")
  BY <1>5
<1>11. log'[new.entry] = e
  BY <1>2, <1>4
<1>12. \A u \in tasks' : Working(u) => OnSale(u)'
  <2>1. ASSUME NEW u \in stay, Working(u)
        PROVE  OnSale(u)'
    <3>1. u \in tasks /\ OnSale(u) /\ log[u.entry].address \in Merchs \ {m}
      BY <1>1, <1>6, <2>1 DEF WorkersOK
    <3>2. QED
      BY <1>5, <1>6, <3>1 DEF OnSale
  <2>2. ASSUME Working(new), proc[Addressee(e)] = "running"
        PROVE  OnSale(new)'
    BY <1>4, <1>5, <1>11, <2>2 DEF OnSale
  <2>3. QED
    BY <1>10, <2>1, <2>2
<1>13. \A x, y \in tasks' : Working(x) /\ Working(y) /\ log'[x.entry].address = log'[y.entry].address => x = y
  <2>1. \A x \in stay : Working(x) => x \in tasks /\ log'[x.entry].address = log[x.entry].address /\ log[x.entry].address # m
    BY <1>6
  <2>2. \A x, y \in tasks : Working(x) /\ Working(y) /\ log[x.entry].address = log[y.entry].address => x = y
    BY <1>1 DEF WorkersOK
  <2>3. ASSUME NEW x \in tasks', NEW y \in tasks', Working(x), Working(y), log'[x.entry].address = log'[y.entry].address
        PROVE  x = y
    <3>1. CASE x \in stay /\ y \in stay
      BY <2>1, <2>2, <2>3, <3>1
    <3>2. CASE x \in stay /\ y = new
      BY <1>11, <2>1, <2>3, <3>2
    <3>3. CASE x = new /\ y \in stay
      BY <1>11, <2>1, <2>3, <3>3
    <3>4. QED
      BY <1>10, <3>1, <3>2, <3>3
  <2>4. QED
    BY <2>3
<1>14. ASSUME NEW n \in Merchs
       PROVE  /\ merchandiseState'[n] = "IN_PROGRESS" /\ n \notin abandoned' =>
                   \E x \in tasks' : Working(x) /\ log'[x.entry].address = n
              /\ n \in abandoned' => merchandiseState'[n] = "IN_PROGRESS"
  <2>1. CASE n = m
    BY <1>4, <1>5, <1>11, <2>1
  <2>2. CASE n # m
    <3>1. merchandiseState[n] = "IN_PROGRESS" /\ n \notin abandoned =>
            \E x \in stay : Working(x) /\ log'[x.entry].address = n
      BY <1>1, <1>6, <2>2 DEF WorkersOK
    <3>2. QED
      BY <1>1, <1>5, <2>2, <3>1 DEF WorkersOK
  <2>3. QED
    BY <2>1, <2>2
<1>15. WorkersOK'
  BY <1>12, <1>13, <1>14 DEF WorkersOK, Working
<1>16. QED
  BY <1>1, <1>4, <1>5, <1>9, <1>15
-----------------------------------------------------------------------------
\* Every behaviour starts within the invariant.
LEMMA MediatorInitInv == Init => MediatorInv
<1> SUFFICES ASSUME Init
             PROVE  MediatorInv
  OBVIOUS
<1>1. Contracts!Inv
  <2>1. Contracts!Init
    BY DEF Init, Chain!Init, Contracts!Init
  <2>2. QED
    BY <2>1, ContractsFit, Contracts!InitInv
<1>2. log = <<>> /\ (\A m \in Merchs : merchandiseState[m] = "SALE" /\ progressBuyer[m] = NoAccount)
  BY DEF Init, Chain!Init
<1>3. MediatorTypes
  <2>1. {MaxMerchs, MaxCrashes, MaxTampers, MaxFailures} \subseteq Nat
    BY MediatorAssumption
  <2>2. QED
    BY <2>1 DEF Init, Storage!Init, MediatorTypes, WatcherShape, Idle
<1>4. WatchersOK /\ StoredOK /\ KeysOK /\ TasksOK
  BY <1>2 DEF Init, Storage!Init, Idle, WatchersOK, StoredOK, KeysOK, TasksOK
<1>5. WorkersOK
  BY <1>2 DEF Init, WorkersOK
<1>6. QED
  BY <1>1, <1>3, <1>4, <1>5 DEF MediatorInv

\* The parts of the invariant, and who is an account.
LEMMA Parts ==
  ASSUME MediatorInv
  PROVE  /\ Contracts!Inv /\ MediatorTypes /\ WatchersOK /\ StoredOK /\ KeysOK /\ TasksOK /\ WorkersOK
         /\ Owners \subseteq Accounts /\ Buyers \subseteq Accounts
  BY DEF MediatorInv, Accounts

\* A watcher deploys, registers and notes its contracts.
LEMMA WatcherKeeps ==
  ASSUME MediatorInv, NEW a \in Owners, WatcherStep(a)
  PROVE  MediatorInv'
<1>a. /\ Contracts!Inv /\ MediatorTypes /\ WatchersOK /\ StoredOK /\ KeysOK /\ a \in Accounts
  BY Parts
<1>1. ASSUME NEW f \in todo[a], deploy_product(a, f)
      PROVE  MediatorInv'
  <2> DEFINE n == NextMerch
  <2>1. f \in Files /\ to_hash(f) \in Hashes
    BY <1>a, <1>1 DEF MediatorTypes, Hashes, Contents
  <2>2. n \in Merchs /\ Chain!constructor(n, a, to_hash(f))
    BY <1>1 DEF deploy_product
  <2>3. /\ todo' = [todo EXCEPT ![a] = todo[a] \ {f}]
        /\ watcher' = [watcher EXCEPT ![a] = [pc |-> "register", file |-> f, merch |-> n]]
        /\ UNCHANGED <<uploads, db, proc, starts, deployed_files, arrived, downloads, tasks, faults, abandoned, verdicts>>
    BY <1>1 DEF deploy_product, storageVars, processVars, historyVars
  <2> HIDE DEF n
  <2>4. Contracts!Inv'
    BY <1>a, <2>1, <2>2, ChainStep
  <2>5. /\ owner' = [owner EXCEPT ![n] = a] /\ owner[n] = NoAccount
        /\ UNCHANGED <<pubKeys, merchandiseState, progressBuyer, log>>
    BY <2>2 DEF Chain!constructor, Chain!deployed
  <2>6. TasksOK' /\ WorkersOK'
    BY <1>a, <2>3, <2>5, Aside, ChainFacts
  <2>7. MediatorTypes'
    <3>1. [pc |-> "register", file |-> f, merch |-> n] \in WatcherShape
      BY <2>1, <2>2 DEF WatcherShape
    <3>2. watcher' \in [Accounts -> WatcherShape] /\ todo' \in [Accounts -> SUBSET Files]
      BY <1>a, <2>3, <3>1 DEF MediatorTypes
    <3>3. QED
      BY <1>a, <2>3, <3>2 DEF MediatorTypes
  <2>8. WatchersOK'
    BY <1>a, <2>2, <2>3 DEF WatchersOK, MediatorTypes
  <2>9. StoredOK' /\ KeysOK'
    BY <1>a, <2>3, <2>5 DEF StoredOK, KeysOK
  <2>10. QED
    BY <2>4, <2>6, <2>7, <2>8, <2>9 DEF MediatorInv
<1>2. ASSUME register_product(a)
      PROVE  MediatorInv'
  <2>1. watcher[a].pc = "register" /\ watcher[a] \in WatcherShape /\ watcher[a].merch \in Merchs
    BY <1>a, <1>2 DEF register_product, MediatorTypes, WatchersOK
  <2>2. /\ Chain!registerMerchandise(watcher[a].merch)
        /\ watcher' = [watcher EXCEPT ![a].pc = "insert"]
        /\ UNCHANGED <<uploads, db, proc, starts, todo, deployed_files, arrived, downloads, tasks, faults, abandoned, verdicts>>
    BY <1>2 DEF register_product, storageVars, processVars, historyVars
  <2>3. Contracts!Inv'
    BY <1>a, <2>1, <2>2, ChainStep
  <2>4. UNCHANGED <<pubKeys, owner, merchandiseState, progressBuyer, log>>
    BY <2>2 DEF Chain!registerMerchandise
  <2>5. TasksOK' /\ WorkersOK'
    BY <2>2, <2>4, Aside
  <2>6. PICK w : w = [watcher[a] EXCEPT !.pc = "insert"]
    OBVIOUS
  <2>7. w \in WatcherShape /\ w.merch \in Merchs /\ watcher' = [watcher EXCEPT ![a] = w]
    <3>1. DOMAIN watcher[a] = {"pc", "file", "merch"}
      BY <2>1 DEF WatcherShape
    <3>2. w \in WatcherShape /\ w.merch = watcher[a].merch
      BY <2>1, <2>6, <3>1 DEF WatcherShape
    <3>3. QED
      BY <2>1, <2>2, <2>6, <3>2
  <2>8. UNCHANGED <<uploads, db, proc, starts, todo, deployed_files, arrived, downloads, tasks, faults, abandoned, verdicts>>
    BY <2>2
  <2>9. watcher' \in [Accounts -> WatcherShape]
    BY <1>a, <2>7 DEF MediatorTypes
  <2>10. MediatorTypes'
    BY <1>a, <2>8, <2>9 DEF MediatorTypes
  <2>11. WatchersOK' /\ StoredOK' /\ KeysOK'
    BY <1>a, <2>4, <2>7, <2>8 DEF WatchersOK, StoredOK, KeysOK, MediatorTypes
  <2>12. QED
    BY <2>3, <2>5, <2>10, <2>11 DEF MediatorInv
<1>3. ASSUME insert(a)
      PROVE  MediatorInv'
  <2>1. watcher[a].pc = "insert" /\ watcher[a] \in WatcherShape /\ watcher[a].merch \in Merchs
    BY <1>a, <1>3 DEF insert, MediatorTypes, WatchersOK
  <2>2. /\ deployed_files' = [deployed_files EXCEPT ![a][watcher[a].merch] = watcher[a].file]
        /\ watcher' = [watcher EXCEPT ![a] = Idle]
        /\ UNCHANGED chainVars /\ UNCHANGED <<merchandiseState, progressBuyer, log, owner, pubKeys>>
        /\ UNCHANGED <<uploads, db, proc, starts, todo, arrived, downloads, tasks, faults, abandoned, verdicts>>
    BY <1>3 DEF insert, chainVars, storageVars, processVars, historyVars
  <2>3. Contracts!Inv' /\ TasksOK' /\ WorkersOK'
    BY <1>a, <2>2, ChainStep, Aside
  <2>4. Idle \in WatcherShape /\ Idle.pc = "idle" /\ watcher[a].file \in Files \cup {NoFile}
    BY <2>1 DEF Idle, WatcherShape
  <2>5. MediatorTypes'
    <3>1. deployed_files' \in [Accounts -> [Merchs -> Files \cup {NoFile}]]
      BY <1>a, <2>1, <2>2, <2>4 DEF MediatorTypes
    <3>2. QED
      BY <1>a, <2>2, <2>4, <3>1 DEF MediatorTypes
  <2>6. WatchersOK' /\ StoredOK' /\ KeysOK'
    BY <1>a, <2>2, <2>4 DEF WatchersOK, StoredOK, KeysOK, MediatorTypes
  <2>7. QED
    BY <2>3, <2>5, <2>6 DEF MediatorInv
<1>4. QED
  BY <1>1, <1>2, <1>3 DEF WatcherStep
\* A new file reaches a watcher.
LEMMA ArrivalKeeps ==
  ASSUME MediatorInv, NEW a \in Owners, NEW f \in Files, FileArrives(a, f)
  PROVE  MediatorInv'
<1>1. /\ Contracts!Inv /\ MediatorTypes /\ WatchersOK /\ StoredOK /\ KeysOK /\ a \in Accounts
  BY Parts
<1>2. /\ arrived' = arrived \cup {f} /\ todo' = [todo EXCEPT ![a] = todo[a] \cup {f}]
      /\ UNCHANGED chainVars /\ UNCHANGED <<merchandiseState, progressBuyer, log, owner, pubKeys>>
      /\ UNCHANGED <<uploads, db, proc, starts, watcher, deployed_files, downloads, tasks, faults, abandoned, verdicts>>
  BY DEF FileArrives, chainVars, storageVars, processVars, historyVars
<1>3. Contracts!Inv' /\ TasksOK' /\ WorkersOK'
  BY <1>1, <1>2, ChainStep, Aside
<1>4. MediatorTypes'
  BY <1>1, <1>2 DEF MediatorTypes
<1>5. WatchersOK' /\ StoredOK' /\ KeysOK'
  BY <1>1, <1>2 DEF WatchersOK, StoredOK, KeysOK
<1>6. QED
  BY <1>3, <1>4, <1>5 DEF MediatorInv

\* A mediator starts, with a new key.
LEMMA StartKeeps ==
  ASSUME MediatorInv, NEW a \in Accounts, start(a)
  PROVE  MediatorInv'
<1>1. Contracts!Inv /\ MediatorTypes /\ WatchersOK /\ StoredOK /\ KeysOK
  BY Parts
<1>2. PICK k : k = RSAKey(a, starts[a] + 1)
  OBVIOUS
<1>3. /\ proc[a] = "down" /\ starts[a] <= MaxCrashes /\ Chain!registerKey(a, k)
      /\ starts' = [starts EXCEPT ![a] = starts[a] + 1] /\ proc' = [proc EXCEPT ![a] = "started"]
      /\ todo' = [todo EXCEPT ![a] = FilesOf(a) \cap Movies]
      /\ UNCHANGED <<uploads, db, watcher, deployed_files, arrived, downloads, tasks, faults, abandoned, verdicts>>
  BY <1>2 DEF start, storageVars, historyVars
<1>4. starts[a] + 1 \in 1..(MaxCrashes + 1)
  <2>1. starts[a] \in 0..(MaxCrashes + 1) /\ MaxCrashes \in Nat
    BY <1>1, MediatorAssumption DEF MediatorTypes
  <2>2. QED
    BY <1>3, <2>1
<1>5. k \in ValidKeys /\ k # NoKey
  BY <1>2, <1>4, ContractsFit DEF ValidKeys
<1>6. Contracts!Inv'
  BY <1>1, <1>3, <1>5, ChainStep
<1>7. /\ pubKeys' = [pubKeys EXCEPT ![a] = k]
      /\ UNCHANGED <<merchandiseState, progressBuyer, log, owner>>
  BY <1>3 DEF Chain!registerKey
<1>8. proc \in [Accounts -> {"down", "started", "running", "deaf"}] /\ pubKeys \in [Accounts -> ValidKeys \cup {NoKey}]
  BY <1>1, ChainFacts DEF MediatorTypes
<1>9. TasksOK' /\ WorkersOK'
  BY <1>3, <1>7, <1>8, Aside
<1>10. MediatorTypes'
  <2>1. starts' \in [Accounts -> 0..(MaxCrashes + 1)]
    <3>1. starts[a] + 1 \in 0..(MaxCrashes + 1)
      BY <1>4
    <3>2. QED
      BY <1>1, <1>3, <3>1 DEF MediatorTypes
  <2>2. todo' \in [Accounts -> SUBSET Files] /\ proc' \in [Accounts -> {"down", "started", "running", "deaf"}]
    BY <1>1, <1>3, <1>8 DEF MediatorTypes, FilesOf
  <2>3. QED
    BY <1>1, <1>3, <2>1, <2>2 DEF MediatorTypes
<1>11. WatchersOK' /\ StoredOK'
  BY <1>1, <1>3 DEF WatchersOK, StoredOK
<1>12. KeysOK'
  <2>1. \A x \in Accounts : proc'[x] # "down" => x = a \/ proc[x] # "down"
    BY <1>3, <1>8
  <2>2. \A x \in Accounts : pubKeys'[x] = IF x = a THEN k ELSE pubKeys[x]
    BY <1>7, <1>8
  <2>3. QED
    BY <1>1, <1>5, <1>7, <2>1, <2>2, Parts DEF KeysOK
<1>13. QED
  BY <1>6, <1>9, <1>10, <1>11, <1>12 DEF MediatorInv

\* A mediator subscribes to events.
LEMMA FilterKeeps ==
  ASSUME MediatorInv, NEW a \in Accounts, create_event_filter(a)
  PROVE  MediatorInv'
<1>1. Contracts!Inv /\ MediatorTypes /\ WatchersOK /\ StoredOK /\ KeysOK
  BY Parts
<1>2. /\ proc[a] = "started" /\ proc' = [proc EXCEPT ![a] = "running"]
      /\ UNCHANGED chainVars /\ UNCHANGED <<merchandiseState, progressBuyer, log, owner, pubKeys>>
      /\ UNCHANGED <<uploads, db, starts, todo, watcher, deployed_files, arrived, downloads, tasks, faults, abandoned, verdicts>>
  BY DEF create_event_filter, chainVars, storageVars, watcherVars, historyVars
<1>3. proc \in [Accounts -> {"down", "started", "running", "deaf"}]
  BY <1>1 DEF MediatorTypes
<1>4. Contracts!Inv' /\ TasksOK' /\ WorkersOK'
  BY <1>1, <1>2, <1>3, ChainStep, Aside
<1>5. MediatorTypes'
  BY <1>1, <1>2 DEF MediatorTypes
<1>6. WatchersOK' /\ StoredOK' /\ KeysOK'
  BY <1>1, <1>2, <1>3 DEF WatchersOK, StoredOK, KeysOK
<1>7. QED
  BY <1>4, <1>5, <1>6 DEF MediatorInv

\* A mediator stops, and forgets its tasks and contracts.
LEMMA CrashKeeps ==
  ASSUME MediatorInv, NEW a \in Accounts, crash(a)
  PROVE  MediatorInv'
<1>1. Contracts!Inv /\ MediatorTypes /\ WatchersOK /\ StoredOK /\ KeysOK
  BY Parts
<1>2. /\ faults.crash < MaxCrashes /\ faults' = [faults EXCEPT !.crash = faults.crash + 1]
      /\ proc' = [proc EXCEPT ![a] = "down"] /\ todo' = [todo EXCEPT ![a] = {}]
      /\ watcher' = [watcher EXCEPT ![a] = Idle]
      /\ deployed_files' = [deployed_files EXCEPT ![a] = [m \in Merchs |-> NoFile]]
      /\ Lose({t \in tasks : t.who = a})
      /\ UNCHANGED chainVars /\ UNCHANGED <<merchandiseState, progressBuyer, log, owner, pubKeys>>
      /\ UNCHANGED <<uploads, db, starts, arrived, downloads, verdicts>>
  BY DEF crash, chainVars, storageVars
<1>3. Contracts!Inv'
  BY <1>1, <1>2, ChainStep
<1>4. TasksOK' /\ WorkersOK' /\ abandoned' \subseteq Merchs
  <2>1. PICK S : S = {t \in tasks : t.who = a}
    OBVIOUS
  <2>2. tasks' = tasks \ S /\ abandoned' = abandoned \cup {log[t.entry].address : t \in {u \in S : Working(u)}}
    BY <1>2, <2>1 DEF Lose, Merch
  <2>3. abandoned' = abandoned \cup {log[t.entry].address : t \in {u \in tasks \cap S : Working(u)}}
    <3>1. tasks \cap S = S
      BY <2>1
    <3>2. QED
      BY <2>2, <3>1
  <2>4. \A t \in tasks \ S : proc'[t.who] # "down"
    BY <1>1, <1>2, <2>1, Parts DEF TasksOK, Role, MediatorTypes, TaskShape
  <2>5. QED
    BY <1>2, <2>2, <2>3, <2>4, Leave
<1>5. MediatorTypes'
  <2>1. faults' \in [crash: 0..MaxCrashes, tamper: 0..MaxTampers, failure: 0..MaxFailures]
    <3>1. PICK n : n = faults.crash + 1
      OBVIOUS
    <3>2. faults.crash \in 0..MaxCrashes /\ MaxCrashes \in Nat
      BY <1>1, MediatorAssumption DEF MediatorTypes
    <3>3. n \in 0..MaxCrashes
      BY <1>2, <3>1, <3>2
    <3>4. QED
      BY <1>1, <1>2, <3>1, <3>3 DEF MediatorTypes
  <2>2. Idle \in WatcherShape
    BY DEF Idle, WatcherShape
  <2>3. /\ proc' \in [Accounts -> {"down", "started", "running", "deaf"}] /\ todo' \in [Accounts -> SUBSET Files]
        /\ watcher' \in [Accounts -> WatcherShape] /\ deployed_files' \in [Accounts -> [Merchs -> Files \cup {NoFile}]]
    BY <1>1, <1>2, <2>2 DEF MediatorTypes
  <2>4. tasks' \subseteq TaskShape
    BY <1>1, <1>2 DEF MediatorTypes, Lose
  <2>5. QED
    BY <1>1, <1>2, <1>4, <2>1, <2>3, <2>4 DEF MediatorTypes
<1>6. WatchersOK' /\ StoredOK' /\ KeysOK'
  <2>1. Idle.pc = "idle"
    BY DEF Idle
  <2>2. QED
    BY <1>1, <1>2, <2>1 DEF WatchersOK, StoredOK, KeysOK, MediatorTypes
<1>7. QED
  BY <1>3, <1>4, <1>5, <1>6 DEF MediatorInv
\* What a step of a task or a wallet leaves to show.
LEMMA Rest ==
  ASSUME MediatorInv, Contracts!Inv', TasksOK', WorkersOK', tasks' \subseteq TaskShape, abandoned' \subseteq Merchs,
         UNCHANGED <<proc, starts, todo, watcher, deployed_files, arrived, faults, pubKeys>>,
         UNCHANGED <<uploads, db>> \/ (StoredOK' /\ uploads' \in [Names -> Contents \cup {NoFile}] /\ db' \in Seq(Names \cup {NoFile})),
         downloads' \in [Accounts -> [Names -> Contents \cup {NoFile}]],
         verdicts' \subseteq [merch: Merchs, buyer: Buyers, ok: BOOLEAN, result: BOOLEAN],
         \A m \in Merchs : progressBuyer'[m] \in {progressBuyer[m], NoAccount}
                           \/ (progressBuyer'[m] \in Buyers /\ pubKeys[progressBuyer'[m]] # NoKey)
  PROVE  MediatorInv'
<1>1. MediatorTypes /\ WatchersOK /\ StoredOK /\ KeysOK
  BY Parts
<1>2. MediatorTypes'
  BY <1>1 DEF MediatorTypes
<1>3. StoredOK'
  BY <1>1 DEF StoredOK
<1>4. WatchersOK' /\ KeysOK'
  BY <1>1 DEF WatchersOK, KeysOK
<1>5. QED
  BY <1>2, <1>3, <1>4 DEF MediatorInv

\* A wallet purchases.
LEMMA PurchaseKeeps ==
  ASSUME MediatorInv, NEW m \in Merchs, NEW b \in Buyers, purchase(m, b)
  PROVE  MediatorInv'
<1>1. Contracts!Inv /\ MediatorTypes /\ TasksOK /\ WorkersOK /\ b \in Accounts
  BY Parts
<1>2. PICK e : e = Chain!Purchase(m, b, pubKeys[b])
  OBVIOUS
<1>3. e.event = "Purchase" /\ e.address = m /\ e.buyer = b
  BY <1>2 DEF Chain!Purchase
<1>4. /\ Chain!purchase(m, b, Price) /\ Dispatch(tasks)
      /\ UNCHANGED <<uploads, db, proc, starts, todo, watcher, deployed_files, arrived, downloads, faults, verdicts>>
  BY DEF purchase, storageVars, processVars, watcherVars
<1>5. /\ merchandiseState[m] = "SALE" /\ owner[m] # NoAccount /\ pubKeys[b] # NoKey
      /\ merchandiseState' = [merchandiseState EXCEPT ![m] = "IN_PROGRESS"]
      /\ progressBuyer' = [progressBuyer EXCEPT ![m] = b] /\ log' = Append(log, e)
      /\ UNCHANGED <<pubKeys, owner>>
  BY <1>2, <1>4 DEF Chain!purchase, Chain!CanPurchase, Chain!deployed, Chain!CanGetPubKey, Chain!existKey, Chain!getPubKey
<1>6. Contracts!Inv'
  BY <1>1, <1>4, ChainStep
<1>7. Addressee(e) \in Accounts /\ NeedsHandling(e)
  BY <1>1, <1>3, <1>5, ChainFacts DEF Addressee, NeedsHandling
<1>8. \A u \in tasks : u \in TaskShape /\ Role(u) /\ Holds(u) /\ (Working(u) => log[u.entry].address # m)
  BY <1>1, <1>5 DEF MediatorTypes, TasksOK, WorkersOK, OnSale
<1>9. m \notin abandoned
  BY <1>1, <1>5 DEF WorkersOK
<1>10. /\ \A n \in Merchs \ {m} : merchandiseState'[n] = merchandiseState[n] /\ progressBuyer'[n] = progressBuyer[n]
       /\ merchandiseState'[m] = "IN_PROGRESS" /\ progressBuyer'[m] = b
  BY <1>1, <1>5, ChainFacts
<1>11. tasks' \subseteq TaskShape /\ abandoned' \subseteq Merchs /\ TasksOK' /\ WorkersOK'
  BY <1>3, <1>4, <1>5, <1>7, <1>8, <1>9, <1>10, Emitted
<1>12. QED
  BY <1>1, <1>4, <1>5, <1>6, <1>10, <1>11, Rest DEF MediatorTypes
\* A file stored in place of another leaves every key leading to a file.
LEMMA Uploaded ==
  ASSUME MediatorInv, NEW f \in Files, Storage!upload(BaseName[f], f)
  PROVE  /\ StoredOK' /\ uploads' \in [Names -> Contents \cup {NoFile}] /\ db' \in Seq(Names \cup {NoFile})
         /\ Storage!NextKey \in Nat
<1>1. /\ uploads \in [Names -> Contents \cup {NoFile}] /\ db \in Seq(Names \cup {NoFile}) /\ StoredOK
  BY Parts DEF MediatorTypes
<1>2. PICK n : n = BaseName[f]
  OBVIOUS
<1>3. n \in Names /\ f \in Contents
  BY <1>2 DEF Names, Contents
<1>4. uploads' = [uploads EXCEPT ![n] = f] /\ db' = Append(db, n)
  BY <1>2 DEF Storage!upload
<1>5. /\ DOMAIN db' = 1..(Len(db) + 1) /\ DOMAIN db = 1..Len(db) /\ Len(db) \in Nat /\ db'[Len(db) + 1] = n
      /\ \A k \in DOMAIN db : db'[k] = db[k]
  BY <1>1, <1>4, Appends
<1>6. \A k \in DOMAIN db' : k \in DOMAIN db \/ k = Len(db) + 1
  BY <1>5
<1>7. uploads' \in [Names -> Contents \cup {NoFile}] /\ \A x \in Names : uploads'[x] = uploads[x] \/ uploads'[x] = f
  BY <1>1, <1>3, <1>4
<1>8. uploads'[n] = f
  BY <1>1, <1>3, <1>4
<1>9. StoredOK'
  BY <1>1, <1>3, <1>5, <1>6, <1>7, <1>8 DEF StoredOK
<1>10. db' \in Seq(Names \cup {NoFile}) /\ Storage!NextKey \in Nat
  BY <1>1, <1>3, <1>4, <1>5 DEF Storage!NextKey
<1>11. QED
  BY <1>7, <1>9, <1>10

\* A task gives up, or ends its work: the sale is abandoned in the first case only.
LEMMA GivesUp ==
  ASSUME MediatorInv, NEW t \in tasks, tasks' = tasks \ {t},
         \/ Working(t) /\ abandoned' = abandoned \cup {log[t.entry].address}
         \/ ~Working(t) /\ abandoned' = abandoned,
         UNCHANGED <<merchandiseState, progressBuyer, log, owner, downloads, proc>>
  PROVE  tasks' \subseteq TaskShape /\ TasksOK' /\ WorkersOK' /\ abandoned' \subseteq Merchs
<1>1. tasks \subseteq TaskShape /\ TasksOK
  BY Parts DEF MediatorTypes
<1>2. abandoned' = abandoned \cup {log[x.entry].address : x \in {u \in tasks \cap {t} : Working(u)}}
  <2>1. CASE Working(t)
    <3>1. {u \in tasks \cap {t} : Working(u)} = {t}
      BY <2>1
    <3>2. QED
      BY <2>1, <3>1
  <2>2. CASE ~Working(t)
    <3>1. {u \in tasks \cap {t} : Working(u)} = {}
      BY <2>2
    <3>2. QED
      BY <2>2, <3>1
  <2>3. QED
    BY <2>1, <2>2
<1>3. \A x \in tasks \ {t} : proc'[x.who] # "down"
  BY <1>1 DEF TasksOK, Role
<1>4. TasksOK' /\ WorkersOK' /\ abandoned' \subseteq Merchs
  BY <1>2, <1>3, Leave
<1>5. QED
  BY <1>1, <1>4

\* An owner's task posts the file it sells, or panics for want of one.
LEMMA PostKeeps ==
  ASSUME MediatorInv, NEW t \in tasks, post_file(t)
  PROVE  MediatorInv'
<1> DEFINE f == deployed_files[t.who][log[t.entry].address]
<1>1. Contracts!Inv /\ MediatorTypes /\ TasksOK /\ t \in TaskShape /\ t.who \in Accounts /\ Role(t) /\ t.pc = "post"
  BY Parts DEF MediatorTypes, TasksOK, TaskShape, post_file
<1>2. /\ UNCHANGED chainVars /\ UNCHANGED <<pubKeys, owner, merchandiseState, progressBuyer, log>>
      /\ UNCHANGED <<proc, starts, todo, watcher, deployed_files, arrived, downloads, faults, verdicts>>
  BY DEF post_file, chainVars, processVars, watcherVars
<1>3. Contracts!Inv'
  BY <1>1, <1>2, ChainStep
<1>4. /\ log[t.entry].address \in Merchs /\ t.entry \in DOMAIN log
      /\ log[t.entry].event = "Purchase" => log[t.entry].pubkey \in ValidKeys
  BY <1>1, ChainFacts DEF Role
<1>5. f \in Files \cup {NoFile} /\ Working(t)
  BY <1>1, <1>4 DEF MediatorTypes, Working
<1>6. CASE f # NoFile
  <2>1. /\ Storage!upload(BaseName[f], f) /\ UNCHANGED abandoned
        /\ Continue(t, IF Entry(t).event = "Purchase"
              THEN [t EXCEPT !.pc = "emit", !.uuid = Storage!NextKey, !.pubkey = Entry(t).pubkey]
              ELSE [t EXCEPT !.pc = "get_pubkey", !.uuid = Storage!NextKey])
    BY <1>6 DEF post_file, Merch
  <2>2. /\ StoredOK' /\ uploads' \in [Names -> Contents \cup {NoFile}] /\ db' \in Seq(Names \cup {NoFile})
        /\ Storage!NextKey \in Nat
    BY <1>5, <1>6, <2>1, Uploaded
  <2>3. PICK key \in Nat : key = Storage!NextKey
    BY <2>2
  <2>4. PICK u : u = IF log[t.entry].event = "Purchase"
              THEN [t EXCEPT !.pc = "emit", !.uuid = key, !.pubkey = log[t.entry].pubkey]
              ELSE [t EXCEPT !.pc = "get_pubkey", !.uuid = key]
    OBVIOUS
  <2>5. tasks' = (tasks \ {t}) \cup {u}
    BY <2>1, <2>3, <2>4 DEF Continue, Entry
  <2>6. DOMAIN t = {"who", "entry", "pc", "uuid", "pubkey", "name", "file", "ok"}
    BY <1>1 DEF TaskShape
  <2>7. /\ u \in TaskShape /\ u.entry = t.entry /\ u.who = t.who /\ u.pc \in {"get_pubkey", "emit"}
        /\ u.pc = "emit" => u.pubkey \in ValidKeys
    <3>1. CASE log[t.entry].event = "Purchase"
      <4>1. u = [t EXCEPT !.pc = "emit", !.uuid = key, !.pubkey = log[t.entry].pubkey]
        BY <2>4, <3>1
      <4>2. PICK k \in ValidKeys : k = log[t.entry].pubkey
        BY <1>4, <3>1
      <4>3. u = [t EXCEPT !.pc = "emit", !.uuid = key, !.pubkey = k]
        BY <4>1, <4>2
      <4>4. QED
        BY <1>1, <2>6, <4>3 DEF TaskShape, Pcs
    <3>2. CASE log[t.entry].event # "Purchase"
      <4>1. u = [t EXCEPT !.pc = "get_pubkey", !.uuid = key]
        BY <2>4, <3>2
      <4>2. QED
        BY <1>1, <2>6, <4>1 DEF TaskShape, Pcs
    <3>3. QED
      BY <3>1, <3>2
  <2>8. Working(u)
    BY <2>7 DEF Working
  <2>9. TasksOK' /\ WorkersOK'
    BY <1>1, <1>2, <1>5, <2>1, <2>5, <2>7, <2>8, Moves
  <2>10. tasks' \subseteq TaskShape /\ abandoned' \subseteq Merchs
    BY <1>1, <2>1, <2>5, <2>7 DEF MediatorTypes
  <2>11. QED
    BY <1>1, <1>2, <1>3, <2>2, <2>9, <2>10, Rest DEF MediatorTypes
<1>7. CASE f = NoFile
  <2>1. /\ tasks' = tasks \ {t} /\ abandoned' = abandoned \cup {log[t.entry].address}
        /\ UNCHANGED <<uploads, db>>
    BY <1>7 DEF post_file, GiveUp, Merch, storageVars
  <2>2. tasks' \subseteq TaskShape /\ TasksOK' /\ WorkersOK' /\ abandoned' \subseteq Merchs
    BY <1>2, <1>5, <2>1, GivesUp
  <2>3. QED
    BY <1>1, <1>2, <1>3, <2>1, <2>2, Rest DEF MediatorTypes
<1>8. QED
  BY <1>6, <1>7
\* What every step of a task can rely on.
LEMMA TaskFacts ==
  ASSUME MediatorInv, NEW t \in tasks
  PROVE  /\ Contracts!Inv /\ MediatorTypes /\ t \in TaskShape /\ t.who \in Accounts /\ Role(t) /\ Holds(t)
         /\ DOMAIN t = {"who", "entry", "pc", "uuid", "pubkey", "name", "file", "ok"}
         /\ t.entry \in DOMAIN log /\ log[t.entry].address \in Merchs /\ log[t.entry].buyer \in Accounts
         /\ Working(t) => OnSale(t)
  BY Parts, ChainFacts DEF MediatorTypes, TasksOK, WorkersOK, TaskShape, Role

\* An owner's task looks up the buyer's key, which there is while the buyer waits.
LEMMA LookupKeeps ==
  ASSUME MediatorInv, NEW t \in tasks, get_pubkey(t)
  PROVE  MediatorInv'
<1>1. /\ Contracts!Inv /\ MediatorTypes /\ t \in TaskShape /\ t.pc = "get_pubkey" /\ Working(t)
      /\ DOMAIN t = {"who", "entry", "pc", "uuid", "pubkey", "name", "file", "ok"}
  BY TaskFacts DEF get_pubkey, Working
<1>2. /\ UNCHANGED chainVars /\ UNCHANGED <<pubKeys, owner, merchandiseState, progressBuyer, log>>
      /\ UNCHANGED <<uploads, db, proc, starts, todo, watcher, deployed_files, arrived, downloads, faults, abandoned, verdicts>>
  BY DEF get_pubkey, chainVars, storageVars, processVars, watcherVars, historyVars
<1>3. PICK k : k = pubKeys[log[t.entry].buyer]
  OBVIOUS
<1>4. k \in ValidKeys
  <2>1. /\ pubKeys \in [Accounts -> ValidKeys \cup {NoKey}] /\ KeysOK /\ OnSale(t)
        /\ log[t.entry].address \in Merchs /\ log[t.entry].buyer \in Accounts /\ NoAccount \notin Accounts
    BY <1>1, TaskFacts, ChainFacts, Parts
  <2>2. QED
    BY <1>3, <2>1 DEF KeysOK, OnSale
<1>5. PICK u : u = [t EXCEPT !.pc = "emit", !.pubkey = k]
  OBVIOUS
<1>6. tasks' = (tasks \ {t}) \cup {u}
  BY <1>3, <1>5 DEF get_pubkey, Continue, Entry, Chain!getPubKey
<1>7. u \in TaskShape /\ u.entry = t.entry /\ u.who = t.who /\ u.pc = "emit" /\ u.pubkey \in ValidKeys
  BY <1>1, <1>4, <1>5 DEF TaskShape, Pcs
<1>8. Working(u)
  BY <1>7 DEF Working
<1>9. TasksOK' /\ WorkersOK'
  BY <1>1, <1>2, <1>6, <1>7, <1>8, Moves
<1>10. tasks' \subseteq TaskShape /\ Contracts!Inv'
  BY <1>1, <1>2, <1>6, <1>7, ChainStep DEF MediatorTypes
<1>11. QED
  BY <1>1, <1>2, <1>9, <1>10, Rest DEF MediatorTypes

\* An owner's task announces the upload to the buyer.
LEMMA AnnounceKeeps ==
  ASSUME MediatorInv, NEW t \in tasks, emit_upload(t)
  PROVE  MediatorInv'
<1>1. PICK m : m = log[t.entry].address
  OBVIOUS
<1>2. /\ Contracts!Inv /\ MediatorTypes /\ t \in TaskShape /\ t.who \in Accounts /\ t.pc = "emit" /\ Working(t)
      /\ t.pubkey \in ValidKeys /\ m \in Merchs /\ OnSale(t)
  BY <1>1, TaskFacts DEF emit_upload, Working, Holds
<1>3. PICK uri \in Uris : uri = encrypt(t.uuid, t.pubkey)
  BY <1>2 DEF encrypt, Uris, TaskShape
<1>4. /\ Chain!emitUpload(m, t.who, uri) /\ Dispatch(tasks \ {t})
      /\ UNCHANGED <<uploads, db, proc, starts, todo, watcher, deployed_files, arrived, downloads, faults, verdicts>>
  BY <1>1, <1>3 DEF emit_upload, Merch, storageVars, processVars, watcherVars
<1>5. PICK e : e = Chain!Upload(m, progressBuyer[m], uri)
  OBVIOUS
<1>6. e.event = "Upload" /\ e.address = m /\ e.buyer = progressBuyer[m]
  BY <1>5 DEF Chain!Upload
<1>7. log' = Append(log, e) /\ UNCHANGED <<pubKeys, owner, merchandiseState, progressBuyer>>
  BY <1>4, <1>5 DEF Chain!emitUpload
<1>8. Contracts!Inv'
  BY <1>2, <1>4, ChainStep
<1>9. merchandiseState[m] = "IN_PROGRESS" /\ m \notin abandoned /\ progressBuyer[m] \in Accounts
  BY <1>1, <1>2, TaskFacts DEF OnSale
<1>10. Addressee(e) \in Accounts /\ NeedsHandling(e)
  BY <1>6, <1>9 DEF Addressee, NeedsHandling
<1>11. /\ \A u \in tasks \ {t} : u \in TaskShape /\ Role(u) /\ Holds(u) /\ (Working(u) => u \in tasks /\ log[u.entry].address # m)
       /\ \A u \in tasks : Working(u) /\ log[u.entry].address # m => u \in tasks \ {t}
  BY <1>1, <1>2, Parts DEF MediatorTypes, TasksOK, WorkersOK
<1>12. tasks' \subseteq TaskShape /\ abandoned' \subseteq Merchs /\ TasksOK' /\ WorkersOK'
  BY <1>2, <1>4, <1>6, <1>7, <1>9, <1>10, <1>11, Emitted
<1>13. QED
  BY <1>2, <1>4, <1>7, <1>8, <1>12, Rest DEF MediatorTypes

\* An owner's task withdraws.
LEMMA WithdrawKeeps ==
  ASSUME MediatorInv, NEW t \in tasks, withdraw(t)
  PROVE  MediatorInv'
<1>1. /\ Contracts!Inv /\ MediatorTypes /\ ~Working(t) /\ log[t.entry].address \in Merchs /\ t.who \in Accounts
  BY TaskFacts DEF withdraw, Working
<1>2. /\ Chain!withdraw(log[t.entry].address, t.who) \/ UNCHANGED chainVars
      /\ tasks' = tasks \ {t}
      /\ UNCHANGED <<uploads, db, proc, starts, todo, watcher, deployed_files, arrived, downloads, faults, abandoned, verdicts>>
  BY DEF withdraw, Merch, storageVars, processVars, watcherVars, historyVars
<1>3. UNCHANGED <<pubKeys, owner, merchandiseState, progressBuyer, log>>
  BY <1>2 DEF Chain!withdraw, chainVars
<1>4. Contracts!Inv'
  BY <1>1, <1>2, ChainStep
<1>5. tasks' \subseteq TaskShape /\ TasksOK' /\ WorkersOK' /\ abandoned' \subseteq Merchs
  BY <1>1, <1>2, <1>3, GivesUp
<1>6. QED
  BY <1>1, <1>2, <1>3, <1>4, <1>5, Rest DEF MediatorTypes

\* A buyer's task notes the result it reads from the contract.
LEMMA ResultKeeps ==
  ASSUME MediatorInv, NEW t \in tasks, verification_result(t)
  PROVE  MediatorInv'
<1>1. /\ Contracts!Inv /\ MediatorTypes /\ ~Working(t) /\ log[t.entry].address \in Merchs /\ t.who \in Buyers /\ t.ok \in BOOLEAN
  BY TaskFacts DEF verification_result, Working, Role, TaskShape
<1>2. /\ tasks' = tasks \ {t}
      /\ verdicts' = verdicts \cup {[merch |-> log[t.entry].address, buyer |-> t.who, ok |-> t.ok,
                                     result |-> merchandiseState[log[t.entry].address] = "SALE"]}
      /\ UNCHANGED chainVars /\ UNCHANGED <<pubKeys, owner, merchandiseState, progressBuyer, log>>
      /\ UNCHANGED <<uploads, db, proc, starts, todo, watcher, deployed_files, arrived, downloads, faults, abandoned>>
  BY DEF verification_result, Merch, chainVars, storageVars, processVars, watcherVars
<1>3. Contracts!Inv'
  BY <1>1, <1>2, ChainStep
<1>4. tasks' \subseteq TaskShape /\ TasksOK' /\ WorkersOK' /\ abandoned' \subseteq Merchs
  BY <1>1, <1>2, GivesUp
<1>5. verdicts' \subseteq [merch: Merchs, buyer: Buyers, ok: BOOLEAN, result: BOOLEAN]
  <2>1. PICK v : v = [merch |-> log[t.entry].address, buyer |-> t.who, ok |-> t.ok,
                      result |-> merchandiseState[log[t.entry].address] = "SALE"]
    OBVIOUS
  <2>2. v \in [merch: Merchs, buyer: Buyers, ok: BOOLEAN, result: BOOLEAN]
    BY <1>1, <2>1, Zenon
  <2>3. verdicts' = verdicts \cup {v}
    BY <1>2, <2>1, Zenon
  <2>4. QED
    BY <1>1, <2>2, <2>3 DEF MediatorTypes
<1>6. QED
  BY <1>1, <1>2, <1>3, <1>4, <1>5, Rest DEF MediatorTypes
\* A buyer's task downloads what the key leads to, or gives up.
LEMMA DownloadKeeps ==
  ASSUME MediatorInv, NEW t \in tasks, download_file(t)
  PROVE  MediatorInv'
<1>1. /\ Contracts!Inv /\ MediatorTypes /\ t \in TaskShape /\ t.pc = "fetch" /\ Working(t)
      /\ DOMAIN t = {"who", "entry", "pc", "uuid", "pubkey", "name", "file", "ok"}
  BY TaskFacts DEF download_file, Working
<1>2. /\ UNCHANGED chainVars /\ UNCHANGED <<pubKeys, owner, merchandiseState, progressBuyer, log>>
      /\ UNCHANGED <<uploads, db, proc, starts, todo, watcher, deployed_files, arrived, downloads, faults, verdicts>>
  BY DEF download_file, chainVars, storageVars, processVars, watcherVars
<1>3. Contracts!Inv'
  BY <1>1, <1>2, ChainStep
<1>4. PICK key : key = log[t.entry].uri.uuid
  OBVIOUS
<1>5. ASSUME Storage!Found(key), UNCHANGED abandoned,
             Continue(t, [t EXCEPT !.pc = "save", !.name = Storage!FileName(key), !.file = Storage!FileBody(key)])
      PROVE  MediatorInv'
  <2>1. PICK n, c : n = db[key] /\ c = uploads[db[key]]
    OBVIOUS
  <2>2. n \in Names /\ c \in Contents
    <3>1. key \in DOMAIN db /\ db[key] # NoFile /\ db \in Seq(Names \cup {NoFile}) /\ StoredOK
      BY <1>1, <1>5, Parts DEF Storage!Found, MediatorTypes
    <3>2. db[key] \in Names
      BY <3>1
    <3>3. QED
      BY <2>1, <3>1, <3>2 DEF StoredOK
  <2>3. PICK u : u = [t EXCEPT !.pc = "save", !.name = n, !.file = c]
    OBVIOUS
  <2>4. tasks' = (tasks \ {t}) \cup {u}
    BY <1>5, <2>1, <2>3 DEF Continue, Storage!FileName, Storage!FileBody
  <2>5. u \in TaskShape /\ u.entry = t.entry /\ u.who = t.who /\ u.pc = "save" /\ u.name \in Names /\ u.file \in Contents
    BY <1>1, <2>2, <2>3 DEF TaskShape, Pcs
  <2>6. Working(u)
    BY <2>5 DEF Working
  <2>7. TasksOK' /\ WorkersOK'
    BY <1>1, <1>2, <1>5, <2>4, <2>5, <2>6, Moves
  <2>8. tasks' \subseteq TaskShape /\ abandoned' \subseteq Merchs
    BY <1>1, <1>5, <2>4, <2>5 DEF MediatorTypes
  <2>9. QED
    BY <1>1, <1>2, <1>3, <2>7, <2>8, Rest DEF MediatorTypes
<1>6. ASSUME GiveUp(t)
      PROVE  MediatorInv'
  <2>1. tasks' \subseteq TaskShape /\ TasksOK' /\ WorkersOK' /\ abandoned' \subseteq Merchs
    BY <1>1, <1>2, <1>6, GivesUp DEF GiveUp, Merch
  <2>2. QED
    BY <1>1, <1>2, <1>3, <2>1, Rest DEF MediatorTypes
<1>7. QED
  BY <1>4, <1>5, <1>6 DEF download_file, Entry

\* A buyer's task writes what it received to its directory.
LEMMA SaveKeeps ==
  ASSUME MediatorInv, NEW t \in tasks, save(t)
  PROVE  MediatorInv'
<1>1. /\ Contracts!Inv /\ MediatorTypes /\ t \in TaskShape /\ t.who \in Accounts /\ t.pc = "save" /\ Working(t)
      /\ t.name \in Names /\ t.file \in Contents
      /\ DOMAIN t = {"who", "entry", "pc", "uuid", "pubkey", "name", "file", "ok"}
  BY TaskFacts DEF save, Working, Holds
<1>2. /\ UNCHANGED chainVars /\ UNCHANGED <<pubKeys, owner, merchandiseState, progressBuyer, log>>
      /\ UNCHANGED <<uploads, db, proc, starts, todo, watcher, deployed_files, arrived, faults, abandoned, verdicts>>
  BY DEF save, chainVars, storageVars, processVars, watcherVars, historyVars
<1>3. Contracts!Inv'
  BY <1>1, <1>2, ChainStep
<1>4. PICK u : u = [t EXCEPT !.pc = "read", !.file = NoFile]
  OBVIOUS
<1>5. tasks' = (tasks \ {t}) \cup {u} /\ downloads' = [downloads EXCEPT ![t.who][t.name] = t.file]
  BY <1>4 DEF save, Continue
<1>6. u \in TaskShape /\ u.entry = t.entry /\ u.who = t.who /\ u.pc = "read" /\ u.name = t.name
  BY <1>1, <1>4 DEF TaskShape, Pcs
<1>7. downloads \in [Accounts -> [Names -> Contents \cup {NoFile}]]
  BY <1>1 DEF MediatorTypes
<1>8. /\ downloads' \in [Accounts -> [Names -> Contents \cup {NoFile}]] /\ downloads'[t.who][t.name] = t.file
      /\ \A a \in Accounts, n \in Names : downloads'[a][n] \in {downloads[a][n], t.file}
  BY <1>1, <1>5, <1>7
<1>9. Working(u)
  BY <1>6 DEF Working
<1>10. TasksOK' /\ WorkersOK'
  BY <1>1, <1>2, <1>5, <1>6, <1>8, <1>9, Moves
<1>11. tasks' \subseteq TaskShape
  BY <1>1, <1>5, <1>6 DEF MediatorTypes
<1>12. QED
  BY <1>1, <1>2, <1>3, <1>8, <1>10, <1>11, Rest DEF MediatorTypes

\* A buyer's task reads back what it wrote, or what another task wrote over it.
LEMMA ReadKeeps ==
  ASSUME MediatorInv, NEW t \in tasks, read(t)
  PROVE  MediatorInv'
<1>1. /\ Contracts!Inv /\ MediatorTypes /\ t \in TaskShape /\ t.pc = "read" /\ Working(t)
      /\ downloads[t.who][t.name] \in Contents
      /\ DOMAIN t = {"who", "entry", "pc", "uuid", "pubkey", "name", "file", "ok"}
  BY TaskFacts DEF read, Working, Holds
<1>2. /\ UNCHANGED chainVars /\ UNCHANGED <<pubKeys, owner, merchandiseState, progressBuyer, log>>
      /\ UNCHANGED <<uploads, db, proc, starts, todo, watcher, deployed_files, arrived, downloads, faults, abandoned, verdicts>>
  BY DEF read, chainVars, storageVars, processVars, watcherVars, historyVars
<1>3. Contracts!Inv'
  BY <1>1, <1>2, ChainStep
<1>4. PICK c \in Contents : c = downloads[t.who][t.name]
  BY <1>1
<1>5. PICK u : u = [t EXCEPT !.pc = "verify", !.file = c]
  OBVIOUS
<1>6. tasks' = (tasks \ {t}) \cup {u}
  BY <1>4, <1>5 DEF read, Continue
<1>7. u \in TaskShape /\ u.entry = t.entry /\ u.who = t.who /\ u.pc = "verify" /\ u.file \in Contents
  BY <1>1, <1>5 DEF TaskShape, Pcs
<1>8. Working(u)
  BY <1>7 DEF Working
<1>9. TasksOK' /\ WorkersOK'
  BY <1>1, <1>2, <1>6, <1>7, <1>8, Moves
<1>10. tasks' \subseteq TaskShape
  BY <1>1, <1>6, <1>7 DEF MediatorTypes
<1>11. QED
  BY <1>1, <1>2, <1>3, <1>9, <1>10, Rest DEF MediatorTypes

\* A buyer's task verifies: the owner is asked again, or withdraws, or the goods are banned.
LEMMA VerifyKeeps ==
  ASSUME MediatorInv, NEW t \in tasks, verify_product(t)
  PROVE  MediatorInv'
<1>1. PICK m : m = log[t.entry].address
  OBVIOUS
<1>2. /\ Contracts!Inv /\ MediatorTypes /\ t \in TaskShape /\ t.who \in Accounts /\ t.pc = "verify" /\ Working(t)
      /\ t.file \in Contents /\ m \in Merchs /\ OnSale(t) /\ t.entry \in DOMAIN log
      /\ proc[t.who] # "down" /\ t.who = log[t.entry].buyer
      /\ DOMAIN t = {"who", "entry", "pc", "uuid", "pubkey", "name", "file", "ok"}
  BY <1>1, TaskFacts DEF verify_product, Working, Holds, Role
<1>3. /\ merchandiseState[m] = "IN_PROGRESS" /\ progressBuyer[m] = t.who /\ m \notin abandoned /\ t.who \in Buyers
      /\ owner[m] \in Accounts
  <2>1. merchandiseState[m] = "IN_PROGRESS" /\ progressBuyer[m] = t.who /\ m \notin abandoned
    BY <1>1, <1>2 DEF OnSale
  <2>2. QED
    BY <1>2, <2>1, ChainFacts, Parts DEF KeysOK
<1>4. to_hash(t.file) \in Hashes
  BY <1>2 DEF Hashes
<1>5. PICK h, r : h = to_hash(t.file) /\ r = (to_hash(t.file) = dataHash[m]) /\ r \in BOOLEAN
  OBVIOUS
<1>6. PICK q : q = [t EXCEPT !.pc = "query", !.ok = r]
  OBVIOUS
<1>7. PICK stay : stay = (tasks \ {t}) \cup {q}
  OBVIOUS
<1>8. /\ Chain!verify(m, t.who, h) /\ Dispatch(stay)
      /\ UNCHANGED <<uploads, db, proc, starts, todo, watcher, deployed_files, arrived, downloads, faults, verdicts>>
  BY <1>1, <1>5, <1>6, <1>7, Zenon DEF verify_product, Merch, storageVars, processVars, watcherVars
<1>9. Contracts!Inv'
  BY <1>2, <1>4, <1>5, <1>8, ChainStep
<1>10. UNCHANGED <<pubKeys, owner>>
  BY <1>8 DEF Chain!verify
<1>11. q \in TaskShape /\ Role(q) /\ Holds(q) /\ ~Working(q)
  <2>1. q.pc = "query" /\ q.entry = t.entry /\ q.who = t.who /\ q \in TaskShape
    BY <1>2, <1>5, <1>6 DEF TaskShape, Pcs
  <2>2. QED
    BY <1>2, <1>3, <2>1 DEF Role, Holds, Working
<1>12. /\ \A u \in stay : u \in TaskShape /\ Role(u) /\ Holds(u) /\ (Working(u) => u \in tasks /\ log[u.entry].address # m)
       /\ \A u \in tasks : Working(u) /\ log[u.entry].address # m => u \in stay
  BY <1>1, <1>2, <1>7, <1>11, Parts DEF MediatorTypes, TasksOK, WorkersOK
<1>13. ASSUME NEW e, e.event = "Verify", e.address = m, e.buyer = t.who, e.result \in BOOLEAN, log' = Append(log, e),
              ~e.result => UNCHANGED <<merchandiseState, progressBuyer>>,
              e.result => /\ merchandiseState' = [merchandiseState EXCEPT ![m] = "SALE"]
                          /\ progressBuyer' = [progressBuyer EXCEPT ![m] = NoAccount]
       PROVE  tasks' \subseteq TaskShape /\ abandoned' \subseteq Merchs /\ TasksOK' /\ WorkersOK'
  <2>1. Addressee(e) \in Accounts /\ (NeedsHandling(e) <=> ~e.result)
    BY <1>3, <1>13 DEF Addressee, NeedsHandling
  <2>2. /\ \A n \in Merchs \ {m} : merchandiseState'[n] = merchandiseState[n] /\ progressBuyer'[n] = progressBuyer[n]
        /\ NeedsHandling(e) => merchandiseState'[m] = "IN_PROGRESS" /\ progressBuyer'[m] = e.buyer
        /\ ~NeedsHandling(e) => merchandiseState'[m] # "IN_PROGRESS"
    BY <1>2, <1>3, <1>13, <2>1, ChainFacts
  <2>3. QED
    BY <1>2, <1>3, <1>8, <1>10, <1>12, <1>13, <2>1, <2>2, Emitted
<1>14. CASE Chain!RequestAgain(m, t.who)
  <2>1. PICK e : e = Chain!Verify(m, t.who, FALSE)
    OBVIOUS
  <2>2. e.event = "Verify" /\ e.address = m /\ e.buyer = t.who /\ e.result = FALSE
    BY <2>1, Zenon DEF Chain!Verify
  <2>3. log' = Append(log, e) /\ UNCHANGED <<merchandiseState, progressBuyer>>
    BY <1>14, <2>1, Zenon DEF Chain!RequestAgain
  <2>4. tasks' \subseteq TaskShape /\ abandoned' \subseteq Merchs /\ TasksOK' /\ WorkersOK'
    BY <1>13, <2>2, <2>3
  <2>5. QED
    BY <1>2, <1>8, <1>9, <1>10, <2>3, <2>4, Rest DEF MediatorTypes
<1>15. CASE Chain!Confirm(m, t.who)
  <2>1. PICK e : e = Chain!Verify(m, t.who, TRUE)
    OBVIOUS
  <2>2. e.event = "Verify" /\ e.address = m /\ e.buyer = t.who /\ e.result = TRUE
    BY <2>1, Zenon DEF Chain!Verify
  <2>3. log' = Append(log, e)
    BY <1>15, <2>1, Zenon DEF Chain!Confirm
  <2>4. /\ merchandiseState' = [merchandiseState EXCEPT ![m] = "SALE"]
        /\ progressBuyer' = [progressBuyer EXCEPT ![m] = NoAccount]
    BY <1>15, Zenon DEF Chain!Confirm
  <2>5. tasks' \subseteq TaskShape /\ abandoned' \subseteq Merchs /\ TasksOK' /\ WorkersOK'
    BY <1>13, <2>2, <2>3, <2>4
  <2>6. \A n \in Merchs : progressBuyer'[n] \in {progressBuyer[n], NoAccount}
    BY <1>2, <2>4, ChainFacts
  <2>7. QED
    BY <1>2, <1>8, <1>9, <1>10, <2>5, <2>6, Rest DEF MediatorTypes
<1>16. CASE Chain!Ban(m)
  <2>1. merchandiseState' = [merchandiseState EXCEPT ![m] = "BANNED"] /\ UNCHANGED <<log, progressBuyer>>
    BY <1>16 DEF Chain!Ban
  <2>2. tasks' = stay /\ UNCHANGED abandoned
    BY <1>8, <2>1 DEF Dispatch
  <2>3. \A n \in Merchs : IF n = m THEN merchandiseState'[n] = "BANNED" ELSE merchandiseState'[n] = merchandiseState[n]
    BY <1>2, <2>1, ChainFacts
  <2>4. TasksOK'
    BY <1>8, <1>10, <1>12, <2>1, <2>2 DEF TasksOK, Role, Holds
  <2>5. WorkersOK'
    <3>1. /\ WorkersOK /\ abandoned \subseteq Merchs /\ \A u \in tasks : log[u.entry].address \in Merchs
      BY <1>2, Parts, TaskFacts DEF MediatorTypes
    <3>2. \A u \in tasks' : Working(u) => OnSale(u)'
      BY <1>12, <2>1, <2>2, <2>3, <3>1 DEF WorkersOK, OnSale
    <3>3. \A u, v \in tasks' : Working(u) /\ Working(v) /\ log[u.entry].address = log[v.entry].address => u = v
      BY <1>12, <2>2, <3>1 DEF WorkersOK
    <3>4. \A n \in Merchs : /\ merchandiseState'[n] = "IN_PROGRESS" /\ n \notin abandoned =>
                                 \E u \in tasks' : Working(u) /\ log[u.entry].address = n
                            /\ n \in abandoned => merchandiseState'[n] = "IN_PROGRESS"
      BY <1>3, <1>12, <2>2, <2>3, <3>1 DEF WorkersOK
    <3>5. QED
      BY <2>1, <2>2, <3>2, <3>3, <3>4 DEF WorkersOK, Working
  <2>6. tasks' \subseteq TaskShape /\ abandoned' \subseteq Merchs
    BY <1>2, <1>12, <2>2 DEF MediatorTypes
  <2>7. QED
    BY <1>2, <1>8, <1>9, <1>10, <2>1, <2>4, <2>5, <2>6, Rest DEF MediatorTypes
<1>17. QED
  BY <1>8, <1>14, <1>15, <1>16 DEF Chain!verify
\* One more fault of a kind is within its bound.
LEMMA Faulted ==
  ASSUME MediatorTypes
  PROVE  /\ faults.failure < MaxFailures /\ faults' = [faults EXCEPT !.failure = faults.failure + 1] =>
              faults' \in [crash: 0..MaxCrashes, tamper: 0..MaxTampers, failure: 0..MaxFailures]
         /\ faults.tamper < MaxTampers /\ faults' = [faults EXCEPT !.tamper = faults.tamper + 1] =>
              faults' \in [crash: 0..MaxCrashes, tamper: 0..MaxTampers, failure: 0..MaxFailures]
<1>1. /\ MaxFailures \in Nat /\ MaxTampers \in Nat
      /\ faults \in [crash: 0..MaxCrashes, tamper: 0..MaxTampers, failure: 0..MaxFailures]
  BY MediatorAssumption DEF MediatorTypes
<1>2. faults.failure \in 0..MaxFailures /\ faults.tamper \in 0..MaxTampers
  BY <1>1
<1>3. PICK n, k : n = faults.failure + 1 /\ k = faults.tamper + 1
  OBVIOUS
<1>4. (faults.failure < MaxFailures => n \in 0..MaxFailures) /\ (faults.tamper < MaxTampers => k \in 0..MaxTampers)
  BY <1>1, <1>2, <1>3
<1>5. QED
  BY <1>1, <1>3, <1>4

\* A deployment, a registration, a request or a poll fails.
LEMMA FailureKeeps ==
  ASSUME MediatorInv, Failure
  PROVE  MediatorInv'
<1>1. Contracts!Inv /\ MediatorTypes /\ WatchersOK /\ StoredOK /\ KeysOK /\ TasksOK /\ WorkersOK /\ Owners \subseteq Accounts
  BY Parts
<1>2. /\ faults.failure < MaxFailures /\ faults' = [faults EXCEPT !.failure = faults.failure + 1]
      /\ UNCHANGED chainVars /\ UNCHANGED <<pubKeys, owner, merchandiseState, progressBuyer, log>>
      /\ UNCHANGED <<uploads, db, starts, deployed_files, arrived, downloads>>
  BY DEF Failure, chainVars, storageVars
<1>3. Contracts!Inv' /\ faults' \in [crash: 0..MaxCrashes, tamper: 0..MaxTampers, failure: 0..MaxFailures]
  BY <1>1, <1>2, ChainStep, Faulted
<1>4. StoredOK'
  BY <1>1, <1>2 DEF StoredOK
<1>5. ASSUME NEW a \in Owners, NEW f \in todo[a], deploy_fails(a, f)
      PROVE  MediatorInv'
  <2>1. todo' = [todo EXCEPT ![a] = todo[a] \ {f}] /\ UNCHANGED <<proc, watcher, tasks, abandoned, verdicts>>
    BY <1>5 DEF deploy_fails, historyVars
  <2>2. TasksOK' /\ WorkersOK' /\ WatchersOK' /\ KeysOK'
    BY <1>1, <1>2, <2>1, Aside DEF WatchersOK, KeysOK
  <2>3. MediatorTypes'
    BY <1>1, <1>2, <1>3, <2>1 DEF MediatorTypes
  <2>4. QED
    BY <1>3, <1>4, <2>2, <2>3 DEF MediatorInv
<1>6. ASSUME NEW a \in Owners, register_fails(a)
      PROVE  MediatorInv'
  <2>1. PICK w : w = IF watcher[a].file \in Movies THEN [Idle EXCEPT !.pc = "dead"] ELSE Idle
    OBVIOUS
  <2>2. watcher' = [watcher EXCEPT ![a] = w] /\ UNCHANGED <<proc, todo, tasks, abandoned, verdicts>>
    BY <1>6, <2>1 DEF register_fails, historyVars
  <2>3. w \in WatcherShape /\ w.pc \in {"idle", "dead"}
    BY <2>1 DEF Idle, WatcherShape
  <2>4. TasksOK' /\ WorkersOK' /\ KeysOK'
    BY <1>1, <1>2, <2>2, Aside DEF KeysOK
  <2>5. MediatorTypes' /\ WatchersOK'
    BY <1>1, <1>2, <1>3, <2>2, <2>3 DEF MediatorTypes, WatchersOK
  <2>6. QED
    BY <1>3, <1>4, <2>4, <2>5 DEF MediatorInv
<1>7. ASSUME NEW t \in tasks, request_fails(t)
      PROVE  MediatorInv'
  <2>1. UNCHANGED <<proc, todo, watcher, verdicts>> /\ t \in TaskShape /\ Role(t)
    BY <1>1, <1>7 DEF request_fails, MediatorTypes, TasksOK
  <2>2. tasks' \subseteq TaskShape /\ TasksOK' /\ WorkersOK' /\ abandoned' \subseteq Merchs
    <3>1. CASE /\ tasks' = tasks \ {t}
               /\ \/ Working(t) /\ abandoned' = abandoned \cup {log[t.entry].address}
                  \/ ~Working(t) /\ abandoned' = abandoned
      BY <1>2, <2>1, <3>1, GivesUp
    <3>2. CASE t.pc \in {"post", "get_pubkey", "emit", "fetch", "save", "read"} /\ GiveUp(t)
      BY <3>1, <3>2 DEF GiveUp, Working, Merch
    <3>3. CASE t.pc \in {"withdraw", "query"} /\ Lose({t})
      <4>1. ~Working(t) /\ tasks' = tasks \ {t} /\ abandoned' = abandoned \cup {Merch(u) : u \in {x \in {t} : Working(x)}}
        BY <3>3 DEF Lose, Working
      <4>2. {x \in {t} : Working(x)} = {}
        BY <4>1
      <4>3. QED
        BY <3>1, <4>1, <4>2
    <3>4. CASE /\ t.pc = "verify" /\ Continue(t, [t EXCEPT !.pc = "query"])
               /\ abandoned' = abandoned \cup {Merch(t)}
      <4>1. PICK u : u = [t EXCEPT !.pc = "query"]
        OBVIOUS
      <4>2. /\ u \in TaskShape /\ u.pc = "query" /\ u.entry = t.entry /\ u.who = t.who /\ ~Working(u)
        BY <2>1, <4>1 DEF TaskShape, Pcs, Working
      <4>3. tasks' = (tasks \ {t}) \cup {u} /\ abandoned' = abandoned \cup {log[t.entry].address} /\ Working(t)
        BY <3>4, <4>1 DEF Continue, Merch, Working
      <4>4. Role(u)' /\ Holds(u)'
        <5>1. OnSale(t) /\ log[t.entry].event = "Upload" /\ t.who = log[t.entry].buyer
          BY <1>1, <2>1, <3>4, <4>3 DEF WorkersOK, Role
        <5>2. log[t.entry].address \in Merchs /\ log[t.entry].buyer \in Accounts
          BY <1>1, <2>1, ChainFacts DEF Role
        <5>3. t.who \in Buyers
          BY <1>1, <5>1, <5>2, ChainFacts DEF KeysOK, OnSale
        <5>4. QED
          BY <1>2, <2>1, <4>2, <5>3 DEF Role, Holds
      <4>5. TasksOK'
        BY <1>1, <1>2, <2>1, <4>3, <4>4 DEF TasksOK, Role, Holds
      <4>6. log[t.entry].address \in Merchs /\ abandoned' \subseteq Merchs
        BY <1>1, <2>1, <4>3, ChainFacts DEF Role, MediatorTypes
      <4>7. WorkersOK'
        <5>1. \A x \in tasks' : Working(x) => x \in tasks \ {t}
          BY <4>2, <4>3
        <5>2. \A x \in tasks' : Working(x) => OnSale(x)'
          BY <1>1, <1>2, <4>3, <5>1 DEF WorkersOK, OnSale
        <5>3. \A x, y \in tasks' : Working(x) /\ Working(y) /\ log[x.entry].address = log[y.entry].address => x = y
          BY <1>1, <5>1 DEF WorkersOK
        <5>4. \A m \in Merchs : /\ merchandiseState[m] = "IN_PROGRESS" /\ m \notin abandoned' =>
                                     \E x \in tasks' : Working(x) /\ log[x.entry].address = m
                                /\ m \in abandoned' => merchandiseState[m] = "IN_PROGRESS"
          BY <1>1, <4>3 DEF WorkersOK, OnSale
        <5>5. QED
          BY <1>2, <5>2, <5>3, <5>4 DEF WorkersOK, Working
      <4>8. QED
        BY <1>1, <4>2, <4>3, <4>5, <4>6, <4>7 DEF MediatorTypes
    <3>5. QED
      BY <1>7, <3>2, <3>3, <3>4 DEF request_fails
  <2>3. MediatorTypes' /\ WatchersOK' /\ KeysOK'
    BY <1>1, <1>2, <1>3, <2>1, <2>2 DEF MediatorTypes, WatchersOK, KeysOK
  <2>4. QED
    BY <1>3, <1>4, <2>2, <2>3 DEF MediatorInv
<1>8. ASSUME NEW a \in Accounts, NEW i \in 0..Len(log), poll_fails(a, i)
      PROVE  MediatorInv'
  <2>1. PICK S : S = {t \in tasks : t.who = a /\ t.entry > i}
    OBVIOUS
  <2>2. /\ proc[a] \in {"started", "running"} /\ proc' = [proc EXCEPT ![a] = "deaf"] /\ Lose(S)
        /\ UNCHANGED <<todo, watcher, verdicts>>
    BY <1>8, <2>1 DEF poll_fails
  <2>3. /\ proc' \in [Accounts -> {"down", "started", "running", "deaf"}]
        /\ \A x \in Accounts : proc'[x] # "down" <=> proc[x] # "down"
    BY <1>1, <2>2 DEF MediatorTypes
  <2>4. tasks' = tasks \ S /\ abandoned' = abandoned \cup {log[t.entry].address : t \in {u \in tasks \cap S : Working(u)}}
    <3>1. tasks \cap S = S
      BY <2>1
    <3>2. QED
      BY <2>2, <3>1 DEF Lose, Merch
  <2>5. \A t \in tasks \ S : proc'[t.who] # "down"
    BY <1>1, <2>3 DEF TasksOK, Role, MediatorTypes, TaskShape
  <2>6. TasksOK' /\ WorkersOK' /\ abandoned' \subseteq Merchs
    BY <1>2, <2>4, <2>5, Leave
  <2>7. MediatorTypes' /\ WatchersOK' /\ KeysOK'
    BY <1>1, <1>2, <1>3, <2>2, <2>3, <2>4, <2>6 DEF MediatorTypes, WatchersOK, KeysOK
  <2>8. QED
    BY <1>3, <1>4, <2>6, <2>7 DEF MediatorInv
<1>9. QED
  BY <1>5, <1>6, <1>7, <1>8 DEF Failure

\* The storage restarts, and knows no key any more.
LEMMA RestartKeeps ==
  ASSUME MediatorInv, StorageRestart
  PROVE  MediatorInv'
<1>1. Contracts!Inv /\ MediatorTypes /\ WatchersOK /\ StoredOK /\ KeysOK
  BY Parts
<1>2. /\ faults.failure < MaxFailures /\ faults' = [faults EXCEPT !.failure = faults.failure + 1]
      /\ db' = [k \in DOMAIN db |-> NoFile]
      /\ UNCHANGED chainVars /\ UNCHANGED <<pubKeys, owner, merchandiseState, progressBuyer, log>>
      /\ UNCHANGED <<uploads, proc, starts, todo, watcher, deployed_files, arrived, downloads, tasks, abandoned, verdicts>>
  BY DEF StorageRestart, Storage!Restart, chainVars, processVars, watcherVars, historyVars
<1>3. Contracts!Inv' /\ TasksOK' /\ WorkersOK'
  BY <1>1, <1>2, ChainStep, Aside
<1>4. faults' \in [crash: 0..MaxCrashes, tamper: 0..MaxTampers, failure: 0..MaxFailures]
  BY <1>1, <1>2, Faulted
<1>5. db' \in Seq(Names \cup {NoFile})
  <2>1. DOMAIN db = 1..Len(db) /\ Len(db) \in Nat
    BY <1>1 DEF MediatorTypes
  <2>2. QED
    BY <1>2, <2>1
<1>6. MediatorTypes'
  BY <1>1, <1>2, <1>4, <1>5 DEF MediatorTypes
<1>7. WatchersOK' /\ StoredOK' /\ KeysOK'
  BY <1>1, <1>2, MediatorAssumption DEF WatchersOK, StoredOK, KeysOK
<1>8. QED
  BY <1>3, <1>6, <1>7 DEF MediatorInv

\* A stored file is altered.
LEMMA TamperingKeeps ==
  ASSUME MediatorInv, Tampering
  PROVE  MediatorInv'
<1>1. Contracts!Inv /\ MediatorTypes /\ WatchersOK /\ StoredOK /\ KeysOK
  BY Parts
<1>2. PICK n \in Names : uploads' = [uploads EXCEPT ![n] = Corrupt]
  BY DEF Tampering, Storage!Tamper
<1>3. /\ faults.tamper < MaxTampers /\ faults' = [faults EXCEPT !.tamper = faults.tamper + 1]
      /\ UNCHANGED chainVars /\ UNCHANGED <<pubKeys, owner, merchandiseState, progressBuyer, log>>
      /\ UNCHANGED <<db, proc, starts, todo, watcher, deployed_files, arrived, downloads, tasks, abandoned, verdicts>>
  BY DEF Tampering, Storage!Tamper, chainVars, processVars, watcherVars, historyVars
<1>4. Contracts!Inv' /\ TasksOK' /\ WorkersOK'
  BY <1>1, <1>3, ChainStep, Aside
<1>5. faults' \in [crash: 0..MaxCrashes, tamper: 0..MaxTampers, failure: 0..MaxFailures]
  BY <1>1, <1>3, Faulted
<1>6. uploads' \in [Names -> Contents \cup {NoFile}] /\ \A x \in Names : uploads'[x] \in {uploads[x], Corrupt}
  BY <1>1, <1>2 DEF MediatorTypes, Contents
<1>7. MediatorTypes'
  BY <1>1, <1>3, <1>5, <1>6 DEF MediatorTypes
<1>8. WatchersOK' /\ StoredOK' /\ KeysOK'
  BY <1>1, <1>3, <1>6 DEF WatchersOK, StoredOK, KeysOK, Contents
<1>9. QED
  BY <1>4, <1>7, <1>8 DEF MediatorInv

\* No step leaves the invariant.
LEMMA MediatorStep == MediatorInv /\ [Next]_vars => MediatorInv'
<1> SUFFICES ASSUME MediatorInv, [Next]_vars
             PROVE  MediatorInv'
  OBVIOUS
<1>1. CASE Next
  BY <1>1, PostKeeps, LookupKeeps, AnnounceKeeps, WithdrawKeeps, DownloadKeeps, SaveKeeps, ReadKeeps, VerifyKeeps,
     ResultKeeps, WatcherKeeps, ArrivalKeeps, StartKeeps, FilterKeeps, CrashKeeps, PurchaseKeeps, FailureKeeps,
     RestartKeeps, TamperingKeeps
     DEF Next, TaskStep
<1>2. CASE UNCHANGED vars
  <2>1. /\ UNCHANGED chainVars /\ UNCHANGED <<pubKeys, owner, merchandiseState, progressBuyer, log>>
        /\ UNCHANGED <<uploads, db, proc, starts, todo, watcher, deployed_files, arrived, downloads, tasks, faults,
                       abandoned, verdicts>>
    BY <1>2 DEF vars, chainVars, storageVars, processVars, watcherVars, historyVars
  <2>2. Contracts!Inv' /\ TasksOK' /\ WorkersOK'
    BY <2>1, Parts, ChainStep, Aside
  <2>3. MediatorTypes' /\ WatchersOK' /\ StoredOK' /\ KeysOK'
    BY <2>1, Parts DEF MediatorTypes, WatchersOK, StoredOK, KeysOK
  <2>4. QED
    BY <2>2, <2>3 DEF MediatorInv
<1>3. QED
  BY <1>1, <1>2

\* Every reachable state satisfies the invariant.
LEMMA MediatorInvariance == Spec => []MediatorInv
  BY MediatorInitInv, MediatorStep, PTL DEF Spec
-----------------------------------------------------------------------------
(***************************************************************************)
(* A purchase in progress has exactly one task working on it, for its      *)
(* buyer, whichever way the steps of tasks, wallets and crashes interleave,*)
(* unless it has been abandoned; and an abandoned one never ends.          *)
(***************************************************************************)
THEOREM OneWorker == Spec => []OneWorkerPerSale
<1>1. MediatorInv => OneWorkerPerSale
  <2> SUFFICES ASSUME MediatorInv, NEW m \in Merchs
               PROVE  /\ Cardinality(WorkersOn(m)) = IF merchandiseState[m] = "IN_PROGRESS" /\ m \notin abandoned THEN 1 ELSE 0
                      /\ m \in abandoned => merchandiseState[m] = "IN_PROGRESS"
                      /\ \A t \in WorkersOn(m) : Entry(t).buyer = progressBuyer[m]
    BY DEF OneWorkerPerSale
  <2>1. WorkersOK
    BY Parts
  <2>2. CASE merchandiseState[m] = "IN_PROGRESS" /\ m \notin abandoned
    <3>1. PICK t \in tasks : Working(t) /\ log[t.entry].address = m
      BY <2>1, <2>2 DEF WorkersOK
    <3>2. WorkersOn(m) = {t}
      BY <2>1, <3>1 DEF WorkersOK, WorkersOn, Merch
    <3>3. Cardinality(WorkersOn(m)) = 1
      BY <3>2, FS_Singleton
    <3>4. QED
      BY <2>1, <2>2, <3>1, <3>2, <3>3 DEF WorkersOK, OnSale, Entry
  <2>3. CASE ~(merchandiseState[m] = "IN_PROGRESS" /\ m \notin abandoned)
    <3>1. WorkersOn(m) = {}
      BY <2>1, <2>3 DEF WorkersOK, WorkersOn, Merch, OnSale
    <3>2. QED
      BY <2>1, <2>3, <3>1, FS_EmptySet DEF WorkersOK
  <2>4. QED
    BY <2>2, <2>3
<1>2. QED
  BY <1>1, MediatorInvariance, PTL

(***************************************************************************)
(* No transaction a task sends can revert, although the task decided to    *)
(* send it from a log that may be old by then.                             *)
(***************************************************************************)
THEOREM TransactionsSucceed == Spec => []CallsNeverRevert
<1>1. MediatorInv => CallsNeverRevert
  <2> SUFFICES ASSUME MediatorInv, NEW t \in tasks
               PROVE  /\ t.pc = "emit" => Chain!CanEmitUpload(Merch(t), t.who)
                      /\ t.pc = "verify" => Chain!CanVerify(Merch(t), t.who)
                      /\ t.pc = "get_pubkey" => Chain!CanGetPubKey(t.who) /\ pubKeys[Entry(t).buyer] # NoKey
    BY DEF CallsNeverRevert
  <2>1. /\ Contracts!Inv /\ KeysOK /\ Role(t) /\ t.who \in Accounts /\ log[t.entry].address \in Merchs
        /\ log[t.entry].buyer \in Accounts /\ (Working(t) => OnSale(t))
    BY Parts, TaskFacts
  <2>2. \A m \in Merchs : progressBuyer[m] \in Accounts => progressBuyer[m] # NoAccount /\ owner[m] # NoAccount
    BY <2>1, ChainFacts
  <2>3. t.pc \in {"emit", "verify", "get_pubkey"} => OnSale(t)
    BY <2>1 DEF Working
  <2>4. t.pc = "emit" => Chain!CanEmitUpload(Merch(t), t.who)
    BY <2>1, <2>2, <2>3 DEF Role, OnSale, Merch, Chain!CanEmitUpload, Chain!deployed
  <2>5. t.pc = "verify" => Chain!CanVerify(Merch(t), t.who)
    BY <2>1, <2>2, <2>3 DEF Role, OnSale, Merch, Chain!CanVerify, Chain!deployed
  <2>6. t.pc = "get_pubkey" => Chain!CanGetPubKey(t.who) /\ pubKeys[Entry(t).buyer] # NoKey
    BY <2>1, <2>2, <2>3 DEF Role, OnSale, Entry, KeysOK, Chain!CanGetPubKey, Chain!existKey
  <2>7. QED
    BY <2>4, <2>5, <2>6
<1>2. QED
  BY <1>1, MediatorInvariance, PTL
(***************************************************************************)
(* The mediators, their crashes and the wallets implement the contracts'   *)
(* own specification: each of their steps is one transaction of it or none.*)
(* So what MerchandiseProofs shows of the contracts (the states of a sale, *)
(* where its money is, what the log tells) is true of them here.           *)
(***************************************************************************)
THEOREM MediatorsUseContracts == Spec => Chain!Spec
<1>1. Init => Chain!Init
  BY DEF Init
<1>2. MediatorInv /\ [Next]_vars => [Chain!Next]_(Chain!vars)
  <2> SUFFICES ASSUME MediatorInv, [Next]_vars
               PROVE  Chain!Next \/ UNCHANGED chainVars
    BY DEF Chain!vars, chainVars
  <2>1. Contracts!Inv /\ MediatorTypes /\ WatchersOK /\ Owners \subseteq Accounts /\ Buyers \subseteq Accounts
    BY Parts
  <2>2. ASSUME NEW t \in tasks, TaskStep(t)
        PROVE  Chain!Next \/ UNCHANGED chainVars
    <3>1. log[t.entry].address \in Merchs /\ t.who \in Accounts /\ t \in TaskShape /\ Holds(t)
      BY TaskFacts
    <3>2. CASE emit_upload(t)
      <4>1. PICK uri \in Uris : uri = encrypt(t.uuid, t.pubkey)
        BY <3>1, <3>2 DEF emit_upload, Holds, encrypt, Uris, TaskShape
      <4>2. Chain!emitUpload(log[t.entry].address, t.who, uri)
        BY <3>2, <4>1 DEF emit_upload, Merch
      <4>3. QED
        BY <3>1, <4>2 DEF Chain!Next
    <3>3. CASE verify_product(t)
      <4>1. to_hash(t.file) \in Hashes
        BY <3>1, <3>3 DEF verify_product, Holds, Hashes
      <4>2. Chain!verify(log[t.entry].address, t.who, to_hash(t.file))
        BY <3>3 DEF verify_product, Merch
      <4>3. QED
        BY <3>1, <4>1, <4>2 DEF Chain!Next
    <3>4. CASE withdraw(t)
      <4>1. Chain!withdraw(log[t.entry].address, t.who) \/ UNCHANGED chainVars
        BY <3>4 DEF withdraw, Merch
      <4>2. QED
        BY <3>1, <4>1 DEF Chain!Next
    <3>5. QED
      BY <2>2, <3>2, <3>3, <3>4
         DEF TaskStep, post_file, get_pubkey, download_file, save, read, verification_result
  <2>3. ASSUME NEW a \in Owners, WatcherStep(a)
        PROVE  Chain!Next \/ UNCHANGED chainVars
    <3>1. a \in Accounts
      BY <2>1
    <3>2. ASSUME NEW f \in todo[a], deploy_product(a, f)
          PROVE  Chain!Next
      <4>1. to_hash(f) \in Hashes
        BY <2>1, <3>1, <3>2 DEF MediatorTypes, Hashes, Contents
      <4>2. NextMerch \in Merchs /\ Chain!constructor(NextMerch, a, to_hash(f))
        BY <3>2 DEF deploy_product
      <4>3. QED
        BY <3>1, <4>1, <4>2 DEF Chain!Next
    <3>3. CASE register_product(a)
      <4>1. watcher[a].merch \in Merchs /\ Chain!registerMerchandise(watcher[a].merch)
        BY <2>1, <3>1, <3>3 DEF register_product, WatchersOK
      <4>2. QED
        BY <4>1 DEF Chain!Next
    <3>4. QED
      BY <2>3, <3>2, <3>3 DEF WatcherStep, insert
  <2>4. ASSUME NEW a \in Accounts, start(a)
        PROVE  Chain!Next
    <3>1. Chain!registerKey(a, RSAKey(a, starts[a] + 1))
      BY <2>4 DEF start
    <3>2. RSAKey(a, starts[a] + 1) \in ValidKeys
      BY <3>1 DEF Chain!registerKey, Chain!isPubKey
    <3>3. QED
      BY <3>1, <3>2 DEF Chain!Next
  <2>5. ASSUME NEW m \in Merchs, NEW b \in Buyers, purchase(m, b)
        PROVE  Chain!Next
    <3>1. Chain!purchase(m, b, Price) /\ b \in Accounts
      BY <2>1, <2>5 DEF purchase
    <3>2. QED
      BY <3>1 DEF Chain!Next
  <2>6. QED
    BY <2>2, <2>3, <2>4, <2>5
       DEF Next, FileArrives, create_event_filter, crash, Failure, StorageRestart, Tampering, vars
<1>3. QED
  BY <1>1, <1>2, MediatorInvariance, PTL DEF Spec, Chain!Spec
\* What the mediators do to the contracts is what Merchandise does, as instantiated above.
LEMMA OneSpecification == Chain!Spec => Contracts!Spec
<1>1. Chain!Init => Contracts!Init
  BY DEF Chain!Init, Contracts!Init
<1>2. [Chain!Next]_(Chain!vars) => [Contracts!Next]_(Contracts!vars)
  <2>1. UNCHANGED Chain!vars => UNCHANGED Contracts!vars
    BY DEF Chain!vars, Contracts!vars
  <2>2. ASSUME Chain!Next
        PROVE  Contracts!Next
    <3>1. CASE \E a \in Accounts, k \in ValidKeys : Chain!registerKey(a, k)
      BY <3>1, Transactions DEF Contracts!Next
    <3>2. CASE \E m \in Merchs, a \in Accounts, h \in Hashes : Chain!constructor(m, a, h)
      BY <3>2, Transactions DEF Contracts!Next
    <3>3. CASE \E m \in Merchs : Chain!registerMerchandise(m)
      BY <3>3, Transactions DEF Contracts!Next
    <3>4. CASE \E m \in Merchs, a \in Accounts, v \in {Price} : Chain!purchase(m, a, v)
      BY <3>4, Transactions DEF Contracts!Next
    <3>5. CASE \E m \in Merchs, a \in Accounts, h \in Hashes : Chain!verify(m, a, h)
      BY <3>5, Transactions DEF Contracts!Next
    <3>6. CASE \E m \in Merchs, a \in Accounts : Chain!withdraw(m, a)
      BY <3>6, Transactions DEF Contracts!Next
    <3>7. CASE \E m \in Merchs, a \in Accounts, u \in Uris : Chain!emitUpload(m, a, u)
      BY <3>7, Transactions DEF Contracts!Next
    <3>8. QED
      BY <2>2, <3>1, <3>2, <3>3, <3>4, <3>5, <3>6, <3>7 DEF Chain!Next
  <2>3. QED
    BY <2>1, <2>2
<1>3. QED
  BY <1>1, <1>2, PTL DEF Chain!Spec, Contracts!Spec

\* In the whole system the contracts' money is accounted for, the log of a contract tells the
\* state of its sale, and sales follow one another in it, whatever the mediators, their crashes
\* and the network do.
THEOREM ContractsHold ==
  Spec => [](Contracts!FundsAccounted /\ Contracts!LogTellsState /\ Contracts!LogIsSerial)
<1>1. Contracts!Spec => [](Contracts!FundsAccounted)
  BY ContractsFit, Contracts!Funds
<1>2. Contracts!Spec => [](Contracts!LogTellsState)
  BY ContractsFit, Contracts!LogTellsTheSale
<1>3. Contracts!Spec => [](Contracts!LogIsSerial)
  BY ContractsFit, Contracts!LogSerial
<1>4. QED
  BY <1>1, <1>2, <1>3, OneSpecification, MediatorsUseContracts, PTL

\* The whole system implements the abstract sale: a buyer's order of an item is opened once at
\* most, and ends, if it ends, by delivery or by forfeiture.
THEOREM MediatorsImplementOrders == Spec => Contracts!ImplementsOrders
<1>1. Contracts!Spec => Contracts!ImplementsOrders
  BY ContractsFit, Contracts!Refinement
<1>2. QED
  BY <1>1, OneSpecification, MediatorsUseContracts, PTL

(***************************************************************************)
(* What owners are owed: a withdrawal task acts for the contract's owner,  *)
(* and while there is money of served buyers in a contract there is such a *)
(* task, unless a withdrawal was lost since the last one succeeded.        *)
(***************************************************************************)
WithdrawersOwn == \A t \in tasks : t.pc = "withdraw" => t.who = owner[log[t.entry].address]
MoneyInv == unpaid \subseteq Merchs /\ WithdrawersOwn /\ MoneyOnItsWay

\* The types the lemmas below rest on.
LEMMA MoneyFacts ==
  ASSUME MediatorInv
  PROVE  /\ settled \in [Merchs -> Nat] /\ taken \in [Merchs -> Nat] /\ balance \in [Merchs -> Nat]
         /\ paid \in [Merchs -> [Accounts -> Nat]] /\ progressBuyer \in [Merchs -> Accounts \cup {NoAccount}]
         /\ \A t \in tasks : t.entry \in DOMAIN log /\ log[t.entry].address \in Merchs /\ t.who \in Accounts
         /\ NoAccount \notin Accounts /\ \A m \in Merchs : merchandiseState[m] # "SALE" => owner[m] # NoAccount
<1>1. Contracts!Inv /\ MediatorTypes /\ TasksOK
  BY Parts
<1>2. /\ settled \in [Merchs -> Nat] /\ taken \in [Merchs -> Nat] /\ balance \in [Merchs -> Nat]
      /\ paid \in [Merchs -> [Accounts -> Nat]] /\ progressBuyer \in [Merchs -> Accounts \cup {NoAccount}]
  BY <1>1 DEF Contracts!Inv, Contracts!TypeOK
<1>3. QED
  BY <1>1, <1>2, ChainFacts DEF MediatorTypes, TaskShape, TasksOK, Role

\* Where no money moves, withdrawals stay under way or are lost.
LEMMA MoneyStays ==
  ASSUME MediatorInv, MoneyInv, UNCHANGED <<settled, taken>>, unpaid \subseteq unpaid', unpaid' \subseteq Merchs,
         \A m \in Merchs : owner[m] # NoAccount => owner'[m] = owner[m],
         \A m \in Merchs : merchandiseState[m] = "BANNED" => merchandiseState'[m] = "BANNED",
         \A i \in DOMAIN log : log'[i] = log[i],
         \A t \in tasks : t.pc = "withdraw" => t \in tasks' \/ log[t.entry].address \in unpaid',
         \A t \in tasks' : t.pc = "withdraw" => t \in tasks \/ t.who = owner'[log'[t.entry].address]
  PROVE  MoneyInv'
<1>1. /\ \A t \in tasks : t.entry \in DOMAIN log /\ log[t.entry].address \in Merchs /\ t.who \in Accounts
      /\ NoAccount \notin Accounts
  BY MoneyFacts
<1>2. WithdrawersOwn'
  <2>1. ASSUME NEW t \in tasks', t.pc = "withdraw"
        PROVE  t.who = owner'[log'[t.entry].address]
    <3>1. CASE t \in tasks
      <4>1. t.who = owner[log[t.entry].address]
        BY <2>1, <3>1 DEF MoneyInv, WithdrawersOwn
      <4>2. QED
        BY <1>1, <3>1, <4>1
    <3>2. QED
      BY <2>1, <3>1
  <2>2. QED
    BY <2>1 DEF WithdrawersOwn
<1>3. MoneyOnItsWay'
  <2>1. ASSUME NEW m \in Merchs, settled'[m] > taken'[m], m \notin unpaid', merchandiseState'[m] # "BANNED"
        PROVE  \E t \in tasks' : t.pc = "withdraw" /\ log'[t.entry].address = m
    <3>1. settled[m] > taken[m] /\ m \notin unpaid /\ merchandiseState[m] # "BANNED"
      BY <2>1
    <3>2. PICK t \in tasks : t.pc = "withdraw" /\ log[t.entry].address = m
      BY <3>1 DEF MoneyInv, MoneyOnItsWay, Merch
    <3>3. QED
      BY <1>1, <2>1, <3>2
  <2>2. QED
    BY <2>1 DEF MoneyOnItsWay, Merch
<1>4. QED
  BY <1>2, <1>3 DEF MoneyInv

\* Where nothing is logged either, it is enough to look at the tasks that end.
LEMMA MoneyAside ==
  ASSUME MediatorInv, MoneyInv, UNCHANGED <<settled, taken, merchandiseState, log>>,
         \A m \in Merchs : owner[m] # NoAccount => owner'[m] = owner[m],
         \/ UNCHANGED unpaid /\ \A t \in tasks : t.pc = "withdraw" => t \in tasks'
         \/ \E S \in SUBSET tasks : Lose(S),
         \A t \in tasks' : t.pc = "withdraw" => t \in tasks
  PROVE  MoneyInv'
<1>1. /\ \A t \in tasks : t.entry \in DOMAIN log /\ log[t.entry].address \in Merchs
      /\ unpaid \subseteq Merchs
  BY MoneyFacts DEF MoneyInv
<1>2. CASE UNCHANGED unpaid /\ \A t \in tasks : t.pc = "withdraw" => t \in tasks'
  BY <1>1, <1>2, MoneyStays
<1>3. CASE \E S \in SUBSET tasks : Lose(S)
  <2>1. PICK S \in SUBSET tasks : Lose(S)
    BY <1>3
  <2>2. /\ tasks' = tasks \ S
        /\ unpaid' = unpaid \cup {log[t.entry].address : t \in {u \in S : u.pc = "withdraw"}}
    BY <2>1 DEF Lose, Merch
  <2>3. /\ unpaid \subseteq unpaid' /\ unpaid' \subseteq Merchs
        /\ \A t \in S : t.pc = "withdraw" => log[t.entry].address \in unpaid'
    BY <1>1, <2>2
  <2>4. QED
    BY <2>2, <2>3, MoneyStays
<1>4. QED
  BY <1>2, <1>3

\* Where a log is emitted, a withdrawal starts from a Verify(true) alone, or is lost.
LEMMA MoneyLogged ==
  ASSUME MediatorInv, MoneyInv, NEW e, log' = Append(log, e), e.address \in Merchs,
         e.event \in {"Purchase", "Upload"} \/ (e.event = "Verify" /\ e.result \in BOOLEAN), Addressee(e) \in Accounts,
         UNCHANGED <<owner, proc, taken>>, NEW stay, Dispatch(stay),
         \A m \in Merchs : merchandiseState[m] = "BANNED" => merchandiseState'[m] = "BANNED",
         \A m \in Merchs : settled'[m] = settled[m] \/ (m = e.address /\ ~NeedsHandling(e)),
         \A t \in tasks : t.pc = "withdraw" => t \in stay, \A t \in stay : t.pc = "withdraw" => t \in tasks
  PROVE  MoneyInv'
<1>1. /\ \A t \in tasks : t.entry \in DOMAIN log /\ log[t.entry].address \in Merchs /\ t.who \in Accounts
      /\ NoAccount \notin Accounts /\ unpaid \subseteq Merchs /\ log \in Seq(Contracts!Event) /\ Len(log) \in Nat
  BY MoneyFacts, Parts, ChainFacts DEF MoneyInv, Contracts!Inv, Contracts!TypeOK
<1>2. /\ Len(log') = Len(log) + 1 /\ log'[Len(log')] = e /\ log' # log /\ \A i \in DOMAIN log : log'[i] = log[i]
  BY <1>1, Appends
<1>3. PICK new : new = Task(Len(log'), e)
  OBVIOUS
<1>4. new.entry = Len(log') /\ new.who = Addressee(e) /\ (Working(new) <=> NeedsHandling(e)) /\ new.pc # "query"
  <2>1. Len(log') \in Nat
    BY <1>1, <1>2
  <2>2. QED
    BY <1>3, <2>1, NewTask
<1>5. /\ proc[Addressee(e)] = "running" => tasks' = stay \cup {new} /\ UNCHANGED unpaid
      /\ proc[Addressee(e)] # "running" => tasks' = stay
      /\ unpaid' = IF proc[Addressee(e)] # "running" /\ ~NeedsHandling(e) THEN unpaid \cup {e.address} ELSE unpaid
  BY <1>2, <1>3, Delivered
<1>6. new.pc = "withdraw" <=> ~NeedsHandling(e)
  BY <1>4 DEF Working
<1>7. new.pc = "withdraw" => new.who = owner[e.address]
  BY <1>4, <1>6 DEF Addressee, NeedsHandling
<1>8. WithdrawersOwn'
  <2>1. ASSUME NEW t \in tasks', t.pc = "withdraw"
        PROVE  t.who = owner'[log'[t.entry].address]
    <3>1. CASE t \in tasks
      <4>1. t.who = owner[log[t.entry].address]
        BY <2>1, <3>1 DEF MoneyInv, WithdrawersOwn
      <4>2. QED
        BY <1>1, <1>2, <3>1, <4>1
    <3>2. CASE t = new
      BY <1>2, <1>4, <1>7, <2>1, <3>2
    <3>3. QED
      BY <1>5, <2>1, <3>1, <3>2
  <2>2. QED
    BY <2>1 DEF WithdrawersOwn
<1>9. MoneyOnItsWay'
  <2>1. ASSUME NEW m \in Merchs, settled'[m] > taken'[m], m \notin unpaid', merchandiseState'[m] # "BANNED"
        PROVE  \E t \in tasks' : t.pc = "withdraw" /\ log'[t.entry].address = m
    <3>1. CASE settled'[m] = settled[m]
      <4>1. settled[m] > taken[m] /\ m \notin unpaid /\ merchandiseState[m] # "BANNED"
        BY <1>5, <2>1, <3>1
      <4>2. PICK t \in tasks : t.pc = "withdraw" /\ log[t.entry].address = m
        BY <4>1 DEF MoneyInv, MoneyOnItsWay, Merch
      <4>3. t \in tasks' /\ log'[t.entry] = log[t.entry]
        BY <1>1, <1>2, <1>5, <4>2
      <4>4. QED
        BY <4>2, <4>3
    <3>2. CASE m = e.address /\ ~NeedsHandling(e)
      <4>1. proc[Addressee(e)] = "running"
        BY <1>5, <2>1, <3>2
      <4>2. new \in tasks' /\ new.pc = "withdraw" /\ log'[new.entry].address = m
        BY <1>2, <1>4, <1>5, <1>6, <3>2, <4>1
      <4>3. QED
        BY <4>2
    <3>3. QED
      BY <3>1, <3>2
  <2>2. QED
    BY <2>1 DEF MoneyOnItsWay, Merch
<1>10. QED
  BY <1>1, <1>5, <1>8, <1>9 DEF MoneyInv

\* A withdrawal takes all there is, which is at least what served buyers paid.
LEMMA MoneyTaken ==
  ASSUME MediatorInv, MoneyInv, Contracts!FundsAccounted, NEW t \in tasks, withdraw(t)
  PROVE  MoneyInv'
<1>1. PICK m : m = log[t.entry].address
  OBVIOUS
<1>2. /\ m \in Merchs /\ t.pc = "withdraw" /\ t.who = owner[m] /\ t.who \in Accounts /\ NoAccount \notin Accounts
      /\ settled \in [Merchs -> Nat] /\ taken \in [Merchs -> Nat] /\ balance \in [Merchs -> Nat]
      /\ \A u \in tasks : u.entry \in DOMAIN log /\ log[u.entry].address \in Merchs
  BY <1>1, MoneyFacts DEF MoneyInv, WithdrawersOwn, withdraw
<1>3. /\ tasks' = tasks \ {t} /\ UNCHANGED <<settled, merchandiseState, log, owner>>
      /\ \/ taken' = [taken EXCEPT ![m] = taken[m] + balance[m]] /\ unpaid' = unpaid \ {m}
         \/ ~Chain!CanWithdraw(m, t.who) /\ UNCHANGED <<taken, unpaid>>
  BY <1>1 DEF withdraw, Merch, Chain!withdraw, chainVars
<1>4. Chain!CanWithdraw(m, t.who) \/ merchandiseState[m] = "BANNED"
  BY <1>2 DEF Chain!CanWithdraw, Chain!deployed
<1>5. balance[m] + taken[m] >= settled[m]
  <2>1. balance[m] + taken[m] = settled[m] + Contracts!escrow(m)
    BY <1>2 DEF Contracts!FundsAccounted, Contracts!FundsOK
  <2>2. Contracts!escrow(m) \in Nat
    BY <1>2, MoneyFacts DEF Contracts!escrow
  <2>3. QED
    BY <1>2, <2>1, <2>2
<1>6. WithdrawersOwn'
  BY <1>3 DEF MoneyInv, WithdrawersOwn
<1>7. MoneyOnItsWay'
  <2>1. ASSUME NEW n \in Merchs, settled'[n] > taken'[n], n \notin unpaid', merchandiseState'[n] # "BANNED"
        PROVE  \E u \in tasks' : u.pc = "withdraw" /\ log'[u.entry].address = n
    <3>1. n # m
      BY <1>2, <1>3, <1>4, <1>5, <2>1
    <3>2. settled[n] > taken[n] /\ n \notin unpaid /\ merchandiseState[n] # "BANNED"
      BY <1>2, <1>3, <2>1, <3>1
    <3>3. PICK u \in tasks : u.pc = "withdraw" /\ log[u.entry].address = n
      BY <3>2 DEF MoneyInv, MoneyOnItsWay, Merch
    <3>4. QED
      BY <1>1, <1>3, <3>1, <3>3
  <2>2. QED
    BY <2>1 DEF MoneyOnItsWay, Merch
<1>8. QED
  BY <1>3, <1>6, <1>7 DEF MoneyInv

\* The transactions that emit logs: announcing a key, a purchase, and the outcomes of verify().
LEMMA MoneyAnnounced ==
  ASSUME MediatorInv, MoneyInv, NEW t \in tasks, emit_upload(t)
  PROVE  MoneyInv'
<1>1. PICK m, e : m = log[t.entry].address /\ e = Chain!Upload(m, progressBuyer[m], encrypt(t.uuid, t.pubkey))
  OBVIOUS
<1>2. /\ e.event = "Upload" /\ e.address = m /\ e.buyer = progressBuyer[m]
  BY <1>1 DEF Chain!Upload
<1>3. /\ log' = Append(log, e) /\ Dispatch(tasks \ {t}) /\ t.pc = "emit" /\ merchandiseState[m] = "IN_PROGRESS"
      /\ UNCHANGED <<owner, proc, taken, settled, merchandiseState>>
  BY <1>1 DEF emit_upload, Merch, Chain!emitUpload, Chain!CanEmitUpload, processVars
<1>4. m \in Merchs /\ progressBuyer[m] \in Accounts
  <2>1. m \in Merchs /\ Contracts!Inv
    BY <1>1, MoneyFacts, Parts
  <2>2. QED
    BY <1>3, <2>1, ChainFacts
<1>5. QED
  BY <1>2, <1>3, <1>4, MoneyLogged DEF Addressee

LEMMA MoneyPaidIn ==
  ASSUME MediatorInv, MoneyInv, NEW m \in Merchs, NEW b \in Buyers, purchase(m, b)
  PROVE  MoneyInv'
<1>1. PICK e : e = Chain!Purchase(m, b, pubKeys[b])
  OBVIOUS
<1>2. e.event = "Purchase" /\ e.address = m
  BY <1>1 DEF Chain!Purchase
<1>3. /\ log' = Append(log, e) /\ Dispatch(tasks) /\ owner[m] # NoAccount /\ merchandiseState[m] = "SALE"
      /\ UNCHANGED <<owner, proc, taken, settled>> /\ merchandiseState' = [merchandiseState EXCEPT ![m] = "IN_PROGRESS"]
  BY <1>1 DEF purchase, Chain!purchase, Chain!CanPurchase, Chain!deployed, Chain!getPubKey, processVars
<1>4. owner[m] \in Accounts /\ \A n \in Merchs : merchandiseState[n] = "BANNED" => merchandiseState'[n] = "BANNED"
  BY <1>3, Parts, ChainFacts
<1>5. QED
  BY <1>2, <1>3, <1>4, MoneyLogged DEF Addressee

LEMMA MoneyVerified ==
  ASSUME MediatorInv, MoneyInv, NEW t \in tasks, verify_product(t)
  PROVE  MoneyInv'
<1>1. PICK m, b, h, u, stay : /\ m = log[t.entry].address /\ b = t.who /\ h = to_hash(t.file)
                              /\ u = [t EXCEPT !.pc = "query", !.ok = (h = dataHash[m])]
                              /\ stay = (tasks \ {t}) \cup {u}
  OBVIOUS
<1>2. /\ t.pc = "verify" /\ Chain!verify(m, b, h) /\ Dispatch(stay) /\ UNCHANGED proc
  BY <1>1 DEF verify_product, Merch, processVars
<1>3. /\ m \in Merchs /\ b \in Accounts /\ owner[m] \in Accounts
      /\ settled \in [Merchs -> Nat] /\ merchandiseState \in [Merchs -> {"SALE", "IN_PROGRESS", "BANNED"}]
      /\ \A x \in tasks : x.entry \in DOMAIN log
  <2>1. m \in Merchs /\ b \in Accounts /\ owner[m] # NoAccount
    BY <1>1, <1>2, MoneyFacts DEF Chain!verify, Chain!CanVerify, Chain!deployed
  <2>2. QED
    BY <2>1, Parts, ChainFacts, MoneyFacts
<1>4. u.pc = "query"
  <2>1. t \in TaskShape
    BY Parts DEF MediatorTypes
  <2>2. QED
    BY <1>1, <2>1 DEF TaskShape
<1>5. /\ \A x \in tasks : x.pc = "withdraw" => x \in stay
      /\ \A x \in stay : x.pc = "withdraw" => x \in tasks
  BY <1>1, <1>2, <1>4
<1>6. UNCHANGED <<owner, taken>> /\ merchandiseState[m] = "IN_PROGRESS"
  BY <1>2 DEF Chain!verify, Chain!CanVerify
<1>7. CASE Chain!RequestAgain(m, b)
  <2>1. PICK e : e = Chain!Verify(m, b, FALSE)
    OBVIOUS
  <2>2. e.event = "Verify" /\ e.result = FALSE /\ e.address = m /\ log' = Append(log, e) /\ UNCHANGED <<settled, merchandiseState>>
    BY <1>7, <2>1 DEF Chain!RequestAgain, Chain!Verify
  <2>3. QED
    BY <1>2, <1>3, <1>5, <1>6, <2>2, MoneyLogged DEF Addressee
<1>8. CASE Chain!Ban(m)
  <2>1. log' = log /\ settled' = settled /\ merchandiseState' = [merchandiseState EXCEPT ![m] = "BANNED"]
    BY <1>8 DEF Chain!Ban
  <2>2. tasks' = stay /\ UNCHANGED unpaid
    BY <1>2, <2>1 DEF Dispatch
  <2>3. /\ unpaid \subseteq Merchs
        /\ \A n \in Merchs : merchandiseState[n] = "BANNED" => merchandiseState'[n] = "BANNED"
    BY <1>3, <2>1 DEF MoneyInv
  <2>4. QED
    BY <1>5, <1>6, <2>1, <2>2, <2>3, MoneyStays
<1>9. CASE Chain!Confirm(m, b)
  <2>1. PICK e : e = Chain!Verify(m, b, TRUE)
    OBVIOUS
  <2>2. /\ e.event = "Verify" /\ e.result = TRUE /\ e.address = m /\ log' = Append(log, e)
        /\ merchandiseState' = [merchandiseState EXCEPT ![m] = "SALE"]
        /\ settled' = [settled EXCEPT ![m] = settled[m] + paid[m][b]]
    BY <1>9, <2>1 DEF Chain!Confirm, Chain!Verify
  <2>3. /\ \A n \in Merchs : merchandiseState[n] = "BANNED" => merchandiseState'[n] = "BANNED"
        /\ \A n \in Merchs : settled'[n] = settled[n] \/ n = m
    BY <1>3, <1>6, <2>2
  <2>4. ~NeedsHandling(e)
    BY <2>2 DEF NeedsHandling
  <2>5. QED
    BY <1>2, <1>3, <1>5, <1>6, <2>2, <2>3, <2>4, MoneyLogged DEF Addressee
<1>10. QED
  BY <1>2, <1>7, <1>8, <1>9 DEF Chain!verify

\* The steps that move no money and emit no log.
LEMMA MoneyAtWork ==
  ASSUME MediatorInv, MoneyInv, NEW t \in tasks,
         \/ post_file(t) \/ get_pubkey(t) \/ download_file(t) \/ save(t) \/ read(t) \/ verification_result(t)
  PROVE  MoneyInv'
<1>1. t \in TaskShape
  BY Parts DEF MediatorTypes
<1>2. /\ UNCHANGED <<settled, taken, merchandiseState, log, owner, unpaid>> /\ t.pc # "withdraw"
      /\ tasks \ {t} \subseteq tasks'
      /\ \A x \in tasks' : x \in tasks \/ x.pc \in {"emit", "get_pubkey", "save", "read", "verify"}
  BY <1>1 DEF post_file, get_pubkey, download_file, save, read, verification_result, GiveUp, Continue, TaskShape,
              chainVars, historyVars
<1>3. QED
  BY <1>2, MoneyAside

LEMMA MoneyWatched ==
  ASSUME MediatorInv, MoneyInv, NEW a \in Owners, WatcherStep(a)
  PROVE  MoneyInv'
<1>1. /\ UNCHANGED <<settled, taken, merchandiseState, log, tasks, unpaid>>
      /\ \A m \in Merchs : owner[m] # NoAccount => owner'[m] = owner[m]
  <2>1. ASSUME NEW f \in todo[a], deploy_product(a, f)
        PROVE  /\ UNCHANGED <<settled, taken, merchandiseState, log, tasks, unpaid>>
               /\ \A m \in Merchs : owner[m] # NoAccount => owner'[m] = owner[m]
    <3>1. PICK n : n = NextMerch
      OBVIOUS
    <3>2. /\ UNCHANGED <<settled, taken, merchandiseState, log, tasks, unpaid>>
          /\ owner[n] = NoAccount /\ owner' = [owner EXCEPT ![n] = a]
      BY <2>1, <3>1 DEF deploy_product, Chain!constructor, Chain!deployed, historyVars
    <3>3. owner \in [Merchs -> Accounts \cup {NoAccount}]
      BY Parts, ChainFacts
    <3>4. QED
      BY <3>2, <3>3
  <2>2. CASE register_product(a)
    BY <2>2 DEF register_product, Chain!registerMerchandise, historyVars
  <2>3. CASE insert(a)
    BY <2>3 DEF insert, chainVars, historyVars
  <2>4. QED
    BY <2>1, <2>2, <2>3 DEF WatcherStep
<1>2. QED
  BY <1>1, MoneyAside

LEMMA MoneyAround ==
  ASSUME MediatorInv, MoneyInv,
         \/ \E a \in Owners, f \in Files : FileArrives(a, f)
         \/ \E a \in Accounts : start(a) \/ create_event_filter(a) \/ crash(a)
         \/ Failure \/ StorageRestart \/ Tampering \/ UNCHANGED vars
  PROVE  MoneyInv'
<1>1. UNCHANGED <<settled, taken, merchandiseState, log, owner>>
  BY DEF FileArrives, start, create_event_filter, crash, Failure, StorageRestart, Tampering, vars, chainVars,
         Chain!registerKey
<1>2. CASE UNCHANGED <<tasks, unpaid>>
  BY <1>1, <1>2, MoneyAside
<1>3. CASE \E S \in SUBSET tasks : Lose(S)
  BY <1>1, <1>3, MoneyAside DEF Lose
<1>4. ASSUME NEW a \in Accounts, crash(a)
      PROVE  MoneyInv'
  BY <1>3, <1>4 DEF crash
<1>5. ASSUME Failure
      PROVE  MoneyInv'
  <2>1. ASSUME NEW t \in tasks, request_fails(t)
        PROVE  MoneyInv'
    <3>1. t \in TaskShape
      BY Parts DEF MediatorTypes
    <3>2. CASE t.pc \in {"withdraw", "query"} /\ Lose({t})
      BY <1>3, <3>2
    <3>3. CASE t.pc # "withdraw" /\ (GiveUp(t) \/ (Continue(t, [t EXCEPT !.pc = "query"]) /\ UNCHANGED unpaid))
      <4>1. /\ UNCHANGED unpaid /\ tasks \ {t} \subseteq tasks'
            /\ \A x \in tasks' : x \in tasks \/ x.pc = "query"
        BY <3>1, <3>3 DEF GiveUp, Continue, TaskShape
      <4>2. QED
        BY <1>1, <3>3, <4>1, MoneyAside
    <3>4. QED
      BY <2>1, <3>2, <3>3 DEF request_fails
  <2>2. ASSUME NEW a \in Accounts, NEW i \in 0..Len(log), poll_fails(a, i)
        PROVE  MoneyInv'
    BY <1>3, <2>2 DEF poll_fails
  <2>3. ASSUME NEW a \in Owners, NEW f \in todo[a], deploy_fails(a, f)
        PROVE  MoneyInv'
    BY <1>2, <2>3 DEF deploy_fails, historyVars
  <2>4. ASSUME NEW a \in Owners, register_fails(a)
        PROVE  MoneyInv'
    BY <1>2, <2>4 DEF register_fails, historyVars
  <2>5. QED
    BY <1>5, <2>1, <2>2, <2>3, <2>4 DEF Failure
<1>6. ASSUME \/ \E a \in Owners, f \in Files : FileArrives(a, f)
             \/ \E a \in Accounts : start(a) \/ create_event_filter(a)
             \/ StorageRestart \/ Tampering \/ UNCHANGED vars
      PROVE  MoneyInv'
  BY <1>2, <1>6 DEF FileArrives, start, create_event_filter, StorageRestart, Tampering, vars, historyVars
<1>7. QED
  BY <1>4, <1>5, <1>6

LEMMA MoneyStep == MediatorInv /\ Contracts!FundsAccounted /\ MoneyInv /\ [Next]_vars => MoneyInv'
  BY MoneyAnnounced, MoneyPaidIn, MoneyVerified, MoneyAtWork, MoneyWatched, MoneyAround, MoneyTaken DEF Next, TaskStep

LEMMA MoneyInvariance == Spec => []MoneyInv
<1>1. Init => MoneyInv
  BY DEF Init, Chain!Init, MoneyInv, WithdrawersOwn, MoneyOnItsWay
<1>2. QED
  BY <1>1, MoneyStep, MediatorInvariance, ContractsHold, PTL DEF Spec

(***************************************************************************)
(* Whatever fails and whoever crashes, goods not banned that owe their     *)
(* owner money have a withdrawal under way, or the last one was lost.      *)
(***************************************************************************)
THEOREM WithdrawalsUnderWay == Spec => []MoneyOnItsWay
  BY MoneyInvariance, PTL DEF MoneyInv

\* The mediators' state is always of its type, the contracts' included.
THEOREM MediatorTypeCorrect == Spec => []TypeOK
<1>1. MediatorInv /\ MoneyInv => TypeOK
  <2> SUFFICES ASSUME MediatorInv, MoneyInv
               PROVE  TypeOK
    OBVIOUS
  <2>1. Contracts!Inv /\ MediatorTypes /\ TasksOK
    BY Parts
  <2>2. Chain!TypeOK
    BY <2>1 DEF Contracts!Inv, Contracts!TypeOK, Chain!TypeOK, Contracts!MerchandiseState, Chain!MerchandiseState,
                Contracts!Event, Chain!Event
  <2>3. tasks \subseteq TaskType
    BY <2>1 DEF MediatorTypes, TasksOK, Role, TaskShape, Pcs, TaskType
  <2>4. QED
    BY <2>1, <2>2, <2>3 DEF MediatorTypes, WatcherShape, MoneyInv, TypeOK
<1>2. QED
  BY <1>1, MediatorInvariance, MoneyInvariance, PTL

(***************************************************************************)
(* The data the mediators deliver, for any owners, buyers, files and       *)
(* bounds.                                                                 *)
(*                                                                         *)
(* Between a file in an owner's directory and the same file in a buyer's   *)
(* lie a map in memory, a store that anybody's upload overwrites, a key    *)
(* that travels in a log and a directory all tasks of a buyer share.  What *)
(* keeps them together is that a file is sold once, which a crash of its   *)
(* owner ends, and that no two files share a name, which nothing in the    *)
(* program sees to: the theorems name both conditions.                     *)
(***************************************************************************)

\* Files have names of their own.
NamesApart == \A f, g \in Files : BaseName[f] = BaseName[g] => f = g

\* Contract m sells file f; the name of its file is n; the key leads to that name or, after a restart, nowhere.
Sells(m, f) == dataHash[m] = to_hash(f)
NamedFor(n, m) == \E f \in Files : Sells(m, f) /\ BaseName[f] = n
KeyFor(key, m) == key \in DOMAIN db /\ (db[key] = NoFile \/ NamedFor(db[key], m))

\* A contract that is not deployed sells nothing; owners know which file a contract of theirs sells.
DeployedData ==
  /\ \A m \in Merchs : owner[m] = NoAccount => dataHash[m] = NoHash
  /\ \A a \in Accounts :
       /\ watcher[a].pc \in {"register", "insert"} => Sells(watcher[a].merch, watcher[a].file)
       /\ \A m \in Merchs : deployed_files[a][m] # NoFile => Sells(m, deployed_files[a][m])

\* A file a watcher has seen; each is sold by one contract, and by none while it waits to be deployed.
Seen(f) == f \in arrived \/ (f \in Movies /\ proc[FileOwner[f]] # "down")
FilesOnce ==
  /\ arrived \cap Movies = {}
  /\ \A a \in Accounts : \A f \in todo[a] : FileOwner[f] = a /\ Seen(f) /\ \A m \in Merchs : ~Sells(m, f)
  /\ \A m \in Merchs, f \in Files : Sells(m, f) => Seen(f)
  /\ \A m, n \in Merchs, f \in Files : Sells(m, f) /\ Sells(n, f) => m = n

\* What is found under a name is the file of that name, or was altered.
NamesKept ==
  /\ \A n \in Names : uploads[n] \in Files => BaseName[uploads[n]] = n
  /\ \A a \in Accounts, n \in Names : downloads[a][n] \in Files => BaseName[downloads[a][n]] = n

\* A key leads to the file of the contract it was announced for, and so does a task's.
KeysLead == \A i \in DOMAIN log : log[i].event = "Upload" => KeyFor(log[i].uri.uuid, log[i].address)
TaskData(t) ==
  /\ t.pc \in {"get_pubkey", "emit"} => KeyFor(t.uuid, log[t.entry].address)
  /\ t.pc \in {"save", "read", "verify"} => NamedFor(t.name, log[t.entry].address)
  /\ t.pc = "save" /\ t.file \in Files => BaseName[t.file] = t.name
  /\ t.pc = "verify" => t.file = downloads[t.who][t.name]
TasksLead == \A t \in tasks : TaskData(t)

\* The delivery a task works on was altered; every such trial takes an alteration of its own.
Altered(t) ==
  \/ /\ t.pc \in {"get_pubkey", "emit", "fetch"}
     /\ \E f \in Files : Sells(log[t.entry].address, f) /\ uploads[BaseName[f]] = Corrupt
  \/ t.pc = "save" /\ t.file = Corrupt
  \/ t.pc \in {"read", "verify"} /\ downloads[t.who][t.name] = Corrupt
TrialsTampered ==
  /\ \A m \in Merchs : trialCount[m] <= faults.tamper
  /\ \A t \in tasks : Altered(t) => trialCount[log[t.entry].address] < faults.tamper

\* What a served buyer bought is in its directory.
Served == \A m \in Merchs : \A b \in confirmedBuyers[m] : \E f \in Files : Sells(m, f) /\ downloads[b][BaseName[f]] = f

Goods == DeployedData /\ FilesOnce
Trail == NamesKept /\ KeysLead /\ TasksLead /\ TrialsTampered /\ Served
DataInv == Goods /\ Trail
-----------------------------------------------------------------------------
\* The types the lemmas below rest on.
LEMMA DataFacts ==
  ASSUME MediatorInv
  PROVE  /\ dataHash \in [Merchs -> Hashes \cup {NoHash}] /\ owner \in [Merchs -> Accounts \cup {NoAccount}]
         /\ trialCount \in [Merchs -> Nat] /\ confirmedBuyers \in [Merchs -> SUBSET Accounts]
         /\ uploads \in [Names -> Contents \cup {NoFile}] /\ db \in Seq(Names \cup {NoFile})
         /\ downloads \in [Accounts -> [Names -> Contents \cup {NoFile}]]
         /\ todo \in [Accounts -> SUBSET Files] /\ watcher \in [Accounts -> WatcherShape]
         /\ deployed_files \in [Accounts -> [Merchs -> Files \cup {NoFile}]]
         /\ proc \in [Accounts -> {"down", "started", "running", "deaf"}] /\ faults.tamper \in Nat /\ faults.crash \in Nat
         /\ \A a \in Accounts : watcher[a].pc \in {"register", "insert"} => watcher[a].merch \in Merchs
         /\ \A f \in Files : BaseName[f] \in Names /\ f \in Contents /\ f # Corrupt
         /\ DOMAIN log = 1..Len(log) /\ Len(log) \in Nat
<1>1. Contracts!Inv /\ MediatorTypes /\ WatchersOK
  BY Parts
<1>2. trialCount \in [Merchs -> Nat]
  BY <1>1 DEF Contracts!Inv, Contracts!TypeOK
<1>3. faults.tamper \in Nat /\ faults.crash \in Nat
  <2>1. faults.tamper \in 0..MaxTampers /\ faults.crash \in 0..MaxCrashes /\ {MaxTampers, MaxCrashes} \subseteq Nat
    BY <1>1, MediatorAssumption DEF MediatorTypes
  <2>2. QED
    BY <2>1
<1>4. /\ dataHash \in [Merchs -> Hashes \cup {NoHash}] /\ owner \in [Merchs -> Accounts \cup {NoAccount}]
      /\ confirmedBuyers \in [Merchs -> SUBSET Accounts]
  BY <1>1 DEF Contracts!Inv, Contracts!TypeOK
<1>5. \A f \in Files : BaseName[f] \in Names /\ f \in Contents /\ f # Corrupt
  BY MediatorAssumption DEF Names, Contents
<1>6. DOMAIN log = 1..Len(log) /\ Len(log) \in Nat
  BY <1>1, ChainFacts
<1>7. QED
  BY <1>1, <1>2, <1>3, <1>4, <1>5, <1>6 DEF MediatorTypes, WatchersOK

\* Files are told apart by their hashes.
LEMMA HashesApart == \A c, d : (to_hash(c) = to_hash(d) => c = d) /\ to_hash(c) # NoHash
  BY DEF to_hash, NoHash

\* Steps aside of the deployments leave the goods as they are.
LEMMA GoodsAside ==
  ASSUME Goods, UNCHANGED <<dataHash, owner, watcher, deployed_files, arrived, todo, proc>>
  PROVE  Goods'
  BY DEF Goods, DeployedData, FilesOnce, Sells, Seen

\* What is deployed stays what it is: then tasks that end, and steps aside of the deliveries, leave the trail.
LEMMA TrailAside ==
  ASSUME MediatorInv, DataInv, UNCHANGED <<uploads, downloads, db, log, trialCount, confirmedBuyers>>,
         faults'.tamper = faults.tamper, tasks' \subseteq tasks,
         \A m \in Merchs : owner[m] # NoAccount => dataHash'[m] = dataHash[m]
  PROVE  Trail'
<1>1. /\ DeployedData /\ NamesKept /\ KeysLead /\ TasksLead /\ TrialsTampered /\ Served /\ Contracts!Inv
      /\ WorkersOK /\ TasksOK
  BY Parts DEF DataInv, Goods, Trail
<1>2. \A m \in Merchs, f \in Files : Sells(m, f) => dataHash'[m] = dataHash[m]
  BY <1>1, HashesApart DEF DeployedData, Sells
<1>3. \A i \in DOMAIN log : log[i].address \in Merchs
  BY <1>1, ChainFacts
<1>4. \A key, m : m \in Merchs /\ KeyFor(key, m) => KeyFor(key, m)'
  BY <1>2 DEF KeyFor, NamedFor, Sells
<1>5. NamesKept' /\ KeysLead'
  BY <1>1, <1>3, <1>4 DEF NamesKept, KeysLead
<1>6. \A t \in tasks : t.entry \in DOMAIN log /\ log[t.entry].address \in Merchs
  BY <1>1, <1>3 DEF TasksOK, Role
<1>7. \A n, m : m \in Merchs /\ NamedFor(n, m) => NamedFor(n, m)'
  BY <1>2 DEF NamedFor, Sells
<1>8. TasksLead'
  BY <1>1, <1>4, <1>6, <1>7 DEF TasksLead, TaskData
<1>9. \A t \in tasks : Altered(t)' => Altered(t)
  <2>1. ASSUME NEW t \in tasks, Working(t)
        PROVE  dataHash'[log[t.entry].address] = dataHash[log[t.entry].address]
    <3>1. OnSale(t)
      BY <1>1, <2>1 DEF WorkersOK
    <3>2. progressBuyer[log[t.entry].address] # NoAccount
      BY <1>1, <1>6, <3>1, ChainFacts DEF OnSale
    <3>3. owner[log[t.entry].address] # NoAccount
      BY <1>1, <1>6, <3>2, ChainFacts
    <3>4. QED
      BY <1>6, <3>3
  <2>2. QED
    BY <2>1 DEF Altered, Working, Sells
<1>10. TrialsTampered'
  BY <1>1, <1>9 DEF TrialsTampered
<1>11. Served'
  <2>1. ASSUME NEW m \in Merchs, NEW b \in confirmedBuyers[m]
        PROVE  \E f \in Files : Sells(m, f)' /\ downloads'[b][BaseName[f]] = f
    BY <1>1, <1>2 DEF Served, Sells
  <2>2. QED
    BY <2>1 DEF Served
<1>12. QED
  BY <1>5, <1>8, <1>10, <1>11 DEF Trail
-----------------------------------------------------------------------------
\* A deployment sells a file that was waiting, and no contract sold before.
LEMMA DeployData ==
  ASSUME MediatorInv, DataInv, NEW a \in Owners, NEW f \in todo[a], deploy_product(a, f)
  PROVE  DataInv'
<1> DEFINE n == NextMerch
<1>1. n \in Merchs /\ Chain!constructor(n, a, to_hash(f))
  BY DEF deploy_product
<1>2. /\ todo' = [todo EXCEPT ![a] = todo[a] \ {f}]
      /\ watcher' = [watcher EXCEPT ![a] = [pc |-> "register", file |-> f, merch |-> n]]
      /\ UNCHANGED <<uploads, db, proc, deployed_files, arrived, downloads, tasks, faults>>
  BY DEF deploy_product, storageVars, processVars
<1> HIDE DEF n
<1>3. /\ owner[n] = NoAccount /\ owner' = [owner EXCEPT ![n] = a] /\ dataHash' = [dataHash EXCEPT ![n] = to_hash(f)]
      /\ UNCHANGED <<trialCount, confirmedBuyers, log>>
  BY <1>1 DEF Chain!constructor, Chain!deployed
<1>4. /\ DeployedData /\ FilesOnce /\ a \in Accounts /\ NoAccount \notin Accounts /\ f \in Files
      /\ dataHash \in [Merchs -> Hashes \cup {NoHash}] /\ owner \in [Merchs -> Accounts \cup {NoAccount}]
      /\ todo \in [Accounts -> SUBSET Files] /\ watcher \in [Accounts -> WatcherShape]
      /\ deployed_files \in [Accounts -> [Merchs -> Files \cup {NoFile}]]
      /\ \A x \in Accounts : watcher[x].pc \in {"register", "insert"} => watcher[x].merch \in Merchs
  BY Parts, DataFacts, MediatorAssumption DEF DataInv, Goods
<1>5. \A m \in Merchs : dataHash'[m] = IF m = n THEN to_hash(f) ELSE dataHash[m]
  BY <1>1, <1>3, <1>4
<1>6. \A m \in Merchs : \A g : Sells(m, g) => m # n
  BY <1>3, <1>4, HashesApart DEF DeployedData, Sells
<1>7. \A m \in Merchs : \A g : Sells(m, g)' <=> Sells(m, g) \/ (m = n /\ g = f)
  BY <1>5, <1>6, HashesApart DEF Sells
<1>8. DeployedData'
  <2>1. \A m \in Merchs : owner'[m] = NoAccount => dataHash'[m] = NoHash
    BY <1>3, <1>4, <1>5 DEF DeployedData
  <2>2. \A x \in Accounts : watcher'[x].pc \in {"register", "insert"} =>
           dataHash'[watcher'[x].merch] = to_hash(watcher'[x].file)
    <3>1. ASSUME NEW x \in Accounts, watcher'[x].pc \in {"register", "insert"}
          PROVE  dataHash'[watcher'[x].merch] = to_hash(watcher'[x].file)
      <4>1. CASE x = a
        <5>1. watcher'[x].merch = n /\ watcher'[x].file = f
          BY <1>2, <1>4, <4>1
        <5>2. QED
          BY <1>1, <1>5, <5>1
      <4>2. CASE x # a
        <5>1. watcher'[x] = watcher[x]
          BY <1>2, <1>4, <4>2
        <5>2. watcher[x].merch \in Merchs /\ Sells(watcher[x].merch, watcher[x].file)
          BY <1>4, <3>1, <5>1 DEF DeployedData
        <5>3. QED
          BY <1>5, <1>6, <5>1, <5>2 DEF Sells
      <4>3. QED
        BY <4>1, <4>2
    <3>2. QED
      BY <3>1
  <2>3. \A x \in Accounts, m \in Merchs : deployed_files'[x][m] # NoFile => dataHash'[m] = to_hash(deployed_files'[x][m])
    BY <1>2, <1>4, <1>5, <1>6 DEF DeployedData, Sells
  <2>4. QED
    BY <2>1, <2>2, <2>3 DEF DeployedData, Sells
<1>9. FilesOnce'
  <2>1. FileOwner[f] = a /\ Seen(f) /\ \A m \in Merchs : ~Sells(m, f)
    BY <1>4 DEF FilesOnce
  <2>2. \A g : Seen(g)' <=> Seen(g)
    BY <1>2 DEF Seen
  <2>3. \A x \in Accounts : todo'[x] \subseteq todo[x] \ {f}
    BY <1>2, <1>4, <2>1 DEF FilesOnce
  <2>4. \A x \in Accounts : \A g \in todo'[x] : FileOwner[g] = x /\ Seen(g)' /\ \A m \in Merchs : ~Sells(m, g)'
    BY <1>4, <1>7, <2>2, <2>3 DEF FilesOnce
  <2>5. \A m \in Merchs, g \in Files : Sells(m, g)' => Seen(g)'
    BY <1>4, <1>7, <2>1, <2>2 DEF FilesOnce
  <2>6. \A m, k \in Merchs, g \in Files : Sells(m, g)' /\ Sells(k, g)' => m = k
    BY <1>4, <1>7, <2>1 DEF FilesOnce
  <2>7. arrived' \cap Movies = {}
    BY <1>2, <1>4 DEF FilesOnce
  <2>8. QED
    BY <2>4, <2>5, <2>6, <2>7 DEF FilesOnce
<1>10. Trail'
  <2>1. \A m \in Merchs : owner[m] # NoAccount => dataHash'[m] = dataHash[m]
    BY <1>3, <1>5
  <2>2. QED
    BY <1>2, <1>3, <2>1, TrailAside
<1>11. QED
  BY <1>8, <1>9, <1>10 DEF DataInv, Goods
\* A watcher registers a contract and notes its file.
LEMMA RegisterData ==
  ASSUME MediatorInv, DataInv, NEW a \in Owners, register_product(a) \/ insert(a)
  PROVE  DataInv'
<1>1. /\ UNCHANGED <<dataHash, owner, trialCount, confirmedBuyers, log>>
      /\ UNCHANGED <<uploads, db, proc, todo, arrived, downloads, tasks, faults>>
  BY DEF register_product, insert, Chain!registerMerchandise, chainVars, storageVars, processVars
<1>2. /\ DeployedData /\ FilesOnce /\ a \in Accounts /\ watcher \in [Accounts -> WatcherShape]
      /\ deployed_files \in [Accounts -> [Merchs -> Files \cup {NoFile}]]
      /\ \A x \in Accounts : watcher[x].pc \in {"register", "insert"} => watcher[x].merch \in Merchs
  BY Parts, DataFacts DEF DataInv, Goods
<1>3. FilesOnce'
  BY <1>1, <1>2 DEF FilesOnce, Sells, Seen
<1>4. Trail'
  BY <1>1, TrailAside
<1>5. DeployedData'
  <2>1. CASE register_product(a)
    <3>1. /\ watcher[a].pc = "register" /\ UNCHANGED deployed_files
          /\ watcher' = [watcher EXCEPT ![a] = [watcher[a] EXCEPT !.pc = "insert"]]
      BY <1>2, <2>1 DEF register_product
    <3>2. PICK w : w = [watcher[a] EXCEPT !.pc = "insert"]
      OBVIOUS
    <3>3. watcher[a] \in WatcherShape /\ DOMAIN watcher[a] = {"pc", "file", "merch"}
      BY <1>2 DEF WatcherShape
    <3>4. w.merch = watcher[a].merch /\ w.file = watcher[a].file
      BY <3>2, <3>3
    <3>5. watcher' = [watcher EXCEPT ![a] = w]
      BY <3>1, <3>2
    <3>6. \A x \in Accounts : watcher'[x] = IF x = a THEN w ELSE watcher[x]
      BY <1>2, <3>5
    <3>7. \A x \in Accounts : watcher'[x].pc \in {"register", "insert"} => dataHash[watcher'[x].merch] = to_hash(watcher'[x].file)
      BY <1>2, <3>1, <3>4, <3>6 DEF DeployedData, Sells
    <3>8. UNCHANGED <<deployed_files, dataHash, owner>>
      BY <1>1, <3>1
    <3>9. QED
      BY <1>2, <3>7, <3>8 DEF DeployedData, Sells
  <2>2. CASE insert(a)
    <3>1. /\ watcher[a].pc = "insert" /\ watcher' = [watcher EXCEPT ![a] = Idle]
          /\ deployed_files' = [deployed_files EXCEPT ![a][watcher[a].merch] = watcher[a].file]
      BY <2>2 DEF insert
    <3>2. Sells(watcher[a].merch, watcher[a].file) /\ watcher[a].merch \in Merchs
      BY <1>2, <3>1 DEF DeployedData
    <3>3. \A x \in Accounts, m \in Merchs : deployed_files'[x][m] =
             IF x = a /\ m = watcher[a].merch THEN watcher[a].file ELSE deployed_files[x][m]
      BY <1>2, <3>1, <3>2
    <3>4. \A x \in Accounts : watcher'[x].pc \in {"register", "insert"} => watcher'[x] = watcher[x]
      BY <1>2, <3>1 DEF Idle
    <3>5. QED
      BY <1>1, <1>2, <3>2, <3>3, <3>4 DEF DeployedData, Sells
  <2>3. QED
    BY <2>1, <2>2
<1>6. QED
  BY <1>3, <1>4, <1>5 DEF DataInv, Goods

\* A file arrives for the first time, or is found at a start.
LEMMA SeenData ==
  ASSUME MediatorInv, DataInv, NEW a \in Accounts,
         (\E f \in Files : FileArrives(a, f)) \/ start(a) \/ create_event_filter(a)
  PROVE  DataInv'
<1>1. /\ UNCHANGED <<dataHash, owner, trialCount, confirmedBuyers, log>>
      /\ UNCHANGED <<uploads, db, watcher, deployed_files, downloads, tasks, faults>>
  BY DEF FileArrives, start, create_event_filter, Chain!registerKey, chainVars, storageVars, watcherVars
<1>2. /\ DeployedData /\ FilesOnce /\ proc \in [Accounts -> {"down", "started", "running", "deaf"}]
      /\ todo \in [Accounts -> SUBSET Files] /\ FileOwner \in [Files -> Owners] /\ Movies \subseteq Files
      /\ Owners \subseteq Accounts
  BY Parts, DataFacts, MediatorAssumption DEF DataInv, Goods
<1>3. DeployedData'
  BY <1>1, <1>2 DEF DeployedData, Sells
<1>4. Trail'
  BY <1>1, TrailAside
<1>5. FilesOnce'
  <2>1. ASSUME NEW f \in Files, FileArrives(a, f)
        PROVE  FilesOnce'
    <3>1. /\ FileOwner[f] = a /\ f \notin Movies \cup arrived /\ arrived' = arrived \cup {f}
          /\ todo' = [todo EXCEPT ![a] = todo[a] \cup {f}] /\ UNCHANGED proc
      BY <2>1 DEF FileArrives, FilesOf, processVars
    <3>2. ~Seen(f) /\ Seen(f)' /\ \A g \in Files : Seen(g) => Seen(g)'
      BY <3>1 DEF Seen
    <3>3. \A m \in Merchs : ~Sells(m, f)
      BY <1>2, <3>2 DEF FilesOnce
    <3>4. \A x \in Accounts : todo'[x] = IF x = a THEN todo[a] \cup {f} ELSE todo[x]
      BY <1>2, <3>1
    <3>5. \A x \in Accounts : \A g \in todo'[x] : FileOwner[g] = x /\ Seen(g)' /\ \A m \in Merchs : ~Sells(m, g)'
      BY <1>1, <1>2, <3>1, <3>2, <3>3, <3>4 DEF FilesOnce, Sells
    <3>6. QED
      BY <1>1, <1>2, <3>1, <3>2, <3>5 DEF FilesOnce, Sells
  <2>2. CASE start(a)
    <3>1. /\ proc[a] = "down" /\ proc' = [proc EXCEPT ![a] = "started"] /\ UNCHANGED arrived
          /\ todo' = [todo EXCEPT ![a] = FilesOf(a) \cap Movies]
      BY <2>2 DEF start
    <3>2. \A g \in FilesOf(a) \cap Movies : FileOwner[g] = a /\ g \in Files /\ ~Seen(g) /\ Seen(g)'
      BY <1>2, <3>1 DEF FilesOf, Seen, FilesOnce
    <3>3. \A g \in Files : Seen(g) => Seen(g)'
      BY <1>2, <3>1 DEF Seen
    <3>4. \A x \in Accounts : todo'[x] = IF x = a THEN FilesOf(a) \cap Movies ELSE todo[x]
      BY <1>2, <3>1
    <3>5. \A x \in Accounts : \A g \in todo'[x] : FileOwner[g] = x /\ Seen(g)' /\ \A m \in Merchs : ~Sells(m, g)'
      BY <1>1, <1>2, <3>2, <3>3, <3>4 DEF FilesOnce, Sells
    <3>6. QED
      BY <1>1, <1>2, <3>1, <3>3, <3>5 DEF FilesOnce, Sells
  <2>3. CASE create_event_filter(a)
    <3>1. proc' = [proc EXCEPT ![a] = "running"] /\ UNCHANGED <<arrived, todo>>
      BY <2>3 DEF create_event_filter, watcherVars
    <3>2. \A g \in Files : Seen(g) => Seen(g)'
      BY <1>2, <3>1 DEF Seen
    <3>3. QED
      BY <1>1, <1>2, <3>1, <3>2 DEF FilesOnce, Sells
  <2>4. QED
    BY <2>1, <2>2, <2>3
<1>6. QED
  BY <1>3, <1>4, <1>5 DEF DataInv, Goods

\* A failed deployment or registration forgets the file; a failed request or poll ends tasks, or hurries one on.
LEMMA FailureData ==
  ASSUME MediatorInv, DataInv, Failure
  PROVE  DataInv'
<1>1. /\ UNCHANGED <<dataHash, owner, trialCount, confirmedBuyers, log>>
      /\ UNCHANGED <<uploads, db, deployed_files, arrived, downloads>>
      /\ faults' = [faults EXCEPT !.failure = faults.failure + 1]
  BY DEF Failure, chainVars, storageVars
<1>2. /\ DeployedData /\ FilesOnce /\ Owners \subseteq Accounts /\ TasksLead /\ TrialsTampered
      /\ todo \in [Accounts -> SUBSET Files] /\ watcher \in [Accounts -> WatcherShape]
      /\ proc \in [Accounts -> {"down", "started", "running", "deaf"}]
  BY Parts, DataFacts DEF DataInv, Goods, Trail
<1>3. faults'.tamper = faults.tamper
  BY <1>1, Parts DEF MediatorTypes
<1>4. ASSUME NEW t \in tasks, request_fails(t)
      PROVE  DataInv'
  <2>1. UNCHANGED <<proc, todo, watcher>>
    BY <1>4 DEF request_fails
  <2>2. CASE tasks' \subseteq tasks
    BY <1>1, <1>3, <2>1, <2>2, TrailAside, GoodsAside DEF DataInv
  <2>3. CASE t.pc = "verify" /\ Continue(t, [t EXCEPT !.pc = "query"])
    <3>1. PICK u : u = [t EXCEPT !.pc = "query"]
      OBVIOUS
    <3>2. t \in TaskShape
      BY Parts DEF MediatorTypes
    <3>3. u.pc = "query" /\ tasks' = (tasks \ {t}) \cup {u}
      BY <2>3, <3>1, <3>2 DEF Continue, TaskShape
    <3>4. TaskData(u)' /\ ~Altered(u)'
      BY <3>3 DEF TaskData, Altered
    <3>5. \A x \in tasks : (TaskData(x) => TaskData(x)') /\ (Altered(x)' => Altered(x))
      BY <1>1 DEF TaskData, Altered, KeyFor, NamedFor, Sells
    <3>6. TasksLead' /\ TrialsTampered'
      BY <1>1, <1>2, <1>3, <3>3, <3>4, <3>5 DEF TasksLead, TrialsTampered
    <3>7. NamesKept' /\ KeysLead' /\ Served' /\ Goods'
      BY <1>1, <2>1, GoodsAside DEF DataInv, Trail, NamesKept, KeysLead, KeyFor, NamedFor, Served, Sells
    <3>8. QED
      BY <3>6, <3>7 DEF DataInv, Trail
  <2>4. QED
    BY <1>4, <2>2, <2>3 DEF request_fails, GiveUp, Lose
<1>5. ASSUME NEW a \in Owners, register_fails(a)
      PROVE  DataInv'
  <2>1. UNCHANGED <<proc, todo, tasks>>
    BY <1>5 DEF register_fails
  <2>2. PICK w : w = IF watcher[a].file \in Movies THEN [Idle EXCEPT !.pc = "dead"] ELSE Idle
    OBVIOUS
  <2>3. w.pc \in {"idle", "dead"}
    BY <2>2 DEF Idle
  <2>4. watcher' = [watcher EXCEPT ![a] = w]
    BY <1>5, <2>2 DEF register_fails
  <2>5. \A x \in Accounts : watcher'[x].pc \in {"register", "insert"} => watcher'[x] = watcher[x]
    BY <1>2, <2>3, <2>4
  <2>6. DeployedData' /\ FilesOnce'
    BY <1>1, <1>2, <2>1, <2>5 DEF DeployedData, FilesOnce, Sells, Seen
  <2>7. QED
    BY <1>1, <1>3, <2>1, <2>6, TrailAside DEF DataInv, Goods
<1>6. ASSUME NEW a \in Owners, NEW f \in todo[a], deploy_fails(a, f)
      PROVE  DataInv'
  <2>1. UNCHANGED <<proc, watcher, tasks>> /\ todo' = [todo EXCEPT ![a] = todo[a] \ {f}]
    BY <1>6 DEF deploy_fails
  <2>2. \A x \in Accounts : todo'[x] \subseteq todo[x]
    BY <1>2, <2>1
  <2>3. FilesOnce'
    BY <1>1, <1>2, <2>1, <2>2 DEF FilesOnce, Sells, Seen
  <2>4. DeployedData'
    BY <1>1, <1>2, <2>1 DEF DeployedData, Sells
  <2>5. QED
    BY <1>1, <1>3, <2>1, <2>3, <2>4, TrailAside DEF DataInv, Goods
<1>7. ASSUME NEW a \in Accounts, NEW i \in 0..Len(log), poll_fails(a, i)
      PROVE  DataInv'
  <2>1. /\ UNCHANGED <<todo, watcher>> /\ tasks' \subseteq tasks
        /\ proc[a] # "down" /\ proc' = [proc EXCEPT ![a] = "deaf"]
    BY <1>7 DEF poll_fails, Lose
  <2>2. \A x \in Accounts : proc[x] # "down" => proc'[x] # "down"
    BY <1>2, <2>1
  <2>3. \A f \in Files : FileOwner[f] \in Accounts
    BY <1>2, MediatorAssumption
  <2>4. \A f \in Files : Seen(f) => Seen(f)'
    BY <1>1, <2>2, <2>3 DEF Seen
  <2>5. DeployedData' /\ FilesOnce'
    BY <1>1, <1>2, <2>1, <2>4 DEF DeployedData, FilesOnce, Sells
  <2>6. QED
    BY <1>1, <1>3, <2>1, <2>5, TrailAside DEF DataInv, Goods
<1>8. QED
  BY <1>4, <1>5, <1>6, <1>7 DEF Failure
-----------------------------------------------------------------------------
\* A task that stays keeps what it knows, if nobody writes where it reads.
LEMMA Stays ==
  ASSUME MediatorInv, DataInv, NEW t \in tasks, UNCHANGED dataHash, log'[t.entry] = log[t.entry],
         \A k \in DOMAIN db : k \in DOMAIN db' /\ db'[k] \in {db[k], NoFile},
         \A n \in Names : uploads'[n] = Corrupt => uploads[n] = Corrupt,
         t.pc \in {"read", "verify"} => downloads'[t.who][t.name] = downloads[t.who][t.name]
  PROVE  TaskData(t)' /\ (Altered(t)' => Altered(t))
<1>1. TaskData(t)
  BY DEF DataInv, Trail, TasksLead
<1>2. \A f \in Files : BaseName[f] \in Names
  BY DataFacts
<1>3. \A key, m : KeyFor(key, m) => KeyFor(key, m)'
  BY DEF KeyFor, NamedFor, Sells
<1>4. TaskData(t)'
  BY <1>1, <1>3 DEF TaskData, NamedFor, Sells
<1>5. Altered(t)' => Altered(t)
  BY <1>2 DEF Altered, Sells
<1>6. QED
  BY <1>4, <1>5

\* The log a transaction emits is the last, and only its addressee's new task starts from it.
LEMMA Spawned ==
  ASSUME MediatorInv, NEW e, log' = Append(log, e),
         e.event \in {"Purchase", "Upload"} \/ (e.event = "Verify" /\ e.result \in BOOLEAN),
         Addressee(e) \in Accounts, UNCHANGED <<owner, proc>>, NEW stay, Dispatch(stay)
  PROVE  /\ \A i \in DOMAIN log : i \in DOMAIN log' /\ log'[i] = log[i]
         /\ \A i \in DOMAIN log' : i \in DOMAIN log \/ log'[i] = e
         /\ \A t \in tasks' : t \in stay \/
              /\ log'[t.entry] = e
              /\ e.event = "Upload" => t.pc = "fetch"
              /\ e.event # "Upload" => t.pc \in {"post", "withdraw"}
<1>1. log \in Seq(Contracts!Event) /\ Len(log) \in Nat
  BY Parts, ChainFacts DEF Contracts!Inv, Contracts!TypeOK
<1>2. /\ Len(log') = Len(log) + 1 /\ log'[Len(log) + 1] = e /\ log' # log /\ DOMAIN log = 1..Len(log)
      /\ DOMAIN log' = 1..(Len(log) + 1) /\ \A i \in DOMAIN log : log'[i] = log[i]
  BY <1>1, Appends
<1>3. \A i \in 1..(Len(log) + 1) : i \in 1..Len(log) \/ i = Len(log) + 1
  BY <1>1
<1>4. \A i \in 1..Len(log) : i \in 1..(Len(log) + 1)
  BY <1>1
<1>5. PICK new : new = Task(Len(log) + 1, e)
  OBVIOUS
<1>6. new.entry = Len(log) + 1 /\ (e.event = "Upload" => new.pc = "fetch") /\ (e.event # "Upload" => new.pc \in {"post", "withdraw"})
  <2>1. Len(log) + 1 \in Nat
    BY <1>1
  <2>2. QED
    BY <1>5, <2>1, NewTask
<1>7. tasks' \subseteq stay \cup {new}
  BY <1>2, <1>5, Delivered
<1>8. QED
  BY <1>2, <1>3, <1>4, <1>6, <1>7

\* A purchase and an announcement: the trials and the data are as they were.
LEMMA PurchaseData ==
  ASSUME MediatorInv, DataInv, NEW m \in Merchs, NEW b \in Buyers, purchase(m, b)
  PROVE  DataInv'
<1>1. PICK e : e = Chain!Purchase(m, b, pubKeys[b])
  OBVIOUS
<1>2. e.event = "Purchase" /\ e.address = m
  BY <1>1 DEF Chain!Purchase
<1>3. /\ UNCHANGED <<dataHash, owner, trialCount, confirmedBuyers>>
      /\ UNCHANGED <<uploads, db, proc, todo, watcher, deployed_files, arrived, downloads, faults>>
      /\ log' = Append(log, e) /\ owner[m] # NoAccount /\ Dispatch(tasks)
  BY <1>1 DEF purchase, Chain!purchase, Chain!CanPurchase, Chain!deployed, Chain!getPubKey, storageVars, processVars, watcherVars
<1>4. Addressee(e) \in Accounts
  BY <1>2, <1>3, DataFacts DEF Addressee
<1>5. Goods'
  BY <1>3, GoodsAside DEF DataInv
<1>6. /\ \A i \in DOMAIN log : i \in DOMAIN log' /\ log'[i] = log[i]
      /\ \A i \in DOMAIN log' : i \in DOMAIN log \/ log'[i] = e
      /\ \A t \in tasks' : t \in tasks \/ (log'[t.entry] = e /\ t.pc \in {"post", "withdraw"})
  BY <1>2, <1>3, <1>4, Spawned
<1>7. NamesKept /\ KeysLead /\ TrialsTampered /\ Served /\ \A t \in tasks : t.entry \in DOMAIN log
  BY TaskFacts DEF DataInv, Trail
<1>8. \A t \in tasks : TaskData(t)' /\ (Altered(t)' => Altered(t))
  BY <1>3, <1>6, <1>7, Stays
<1>9. \A t \in tasks' : TaskData(t)' /\ (Altered(t)' => t \in tasks)
  BY <1>6, <1>8 DEF TaskData, Altered
<1>10. TasksLead' /\ TrialsTampered'
  BY <1>3, <1>6, <1>7, <1>8, <1>9 DEF TasksLead, TrialsTampered
<1>11. NamesKept' /\ KeysLead' /\ Served'
  BY <1>2, <1>3, <1>6, <1>7 DEF NamesKept, KeysLead, Served, KeyFor, NamedFor, Sells
<1>12. QED
  BY <1>5, <1>10, <1>11 DEF DataInv, Trail

\* emitUpload: the key announced in the log leads to the file of the contract.
LEMMA AnnounceData ==
  ASSUME MediatorInv, DataInv, NEW t \in tasks, emit_upload(t)
  PROVE  DataInv'
<1>1. PICK m : m = log[t.entry].address
  OBVIOUS
<1>2. PICK uri : uri = encrypt(t.uuid, t.pubkey)
  OBVIOUS
<1>3. uri.uuid = t.uuid
  BY <1>2 DEF encrypt
<1>4. PICK e : e = Chain!Upload(m, progressBuyer[m], uri)
  OBVIOUS
<1>5. e.event = "Upload" /\ e.address = m /\ e.buyer = progressBuyer[m] /\ e.uri = uri
  BY <1>4 DEF Chain!Upload
<1>6. /\ UNCHANGED <<dataHash, owner, trialCount, confirmedBuyers>>
      /\ UNCHANGED <<uploads, db, proc, todo, watcher, deployed_files, arrived, downloads, faults>>
      /\ log' = Append(log, e) /\ Dispatch(tasks \ {t}) /\ t.pc = "emit"
  BY <1>1, <1>2, <1>4 DEF emit_upload, Chain!emitUpload, Merch, storageVars, processVars, watcherVars
<1>7. m \in Merchs /\ progressBuyer[m] \in Accounts /\ \A x \in tasks : x.entry \in DOMAIN log
  BY <1>1, <1>6, TaskFacts DEF Working, OnSale
<1>8. Goods'
  BY <1>6, GoodsAside DEF DataInv
<1>9. /\ \A i \in DOMAIN log : i \in DOMAIN log' /\ log'[i] = log[i]
      /\ \A i \in DOMAIN log' : i \in DOMAIN log \/ log'[i] = e
      /\ \A x \in tasks' : x \in tasks \/ (log'[x.entry] = e /\ x.pc = "fetch")
  <2>1. Addressee(e) \in Accounts
    BY <1>5, <1>7 DEF Addressee
  <2>2. PICK stay : stay = tasks \ {t}
    OBVIOUS
  <2>3. /\ \A i \in DOMAIN log : i \in DOMAIN log' /\ log'[i] = log[i]
        /\ \A i \in DOMAIN log' : i \in DOMAIN log \/ log'[i] = e
        /\ \A x \in tasks' : x \in stay \/ (log'[x.entry] = e /\ x.pc = "fetch")
    <3>1. Dispatch(stay) /\ log' = Append(log, e) /\ UNCHANGED <<owner, proc>>
      BY <1>6, <2>2
    <3>2. e.event = "Upload"
      BY <1>5
    <3>3. e.event \in {"Purchase", "Upload"} \/ (e.event = "Verify" /\ e.result \in BOOLEAN)
      BY <3>2
    <3>4. /\ \A i \in DOMAIN log : i \in DOMAIN log' /\ log'[i] = log[i]
          /\ \A i \in DOMAIN log' : i \in DOMAIN log \/ log'[i] = e
          /\ \A x \in tasks' : x \in stay \/
               /\ log'[x.entry] = e
               /\ e.event = "Upload" => x.pc = "fetch"
               /\ e.event # "Upload" => x.pc \in {"post", "withdraw"}
      BY <2>1, <3>1, <3>3, Spawned
    <3>5. QED
      BY <3>2, <3>4
  <2>4. QED
    BY <2>2, <2>3
<1>10. NamesKept /\ KeysLead /\ TasksLead /\ TrialsTampered /\ Served
  BY DEF DataInv, Trail
<1>11. \A x \in tasks : TaskData(x)' /\ (Altered(x)' => Altered(x))
  BY <1>6, <1>7, <1>9, Stays
<1>12. ASSUME NEW x \in tasks', x \notin tasks
       PROVE  /\ TaskData(x)'
              /\ Altered(x)' => trialCount'[log'[x.entry].address] < faults'.tamper
  <2>1. log'[x.entry] = e /\ x.pc = "fetch"
    BY <1>9, <1>12
  <2>2. Altered(x)' => Altered(t)
    BY <1>1, <1>5, <1>6, <2>1 DEF Altered, Sells
  <2>3. QED
    BY <1>1, <1>5, <1>6, <1>10, <2>1, <2>2 DEF TaskData, TrialsTampered
<1>13. TasksLead'
  BY <1>11, <1>12 DEF TasksLead
<1>14. TrialsTampered'
  BY <1>6, <1>7, <1>9, <1>10, <1>11, <1>12 DEF TrialsTampered
<1>15. KeysLead'
  <2>1. KeyFor(uri.uuid, m)
    BY <1>1, <1>3, <1>6, <1>10 DEF TasksLead, TaskData
  <2>2. QED
    BY <1>5, <1>6, <1>9, <1>10, <2>1 DEF KeysLead, KeyFor, NamedFor, Sells
<1>16. NamesKept' /\ Served'
  BY <1>6, <1>10 DEF NamesKept, Served, Sells
<1>17. QED
  BY <1>8, <1>13, <1>14, <1>15, <1>16 DEF DataInv, Trail
\* A task goes on to a step of its own, and whoever stays keeps what it knows.
LEMMA GoesOn ==
  ASSUME MediatorInv, DataInv, NEW t \in tasks, NEW u, tasks' \subseteq (tasks \ {t}) \cup {u},
         u.entry = t.entry, UNCHANGED <<dataHash, owner, log, trialCount, confirmedBuyers>>,
         UNCHANGED <<watcher, deployed_files, arrived, todo, proc, faults>>,
         \A k \in DOMAIN db : k \in DOMAIN db' /\ db'[k] \in {db[k], NoFile},
         \A n \in Names : uploads'[n] = Corrupt => uploads[n] = Corrupt,
         \A x \in tasks \ {t} : x.pc \in {"read", "verify"} => downloads'[x.who][x.name] = downloads[x.who][x.name],
         TaskData(u)', Altered(u)' => Altered(t), NamesKept', Served'
  PROVE  DataInv'
<1>1. KeysLead /\ TasksLead /\ TrialsTampered
  BY DEF DataInv, Trail
<1>2. Goods'
  BY GoodsAside DEF DataInv
<1>3. \A x \in tasks \ {t} : TaskData(x)' /\ (Altered(x)' => Altered(x))
  BY Stays
<1>4. TasksLead'
  BY <1>3 DEF TasksLead
<1>5. TrialsTampered'
  BY <1>1, <1>3 DEF TrialsTampered
<1>6. KeysLead'
  <2>1. \A key, m : KeyFor(key, m) => KeyFor(key, m)'
    BY DEF KeyFor, NamedFor, Sells
  <2>2. QED
    BY <1>1, <2>1 DEF KeysLead
<1>7. QED
  BY <1>2, <1>4, <1>5, <1>6 DEF DataInv, Trail

\* The owner posts the file the contract sells, under the key it then announces.
LEMMA PostData ==
  ASSUME MediatorInv, DataInv, NEW t \in tasks, post_file(t)
  PROVE  DataInv'
<1> DEFINE f == deployed_files[t.who][log[t.entry].address]
<1>1. PICK m : m = log[t.entry].address
  OBVIOUS
<1>2. /\ UNCHANGED <<dataHash, owner, log, trialCount, confirmedBuyers>> /\ t.pc = "post"
      /\ UNCHANGED <<proc, todo, watcher, deployed_files, arrived, downloads, faults>>
  BY DEF post_file, chainVars, processVars, watcherVars
<1>3. t \in TaskShape /\ t.who \in Accounts /\ m \in Merchs /\ DOMAIN t = {"who", "entry", "pc", "uuid", "pubkey", "name", "file", "ok"}
  BY <1>1, TaskFacts
<1>4. NamesKept /\ Served /\ DeployedData /\ uploads \in [Names -> Contents \cup {NoFile}] /\ db \in Seq(Names \cup {NoFile})
  BY DataFacts DEF DataInv, Trail, Goods
<1>5. CASE f # NoFile
  <2>1. f \in Files /\ BaseName[f] \in Names /\ f # Corrupt /\ Sells(m, f)
    <3>1. f \in Files /\ Sells(m, f)
      BY <1>1, <1>3, <1>4, <1>5, DataFacts DEF DeployedData
    <3>2. QED
      BY <3>1, DataFacts
  <2>2. PICK key : key = Len(db) + 1
    OBVIOUS
  <2>3. /\ uploads' = [uploads EXCEPT ![BaseName[f]] = f] /\ db' = Append(db, BaseName[f])
        /\ Continue(t, IF Entry(t).event = "Purchase"
              THEN [t EXCEPT !.pc = "emit", !.uuid = key, !.pubkey = Entry(t).pubkey]
              ELSE [t EXCEPT !.pc = "get_pubkey", !.uuid = key])
    BY <1>5, <2>2 DEF post_file, Merch, Storage!upload, Storage!NextKey
  <2> HIDE DEF f
  <2>4. PICK u : u = IF Entry(t).event = "Purchase"
              THEN [t EXCEPT !.pc = "emit", !.uuid = key, !.pubkey = Entry(t).pubkey]
              ELSE [t EXCEPT !.pc = "get_pubkey", !.uuid = key]
    OBVIOUS
  <2>5. u.entry = t.entry /\ u.pc \in {"emit", "get_pubkey"} /\ u.uuid = key
    BY <1>3, <2>4
  <2>6. tasks' = (tasks \ {t}) \cup {u}
    BY <2>3, <2>4 DEF Continue
  <2>7. /\ DOMAIN db' = 1..(Len(db) + 1) /\ DOMAIN db = 1..Len(db) /\ Len(db) \in Nat /\ db'[key] = BaseName[f]
        /\ \A k \in DOMAIN db : db'[k] = db[k]
    BY <1>4, <2>1, <2>2, <2>3, Appends
  <2>8. key \in DOMAIN db' /\ \A k \in DOMAIN db : k \in DOMAIN db'
    BY <2>2, <2>7
  <2>9. \A n \in Names : uploads'[n] = IF n = BaseName[f] THEN f ELSE uploads[n]
    BY <1>4, <2>1, <2>3
  <2>10. NamesKept' /\ Served'
    BY <1>2, <1>4, <2>1, <2>9 DEF NamesKept, Served, Sells
  <2>11. TaskData(u)'
    BY <1>1, <1>2, <2>1, <2>5, <2>7, <2>8 DEF TaskData, KeyFor, NamedFor, Sells
  <2>12. ~Altered(u)'
    BY <1>1, <1>2, <2>1, <2>5, <2>9, HashesApart DEF Altered, Sells
  <2>13. \A n \in Names : uploads'[n] = Corrupt => uploads[n] = Corrupt
    BY <2>1, <2>9
  <2>14. QED
    BY <1>2, <2>5, <2>6, <2>7, <2>8, <2>10, <2>11, <2>12, <2>13, GoesOn
<1>6. CASE f = NoFile
  <2>1. tasks' = tasks \ {t} /\ UNCHANGED <<uploads, db>>
    BY <1>6 DEF post_file, GiveUp, Merch, storageVars
  <2>2. QED
    BY <1>2, <2>1, TrailAside, GoodsAside DEF DataInv
<1>7. QED
  BY <1>5, <1>6

\* Tasks that look something up, or end, do not touch the data.
LEMMA LookupData ==
  ASSUME MediatorInv, DataInv, NEW t \in tasks, get_pubkey(t) \/ withdraw(t) \/ verification_result(t)
  PROVE  DataInv'
<1>1. /\ UNCHANGED <<dataHash, owner, log, trialCount, confirmedBuyers>>
      /\ UNCHANGED <<uploads, db, proc, todo, watcher, deployed_files, arrived, downloads, faults>>
  BY DEF get_pubkey, withdraw, verification_result, Chain!withdraw, chainVars, storageVars, processVars, watcherVars
<1>2. CASE get_pubkey(t)
  <2>1. PICK u : u = [t EXCEPT !.pc = "emit", !.pubkey = Chain!getPubKey(Entry(t).buyer)]
    OBVIOUS
  <2>2. tasks' = (tasks \ {t}) \cup {u} /\ t.pc = "get_pubkey"
    BY <1>2, <2>1 DEF get_pubkey, Continue
  <2>3. DOMAIN t = {"who", "entry", "pc", "uuid", "pubkey", "name", "file", "ok"}
    BY TaskFacts
  <2>4. u.entry = t.entry /\ u.pc = "emit" /\ u.uuid = t.uuid
    BY <2>1, <2>3
  <2>5. TaskData(t) /\ NamesKept /\ Served
    BY DEF DataInv, Trail, TasksLead
  <2>6. TaskData(u)' /\ (Altered(u)' => Altered(t))
    BY <1>1, <2>2, <2>4, <2>5 DEF TaskData, Altered, KeyFor, NamedFor, Sells
  <2>7. NamesKept' /\ Served'
    BY <1>1, <2>5 DEF NamesKept, Served, Sells
  <2>8. QED
    BY <1>1, <2>2, <2>4, <2>6, <2>7, GoesOn
<1>3. CASE withdraw(t) \/ verification_result(t)
  <2>1. tasks' \subseteq tasks
    BY <1>3 DEF withdraw, verification_result
  <2>2. QED
    BY <1>1, <2>1, TrailAside, GoodsAside DEF DataInv
<1>4. QED
  BY <1>2, <1>3

\* The buyer gets what is stored under the name the key leads to.
LEMMA DownloadData ==
  ASSUME MediatorInv, DataInv, NEW t \in tasks, download_file(t)
  PROVE  DataInv'
<1>1. /\ UNCHANGED <<dataHash, owner, log, trialCount, confirmedBuyers>> /\ t.pc = "fetch"
      /\ UNCHANGED <<uploads, db, proc, todo, watcher, deployed_files, arrived, downloads, faults>>
  BY DEF download_file, chainVars, storageVars, processVars, watcherVars
<1>2. PICK key, m : key = log[t.entry].uri.uuid /\ m = log[t.entry].address
  OBVIOUS
<1>3. ASSUME Storage!Found(key), Continue(t, [t EXCEPT !.pc = "save", !.name = Storage!FileName(key), !.file = Storage!FileBody(key)])
      PROVE  DataInv'
  <2>1. PICK n, c : n = db[key] /\ c = uploads[db[key]]
    OBVIOUS
  <2>2. NamedFor(n, m) /\ n \in Names
    <3>1. t.entry \in DOMAIN log /\ log[t.entry].event = "Upload"
      BY <1>1, TaskFacts DEF Role
    <3>2. KeyFor(key, m) /\ db[key] # NoFile
      BY <1>2, <1>3, <3>1 DEF DataInv, Trail, KeysLead, Storage!Found
    <3>3. QED
      BY <2>1, <3>2, DataFacts DEF KeyFor, NamedFor
  <2>3. PICK u : u = [t EXCEPT !.pc = "save", !.name = n, !.file = c]
    OBVIOUS
  <2>4. tasks' = (tasks \ {t}) \cup {u}
    BY <1>3, <2>1, <2>3 DEF Continue, Storage!FileName, Storage!FileBody
  <2>5. DOMAIN t = {"who", "entry", "pc", "uuid", "pubkey", "name", "file", "ok"}
    BY TaskFacts
  <2>6. u.entry = t.entry /\ u.pc = "save" /\ u.name = n /\ u.file = c
    BY <2>3, <2>5
  <2>7. NamesKept /\ Served
    BY DEF DataInv, Trail
  <2>8. TaskData(u)'
    <3>1. c \in Files => BaseName[c] = n
      BY <2>1, <2>2, <2>7 DEF NamesKept
    <3>2. QED
      BY <1>1, <1>2, <2>2, <2>6, <3>1 DEF TaskData, NamedFor, Sells
  <2>9. Altered(u)' => Altered(t)
    BY <1>1, <1>2, <2>1, <2>2, <2>6 DEF Altered, NamedFor
  <2>10. NamesKept' /\ Served'
    BY <1>1, <2>7 DEF NamesKept, Served, Sells
  <2>11. QED
    BY <1>1, <2>4, <2>6, <2>8, <2>9, <2>10, GoesOn
<1>4. CASE GiveUp(t)
  <2>1. tasks' \subseteq tasks
    BY <1>4 DEF GiveUp
  <2>2. QED
    BY <1>1, <2>1, TrailAside, GoodsAside DEF DataInv
<1>5. QED
  BY <1>2, <1>3, <1>4 DEF download_file, Entry
\* Two tasks of a buyer use a name for one file, sold by one contract, on which only one of them works.
LEMMA NamesAlone ==
  ASSUME MediatorInv, DataInv, NamesApart, NEW t \in tasks, NEW x \in tasks,
         t.pc \in {"save", "read", "verify"}, x.pc \in {"save", "read", "verify"}, x.name = t.name
  PROVE  x = t
<1>1. NamedFor(t.name, log[t.entry].address) /\ NamedFor(x.name, log[x.entry].address)
  BY DEF DataInv, Trail, TasksLead, TaskData
<1>2. PICK f \in Files : Sells(log[t.entry].address, f) /\ BaseName[f] = t.name
  BY <1>1 DEF NamedFor
<1>3. Sells(log[x.entry].address, f)
  BY <1>1, <1>2 DEF NamedFor, NamesApart
<1>4. log[t.entry].address \in Merchs /\ log[x.entry].address \in Merchs
  BY TaskFacts
<1>5. log[t.entry].address = log[x.entry].address
  BY <1>2, <1>3, <1>4 DEF DataInv, Goods, FilesOnce
<1>6. QED
  BY <1>5, Parts DEF WorkersOK, Working

\* Nobody who was served waits for the same goods again.
LEMMA NotServedTwice ==
  ASSUME MediatorInv, NEW t \in tasks, t.pc \in {"save", "read", "verify"}
  PROVE  t.who \notin confirmedBuyers[log[t.entry].address]
<1>1. OnSale(t) /\ log[t.entry].address \in Merchs /\ t.who = log[t.entry].buyer
  BY TaskFacts DEF Working, Role
<1>2. \A m \in Merchs : progressBuyer[m] \notin confirmedBuyers[m]
  BY Parts DEF Contracts!Inv, Contracts!SaleStateConsistent, Contracts!SaleStateOK
<1>3. QED
  BY <1>1, <1>2 DEF OnSale

\* The buyer writes over no file that another task of its relies on, or that it was served.
LEMMA SaveData ==
  ASSUME MediatorInv, DataInv, NamesApart, NEW t \in tasks, save(t)
  PROVE  DataInv'
<1>1. /\ UNCHANGED <<dataHash, owner, log, trialCount, confirmedBuyers>> /\ t.pc = "save"
      /\ UNCHANGED <<uploads, db, proc, todo, watcher, deployed_files, arrived, faults>>
      /\ downloads' = [downloads EXCEPT ![t.who][t.name] = t.file]
  BY DEF save, chainVars, storageVars, processVars, watcherVars
<1>2. PICK m : m = log[t.entry].address
  OBVIOUS
<1>3. /\ t.who \in Accounts /\ m \in Merchs /\ t.name \in Names /\ t.file \in Contents
      /\ DOMAIN t = {"who", "entry", "pc", "uuid", "pubkey", "name", "file", "ok"}
  BY <1>1, <1>2, TaskFacts DEF Holds
<1>4. /\ NamesKept /\ Served /\ FilesOnce /\ NamedFor(t.name, m) /\ (t.file \in Files => BaseName[t.file] = t.name)
      /\ downloads \in [Accounts -> [Names -> Contents \cup {NoFile}]] /\ \A f \in Files : BaseName[f] \in Names
      /\ confirmedBuyers \in [Merchs -> SUBSET Accounts]
  BY <1>1, <1>2, DataFacts DEF DataInv, Trail, Goods, TasksLead, TaskData
<1>5. \A a \in Accounts, n \in Names : downloads'[a][n] = IF a = t.who /\ n = t.name THEN t.file ELSE downloads[a][n]
  BY <1>1, <1>3, <1>4
<1>6. PICK u : u = [t EXCEPT !.pc = "read", !.file = NoFile]
  OBVIOUS
<1>7. tasks' = (tasks \ {t}) \cup {u} /\ u.entry = t.entry /\ u.pc = "read" /\ u.name = t.name /\ u.who = t.who
  BY <1>3, <1>6 DEF save, Continue
<1>8. \A x \in tasks \ {t} : x.pc \in {"read", "verify"} => downloads'[x.who][x.name] = downloads[x.who][x.name]
  <2>1. ASSUME NEW x \in tasks \ {t}, x.pc \in {"read", "verify"}
        PROVE  x.name # t.name /\ x.name \in Names /\ x.who \in Accounts
    <3>1. x.name # t.name
      BY <1>1, <2>1, NamesAlone
    <3>2. NamedFor(x.name, log[x.entry].address) /\ x.who \in Accounts
      BY <2>1, TaskFacts DEF DataInv, Trail, TasksLead, TaskData
    <3>3. QED
      BY <1>4, <3>1, <3>2 DEF NamedFor
  <2>2. QED
    BY <1>5, <2>1
<1>9. TaskData(u)' /\ (Altered(u)' => Altered(t))
  BY <1>1, <1>2, <1>3, <1>4, <1>5, <1>7 DEF TaskData, Altered, NamedFor, Sells
<1>10. NamesKept'
  BY <1>1, <1>4, <1>5 DEF NamesKept
<1>11. Served'
  <2>1. ASSUME NEW n \in Merchs, NEW b \in confirmedBuyers[n]
        PROVE  \E f \in Files : Sells(n, f) /\ downloads'[b][BaseName[f]] = f
    <3>1. PICK f \in Files : Sells(n, f) /\ downloads[b][BaseName[f]] = f
      BY <1>4, <2>1 DEF Served
    <3>2. BaseName[f] = t.name => Sells(m, f)
      BY <1>4, <3>1 DEF NamedFor, NamesApart
    <3>3. BaseName[f] = t.name => n = m
      BY <1>3, <1>4, <3>1, <3>2 DEF FilesOnce
    <3>4. b # t.who \/ BaseName[f] # t.name
      BY <1>1, <1>2, <2>1, <3>3, NotServedTwice
    <3>5. b \in Accounts /\ BaseName[f] \in Names
      BY <1>4, <2>1
    <3>6. QED
      BY <1>5, <3>1, <3>4, <3>5
  <2>2. QED
    BY <1>1, <2>1 DEF Served, Sells
<1>12. QED
  BY <1>1, <1>7, <1>8, <1>9, <1>10, <1>11, GoesOn

\* The buyer verifies what is in its directory.
LEMMA ReadData ==
  ASSUME MediatorInv, DataInv, NEW t \in tasks, read(t)
  PROVE  DataInv'
<1>1. /\ UNCHANGED <<dataHash, owner, log, trialCount, confirmedBuyers>> /\ t.pc = "read"
      /\ UNCHANGED <<uploads, db, proc, todo, watcher, deployed_files, arrived, downloads, faults>>
  BY DEF read, chainVars, storageVars, processVars, watcherVars
<1>2. PICK u : u = [t EXCEPT !.pc = "verify", !.file = downloads[t.who][t.name]]
  OBVIOUS
<1>3. tasks' = (tasks \ {t}) \cup {u}
  BY <1>2 DEF read, Continue
<1>4. DOMAIN t = {"who", "entry", "pc", "uuid", "pubkey", "name", "file", "ok"}
  BY TaskFacts
<1>5. u.entry = t.entry /\ u.pc = "verify" /\ u.name = t.name /\ u.who = t.who /\ u.file = downloads[t.who][t.name]
  BY <1>2, <1>4
<1>6. TaskData(t) /\ NamesKept /\ Served
  BY DEF DataInv, Trail, TasksLead
<1>7. TaskData(u)' /\ (Altered(u)' => Altered(t))
  BY <1>1, <1>5, <1>6 DEF TaskData, Altered, NamedFor, Sells
<1>8. NamesKept' /\ Served'
  BY <1>1, <1>6 DEF NamesKept, Served, Sells
<1>9. QED
  BY <1>1, <1>3, <1>5, <1>7, <1>8, GoesOn

\* The storage forgets its keys.
LEMMA RestartData ==
  ASSUME MediatorInv, DataInv, StorageRestart
  PROVE  DataInv'
<1>1. /\ UNCHANGED <<dataHash, owner, log, trialCount, confirmedBuyers>>
      /\ UNCHANGED <<uploads, proc, todo, watcher, deployed_files, arrived, downloads, tasks>>
      /\ db' = [k \in DOMAIN db |-> NoFile] /\ faults' = [faults EXCEPT !.failure = faults.failure + 1]
  BY DEF StorageRestart, Storage!Restart, chainVars, processVars, watcherVars
<1>2. faults'.tamper = faults.tamper
  BY <1>1, Parts DEF MediatorTypes
<1>3. NamesKept /\ KeysLead /\ TasksLead /\ TrialsTampered /\ Served
  BY DEF DataInv, Trail
<1>4. \A x \in tasks : TaskData(x)' /\ (Altered(x)' => Altered(x))
  BY <1>1, Stays
<1>5. KeysLead'
  BY <1>1, <1>3 DEF KeysLead, KeyFor, NamedFor, Sells
<1>6. TasksLead' /\ TrialsTampered'
  BY <1>1, <1>2, <1>3, <1>4 DEF TasksLead, TrialsTampered
<1>7. NamesKept' /\ Served'
  BY <1>1, <1>3 DEF NamesKept, Served, Sells
<1>8. QED
  BY <1>1, <1>5, <1>6, <1>7, GoodsAside DEF DataInv, Trail

\* An alteration may spoil one trial of every contract, and is counted.
LEMMA TamperingData ==
  ASSUME MediatorInv, DataInv, Tampering
  PROVE  DataInv'
<1>1. PICK n \in Names : uploads' = [uploads EXCEPT ![n] = Corrupt]
  BY DEF Tampering, Storage!Tamper
<1>2. /\ UNCHANGED <<dataHash, owner, log, trialCount, confirmedBuyers>>
      /\ UNCHANGED <<db, proc, todo, watcher, deployed_files, arrived, downloads, tasks>>
      /\ faults' = [faults EXCEPT !.tamper = faults.tamper + 1]
  BY DEF Tampering, Storage!Tamper, chainVars, processVars, watcherVars
<1>3. faults'.tamper = faults.tamper + 1
  BY <1>2, Parts DEF MediatorTypes
<1>4. NamesKept /\ KeysLead /\ TasksLead /\ TrialsTampered /\ Served
  BY DEF DataInv, Trail
<1>5. uploads \in [Names -> Contents \cup {NoFile}] /\ Corrupt \notin Files /\ trialCount \in [Merchs -> Nat] /\ faults.tamper \in Nat
  BY DataFacts
<1>6. NamesKept'
  BY <1>1, <1>2, <1>4, <1>5 DEF NamesKept
<1>7. KeysLead' /\ TasksLead' /\ Served'
  BY <1>2, <1>4 DEF KeysLead, TasksLead, TaskData, Served, KeyFor, NamedFor, Sells
<1>8. TrialsTampered'
  <2>1. \A m \in Merchs : trialCount[m] < faults.tamper + 1
    BY <1>4, <1>5 DEF TrialsTampered
  <2>2. \A t \in tasks : log[t.entry].address \in Merchs
    BY TaskFacts
  <2>3. \A m \in Merchs : trialCount[m] <= faults.tamper + 1
    BY <1>5, <2>1
  <2>4. QED
    BY <1>2, <1>3, <2>1, <2>2, <2>3 DEF TrialsTampered
<1>9. QED
  BY <1>2, <1>6, <1>7, <1>8, GoodsAside DEF DataInv, Trail
\* A mismatch means an altered delivery, a match that the buyer holds the very file.
LEMMA Verified ==
  ASSUME MediatorInv, DataInv, NamesApart, NEW t \in tasks, t.pc = "verify", NEW m, m = log[t.entry].address
  PROVE  /\ to_hash(t.file) # dataHash[m] => Altered(t)
         /\ to_hash(t.file) = dataHash[m] => \E f \in Files : Sells(m, f) /\ downloads[t.who][BaseName[f]] = f
<1>1. t.file = downloads[t.who][t.name] /\ NamedFor(t.name, m) /\ NamesKept
  BY DEF DataInv, Trail, TasksLead, TaskData
<1>2. t.file \in Contents /\ t.who \in Accounts /\ \A f \in Files : BaseName[f] \in Names
  BY TaskFacts, DataFacts DEF Holds
<1>3. PICK f \in Files : Sells(m, f) /\ BaseName[f] = t.name
  BY <1>1 DEF NamedFor
<1>4. t.file = Corrupt \/ t.file = f
  BY <1>1, <1>2, <1>3 DEF NamesKept, NamesApart, Contents
<1>5. to_hash(t.file) = dataHash[m] => t.file = f
  BY <1>3, HashesApart DEF Sells
<1>6. QED
  BY <1>1, <1>3, <1>4, <1>5 DEF Altered, Sells

\* A trial that fails was an altered one, a sale that succeeds leaves the file with its buyer.
LEMMA VerifyData ==
  ASSUME MediatorInv, DataInv, NamesApart, NEW t \in tasks, verify_product(t)
  PROVE  DataInv'
<1>1. PICK m : m = log[t.entry].address
  OBVIOUS
<1>2. PICK h, r, b : h = to_hash(t.file) /\ r = (to_hash(t.file) = dataHash[m]) /\ b = t.who
  OBVIOUS
<1>3. PICK stay : stay = (tasks \ {t}) \cup {[t EXCEPT !.pc = "query", !.ok = r]}
  OBVIOUS
<1>4. Chain!verify(m, b, h) /\ Dispatch(stay) /\ t.pc = "verify"
  BY <1>1, <1>2, <1>3, Zenon DEF verify_product, Merch
<1>5. /\ UNCHANGED <<dataHash, owner>>
      /\ UNCHANGED <<uploads, db, proc, todo, watcher, deployed_files, arrived, downloads, faults>>
  BY <1>4 DEF verify_product, Chain!verify, storageVars, processVars, watcherVars
<1>6. Goods'
  BY <1>5, GoodsAside DEF DataInv
<1>7. /\ m \in Merchs /\ b \in Accounts /\ DOMAIN t = {"who", "entry", "pc", "uuid", "pubkey", "name", "file", "ok"}
      /\ OnSale(t) /\ \A x \in tasks : x.entry \in DOMAIN log /\ log[x.entry].address \in Merchs
  BY <1>1, <1>2, <1>4, TaskFacts DEF Working
<1>8. /\ NamesKept /\ KeysLead /\ TasksLead /\ TrialsTampered /\ Served
      /\ trialCount \in [Merchs -> Nat] /\ faults.tamper \in Nat /\ confirmedBuyers \in [Merchs -> SUBSET Accounts]
  BY DataFacts DEF DataInv, Trail
<1>9. owner[m] \in Accounts
  BY <1>1, <1>7, TaskFacts, ChainFacts DEF OnSale
<1>10. \A x \in stay : x.pc = "query" \/ (x \in tasks /\ (Working(x) => log[x.entry].address # m))
  <2>1. [t EXCEPT !.pc = "query", !.ok = r].pc = "query"
    BY <1>7
  <2>2. \A x \in tasks : Working(x) /\ log[x.entry].address = m => x = t
    BY <1>1, <1>4, Parts DEF WorkersOK, Working
  <2>3. QED
    BY <1>3, <2>1, <2>2
\* Whatever the outcome: the log grows by a Verify event or not at all, the count by one for a mismatch.
<1>11. ASSUME \A i \in DOMAIN log : i \in DOMAIN log' /\ log'[i] = log[i],
              \A i \in DOMAIN log' : i \in DOMAIN log \/ log'[i].event = "Verify",
              \A x \in tasks' : x \in stay \/ x.pc \in {"post", "withdraw"},
              \A n \in Merchs \ {m} : trialCount'[n] = trialCount[n] /\ confirmedBuyers'[n] = confirmedBuyers[n],
              \/ trialCount'[m] = 0 /\ confirmedBuyers'[m] = confirmedBuyers[m] \cup {b} /\ h = dataHash[m]
              \/ trialCount'[m] = trialCount[m] + 1 /\ confirmedBuyers'[m] = confirmedBuyers[m] /\ h # dataHash[m]
       PROVE  DataInv'
  <2>1. \A x \in tasks : TaskData(x)' /\ (Altered(x)' => Altered(x))
    BY <1>5, <1>7, <1>11, Stays
  <2>2. \A x \in tasks' : x.pc \in {"query", "post", "withdraw"} => TaskData(x)' /\ ~Altered(x)'
    BY DEF TaskData, Altered
  <2>3. TasksLead'
    BY <1>10, <1>11, <2>1, <2>2 DEF TasksLead
  <2>4. \A x \in tasks' : Altered(x)' => x \in tasks /\ Altered(x) /\ log'[x.entry].address \in Merchs \ {m}
    <3>1. \A x \in tasks : Altered(x) => Working(x)
      BY DEF Altered, Working
    <3>2. QED
      BY <1>7, <1>10, <1>11, <2>1, <2>2, <3>1
  <2>5. trialCount'[m] <= faults.tamper
    <3>1. trialCount[m] \in Nat
      BY <1>7, <1>8
    <3>2. h # dataHash[m] => trialCount[m] < faults.tamper
      BY <1>1, <1>2, <1>4, <1>8, Verified DEF TrialsTampered
    <3>3. QED
      BY <1>8, <1>11, <3>1, <3>2
  <2>6. TrialsTampered'
    BY <1>5, <1>7, <1>8, <1>11, <2>4, <2>5 DEF TrialsTampered
  <2>7. NamesKept' /\ KeysLead'
    BY <1>5, <1>8, <1>11 DEF NamesKept, KeysLead, KeyFor, NamedFor, Sells
  <2>8. Served'
    <3>1. h = dataHash[m] => \E f \in Files : Sells(m, f) /\ downloads[b][BaseName[f]] = f
      BY <1>1, <1>2, <1>4, Verified
    <3>2. ASSUME NEW n \in Merchs, NEW c \in confirmedBuyers'[n]
          PROVE  \E f \in Files : Sells(n, f) /\ downloads[c][BaseName[f]] = f
      <4>1. c \in confirmedBuyers[n] \/ (n = m /\ c = b /\ h = dataHash[m])
        BY <1>11, <3>2
      <4>2. QED
        BY <1>8, <3>1, <4>1 DEF Served
    <3>3. QED
      BY <1>5, <3>2 DEF Served, Sells
  <2>9. QED
    BY <1>6, <2>3, <2>6, <2>7, <2>8 DEF DataInv, Trail
<1>12. ASSUME NEW e, e.event = "Verify", e.address = m, e.result \in BOOLEAN, log' = Append(log, e)
       PROVE  /\ \A i \in DOMAIN log : i \in DOMAIN log' /\ log'[i] = log[i]
              /\ \A i \in DOMAIN log' : i \in DOMAIN log \/ log'[i].event = "Verify"
              /\ \A x \in tasks' : x \in stay \/ x.pc \in {"post", "withdraw"}
  <2>1. Addressee(e) \in Accounts
    BY <1>9, <1>12 DEF Addressee
  <2>2. UNCHANGED <<owner, proc>>
    BY <1>5
  <2>3. /\ \A i \in DOMAIN log : i \in DOMAIN log' /\ log'[i] = log[i]
        /\ \A i \in DOMAIN log' : i \in DOMAIN log \/ log'[i] = e
        /\ \A x \in tasks' : x \in stay \/
             /\ log'[x.entry] = e
             /\ e.event = "Upload" => x.pc = "fetch"
             /\ e.event # "Upload" => x.pc \in {"post", "withdraw"}
    BY <1>4, <1>12, <2>1, <2>2, Spawned
  <2>4. QED
    BY <1>12, <2>3
<1>13. CASE h # dataHash[m] /\ Chain!RequestAgain(m, b)
  <2>1. PICK e : e = Chain!Verify(m, b, FALSE)
    OBVIOUS
  <2>2. e.event = "Verify" /\ e.address = m /\ e.result = FALSE
    BY <2>1, Zenon DEF Chain!Verify
  <2>3. log' = Append(log, e)
    BY <1>13, <2>1, Zenon DEF Chain!RequestAgain
  <2>4. trialCount' = [trialCount EXCEPT ![m] = trialCount[m] + 1] /\ UNCHANGED confirmedBuyers
    BY <1>13, Zenon DEF Chain!RequestAgain
  <2>5. /\ \A n \in Merchs \ {m} : trialCount'[n] = trialCount[n] /\ confirmedBuyers'[n] = confirmedBuyers[n]
        /\ trialCount'[m] = trialCount[m] + 1 /\ confirmedBuyers'[m] = confirmedBuyers[m]
    BY <1>7, <1>8, <2>4
  <2>6. QED
    BY <1>11, <1>12, <1>13, <2>2, <2>3, <2>5
<1>14. CASE h # dataHash[m] /\ Chain!Ban(m)
  <2>1. trialCount' = [trialCount EXCEPT ![m] = trialCount[m] + 1] /\ UNCHANGED confirmedBuyers /\ log' = log
    BY <1>14 DEF Chain!Ban
  <2>2. tasks' = stay
    BY <1>4, <2>1 DEF Dispatch
  <2>3. /\ \A n \in Merchs \ {m} : trialCount'[n] = trialCount[n] /\ confirmedBuyers'[n] = confirmedBuyers[n]
        /\ trialCount'[m] = trialCount[m] + 1 /\ confirmedBuyers'[m] = confirmedBuyers[m]
    BY <1>7, <1>8, <2>1
  <2>4. QED
    BY <1>11, <1>14, <2>1, <2>2, <2>3
<1>15. CASE h = dataHash[m] /\ Chain!Confirm(m, b)
  <2>1. PICK e : e = Chain!Verify(m, b, TRUE)
    OBVIOUS
  <2>2. e.event = "Verify" /\ e.address = m /\ e.result = TRUE
    BY <2>1, Zenon DEF Chain!Verify
  <2>3. log' = Append(log, e)
    BY <1>15, <2>1, Zenon DEF Chain!Confirm
  <2>4. /\ trialCount' = [trialCount EXCEPT ![m] = 0]
        /\ confirmedBuyers' = [confirmedBuyers EXCEPT ![m] = confirmedBuyers[m] \cup {b}]
    BY <1>15, Zenon DEF Chain!Confirm
  <2>5. /\ \A n \in Merchs \ {m} : trialCount'[n] = trialCount[n] /\ confirmedBuyers'[n] = confirmedBuyers[n]
        /\ trialCount'[m] = 0 /\ confirmedBuyers'[m] = confirmedBuyers[m] \cup {b}
    BY <1>7, <1>8, <2>4
  <2>6. QED
    BY <1>11, <1>12, <1>15, <2>2, <2>3, <2>5
<1>16. QED
  BY <1>4, <1>13, <1>14, <1>15 DEF Chain!verify
-----------------------------------------------------------------------------
\* The data are in order as long as no mediator has crashed.
LEMMA DataInitInv == Init => DataInv
<1> SUFFICES ASSUME Init
             PROVE  DataInv
  OBVIOUS
<1>1. /\ log = <<>> /\ tasks = {} /\ arrived = {} /\ owner = [m \in Merchs |-> NoAccount]
      /\ dataHash = [m \in Merchs |-> NoHash] /\ trialCount = [m \in Merchs |-> 0]
      /\ confirmedBuyers = [m \in Merchs |-> {}] /\ todo = [a \in Accounts |-> {}]
      /\ watcher = [a \in Accounts |-> Idle] /\ faults.tamper = 0
      /\ deployed_files = [a \in Accounts |-> [m \in Merchs |-> NoFile]]
      /\ uploads = [n \in Names |-> NoFile] /\ downloads = [a \in Accounts |-> [n \in Names |-> NoFile]]
  BY DEF Init, Chain!Init, Storage!Init
<1>2. NoFile \notin Files
  BY MediatorAssumption
<1>3. DeployedData
  BY <1>1 DEF DeployedData, Idle
<1>4. FilesOnce
  BY <1>1, HashesApart DEF FilesOnce, Sells
<1>5. NamesKept /\ KeysLead /\ TasksLead /\ TrialsTampered /\ Served
  BY <1>1, <1>2 DEF NamesKept, KeysLead, TasksLead, TrialsTampered, Served
<1>6. QED
  BY <1>3, <1>4, <1>5 DEF DataInv, Goods, Trail

\* As long as nobody has crashed, every step keeps what is delivered the file that was sold.
LEMMA DataStep ==
  ASSUME NamesApart, MediatorInv, DataInv, [Next]_vars, faults'.crash = 0
  PROVE  DataInv'
<1>1. CASE Next
  <2>1. ASSUME NEW a \in Accounts, crash(a)
        PROVE  FALSE
    <3>1. faults.crash \in Nat
      BY DataFacts
    <3>2. faults'.crash = faults.crash + 1
      BY <2>1, Parts DEF crash, MediatorTypes
    <3>3. QED
      BY <3>1, <3>2
  <2>2. ASSUME NEW t \in tasks, TaskStep(t)
        PROVE  DataInv'
    BY <2>2, PostData, LookupData, AnnounceData, DownloadData, SaveData, ReadData, VerifyData DEF TaskStep
  <2>3. ASSUME NEW a \in Owners, WatcherStep(a)
        PROVE  DataInv'
    BY <2>3, DeployData, RegisterData DEF WatcherStep
  <2>4. Owners \subseteq Accounts
    BY DEF Accounts
  <2>5. QED
    BY <1>1, <2>1, <2>2, <2>3, <2>4, SeenData, PurchaseData, FailureData, RestartData, TamperingData DEF Next
<1>2. CASE UNCHANGED vars
  <2>1. /\ UNCHANGED <<dataHash, owner, log, trialCount, confirmedBuyers>>
        /\ UNCHANGED <<uploads, db, proc, todo, watcher, deployed_files, arrived, downloads, tasks, faults>>
    BY <1>2 DEF vars, chainVars, storageVars, processVars, watcherVars
  <2>2. QED
    BY <2>1, TrailAside, GoodsAside DEF DataInv
<1>3. QED
  BY <1>1, <1>2

\* In every state before a crash the data are where they belong.
LEMMA DataInvariance ==
  ASSUME NamesApart
  PROVE  Spec => [](MediatorInv /\ (faults.crash = 0 => DataInv))
<1> DEFINE Safe == MediatorInv /\ (faults.crash = 0 => DataInv)
<1>1. Init => Safe
  BY MediatorInitInv, DataInitInv
<1>2. Safe /\ [Next]_vars => Safe'
  <2> SUFFICES ASSUME Safe, [Next]_vars
               PROVE  Safe'
    OBVIOUS
  <2>1. MediatorInv'
    BY MediatorStep
  <2>2. ASSUME faults'.crash = 0
        PROVE  faults.crash = 0
    <3>1. faults \in [crash: 0..MaxCrashes, tamper: 0..MaxTampers, failure: 0..MaxFailures] /\ faults.crash \in Nat
      BY Parts, DataFacts DEF MediatorTypes
    <3>2. CASE UNCHANGED faults
      BY <2>2, <3>2
    <3>3. ASSUME NEW a \in Accounts, crash(a)
          PROVE  FALSE
      <4>1. faults'.crash = faults.crash + 1
        BY <3>1, <3>3 DEF crash
      <4>2. QED
        BY <2>2, <3>1, <4>1
    <3>4. CASE Failure \/ StorageRestart \/ Tampering
      <4>1. faults'.crash = faults.crash
        BY <3>1, <3>4 DEF Failure, StorageRestart, Tampering
      <4>2. QED
        BY <2>2, <4>1
    <3>5. QED
      BY <3>2, <3>3, <3>4
         DEF Next, vars, TaskStep, post_file, get_pubkey, emit_upload, withdraw, download_file, save, read,
             verify_product, verification_result, WatcherStep, deploy_product, register_product, insert,
             FileArrives, start, create_event_filter, purchase
  <2>3. QED
    BY <2>1, <2>2, DataStep
<1>3. QED
  BY <1>1, <1>2, PTL DEF Spec

(***************************************************************************)
(* Goods are banned only after RETRY_LIMIT alterations of stored files, as *)
(* long as no mediator has crashed: an honest owner is not banned for what *)
(* its buyers, their tasks and the storage do among themselves.  (After a  *)
(* crash two contracts may sell one file, and one alteration may spoil two *)
(* trials of a contract.)                                                  *)
(***************************************************************************)
THEOREM BansNeedTampering ==
  ASSUME NamesApart
  PROVE  Spec => [](faults.crash = 0 => BanNeedsTampering)
<1>1. MediatorInv /\ (faults.crash = 0 => DataInv) => (faults.crash = 0 => BanNeedsTampering)
  <2> SUFFICES ASSUME MediatorInv, DataInv, NEW m \in Merchs, merchandiseState[m] = "BANNED"
               PROVE  faults.tamper >= RETRY_LIMIT
    BY DEF BanNeedsTampering
  <2>1. trialCount[m] = RETRY_LIMIT
    BY Parts DEF Contracts!Inv, Contracts!SaleStateConsistent, Contracts!SaleStateOK
  <2>2. trialCount[m] <= faults.tamper /\ trialCount[m] \in Nat /\ faults.tamper \in Nat
    BY DataFacts DEF DataInv, Trail, TrialsTampered
  <2>3. QED
    BY <2>1, <2>2
<1>2. QED
  BY <1>1, DataInvariance, PTL

(***************************************************************************)
(* Who was served has the very file the contract was deployed for in its   *)
(* download directory, and keeps it, as long as no mediator has crashed.   *)
(***************************************************************************)
THEOREM ServedHaveData ==
  ASSUME NamesApart
  PROVE  Spec => [](faults.crash = 0 => ServedBuyersHaveData)
<1>1. MediatorInv /\ (faults.crash = 0 => DataInv) => (faults.crash = 0 => ServedBuyersHaveData)
  BY DEF DataInv, Trail, Served, Sells, ServedBuyersHaveData
<1>2. QED
  BY <1>1, DataInvariance, PTL
================================================================================
