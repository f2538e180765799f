------------------------------ MODULE Mediators ------------------------------
(***************************************************************************)
(* The mediators of data owners and buyers (mediator-owner, mediator-buyer) *)
(* at work on the contracts and the storage.  Both programs run the same   *)
(* two threads: a watcher that turns raw files into contracts, and an      *)
(* event loop that spawns one task per log of the chain.  Tasks run        *)
(* concurrently and keep what they know in memory only.                    *)
(*                                                                         *)
(* The event loop polls; a log seen late and a task scheduled late are the *)
(* same thing, so a task is spawned in the step that emits its log, at     *)
(* every mediator whose event filter exists by then.                       *)
(***************************************************************************)
EXTENDS Naturals, Sequences, FiniteSets

CONSTANTS
  Owners, Buyers,          \* the accounts mediators run for
  NoAccount, Denied, Price, RETRY_LIMIT,
  MaxMerchs,               \* bound: contracts deployed
  Files,                   \* processed data files
  Movies,                  \* those made from files the startup scan finds
  FileOwner, BaseName,     \* whose file it is, and its base name
  NoFile, Corrupt,         \* no content, and altered content
  MaxCrashes, MaxTampers, MaxFailures   \* bounds on faults

Accounts == Owners \cup Buyers
Merchs == 1..MaxMerchs
Names == {BaseName[f] : f \in Files}
Contents == Files \cup {Corrupt}

\* The n-th RSA key pair account a generates; its public half.
RSAKey(a, n) == <<a, n>>
NoKey == <<>>
ValidKeys == {RSAKey(a, n) : a \in Accounts, n \in 1..(MaxCrashes + 1)}

\* SHA-256 is taken to be collision free.
to_hash(content) == <<"sha256", content>>
NoHash == <<>>
Hashes == {to_hash(c) : c \in Contents}

\* More uploads and more logs than the other bounds let happen.
MaxUploads == MaxMerchs * Cardinality(Buyers) * RETRY_LIMIT
MaxLog == 2 * MaxUploads + 2 * MaxMerchs * Cardinality(Buyers)

\* An access key encrypted for the holder of a public key.
encrypt(uuid, pubkey) == [uuid |-> uuid, pubkey |-> pubkey]
Uris == [uuid: Nat, pubkey: ValidKeys]

ASSUME MediatorAssumption ==
  /\ Owners \cap Buyers = {} /\ IsFiniteSet(Buyers)
  /\ NoAccount \notin Accounts /\ Denied \subseteq Accounts
  /\ Price \in Nat \ {0} /\ RETRY_LIMIT \in Nat \ {0}
  /\ Movies \subseteq Files
  /\ FileOwner \in [Files -> Owners]
  /\ Files \cap {NoFile, Corrupt} = {} /\ Corrupt # NoFile /\ NoFile \notin Names
  /\ {MaxMerchs, MaxCrashes, MaxTampers, MaxFailures} \subseteq Nat

VARIABLES
  pubKeys, listed, owner, dataHash, merchandiseState, trialCount,
  progressBuyer, confirmedBuyers, balance, log, paid, settled, taken,
  uploads, db,
  proc,            \* each mediator: "down", "started", "running" with its event
                   \* filter, or "deaf": its event loop has panicked, the rest goes on
  starts,          \* how often it started; its key pair is the last generated
  todo,            \* files its watcher has yet to process
  watcher,         \* where its watcher is: [pc, file, merch]
  deployed_files,  \* its map from contract to file
  downloads,       \* its download directory (survives it)
  tasks,           \* the tasks its event loop has spawned
  arrived,         \* event files written to a raw data directory so far
  faults,          \* how many faults of each kind have happened
  abandoned,       \* history: contracts whose next event nobody will handle
  unpaid,          \* history: contracts whose last withdrawal was lost
  verdicts         \* history: "Verification result" lines buyers printed

Chain == INSTANCE Merchandise WITH Keys <- ValidKeys, Payments <- {Price}
Storage == INSTANCE SimpleStorage

chainVars == <<pubKeys, listed, owner, dataHash, merchandiseState, trialCount,
               progressBuyer, confirmedBuyers, balance, log, paid, settled, taken>>
storageVars == <<uploads, db>>
processVars == <<proc, starts>>
watcherVars == <<todo, watcher, deployed_files, arrived>>
historyVars == <<abandoned, unpaid, verdicts>>
vars == <<chainVars, storageVars, processVars, watcherVars, downloads, tasks,
          faults, historyVars>>

Idle == [pc |-> "idle", file |-> NoFile, merch |-> 0]
FilesOf(a) == {f \in Files : FileOwner[f] = a}
key_pair(a) == RSAKey(a, starts[a])

Init ==
  /\ Chain!Init
  /\ Storage!Init
  /\ proc = [a \in Accounts |-> "down"]
  /\ starts = [a \in Accounts |-> 0]
  /\ todo = [a \in Accounts |-> {}]
  /\ watcher = [a \in Accounts |-> Idle]
  /\ deployed_files = [a \in Accounts |-> [m \in Merchs |-> NoFile]]
  /\ downloads = [a \in Accounts |-> [n \in Names |-> NoFile]]
  /\ tasks = {}
  /\ arrived = {}
  /\ faults = [crash |-> 0, tamper |-> 0, failure |-> 0]
  /\ abandoned = {}
  /\ unpaid = {}
  /\ verdicts = {}

-----------------------------------------------------------------------------
(***************************************************************************)
(* The event loop.                                                         *)
(***************************************************************************)

\* The mediator that has work to do on a log (others print, or ignore it).
Addressee(e) == IF e.event = "Upload" THEN e.buyer ELSE owner[e.address]

\* Mutant of FirstStep: the result of a Verify log is not looked at.
FirstStepAnyResult(e) == IF e.event = "Upload" THEN "fetch" ELSE "post"

FirstStep(e) ==
  CASE e.event = "Purchase" -> "post"
    [] e.event = "Verify" /\ ~e.result -> "post"
    [] e.event = "Verify" /\ e.result -> "withdraw"
    [] e.event = "Upload" -> "fetch"

Task(i, e) == [who |-> Addressee(e), entry |-> i, pc |-> FirstStep(e), uuid |-> 0,
               pubkey |-> NoKey, name |-> NoFile, file |-> NoFile, ok |-> FALSE]

\* Does the sale depend on this log being handled?
NeedsHandling(e) == e.event # "Verify" \/ ~e.result

\* Mutant of Dispatch: nobody subscribes to Verify logs.
DispatchNoVerify(staying) ==
  LET i == Len(log')
      e == log'[i]
  IN /\ tasks' = IF log' # log /\ e.event # "Verify" /\ proc[Addressee(e)] = "running"
                 THEN staying \cup {Task(i, e)} ELSE staying
     /\ abandoned' = IF log' # log /\ NeedsHandling(e) /\ proc[Addressee(e)] # "running"
                     THEN abandoned \cup {e.address} ELSE abandoned
     /\ UNCHANGED unpaid

(***************************************************************************)
(* Given the tasks that stay, spawn the task of a log this step emits, or  *)
(* record that nobody is there to handle it.                               *)
(***************************************************************************)
Dispatch(staying) ==
  LET i == Len(log')
      e == log'[i]
      lost == IF proc[Addressee(e)] = "running" THEN {} ELSE {e.address}
  IN IF log' = log
     THEN tasks' = staying /\ UNCHANGED <<abandoned, unpaid>>
     ELSE /\ tasks' = IF lost = {} THEN staying \cup {Task(i, e)} ELSE staying
          /\ abandoned' = IF NeedsHandling(e) THEN abandoned \cup lost ELSE abandoned
          /\ unpaid' = IF NeedsHandling(e) THEN unpaid ELSE unpaid \cup lost

Entry(t) == log[t.entry]
Merch(t) == log[t.entry].address

\* Task t panics, or gives up after an error; so does the sale it worked for.
GiveUp(t) ==
  /\ tasks' = tasks \ {t}
  /\ abandoned' = abandoned \cup {Merch(t)}
  /\ UNCHANGED unpaid

Continue(t, u) == tasks' = (tasks \ {t}) \cup {u}

-----------------------------------------------------------------------------
(***************************************************************************)
(* Owner tasks: on Purchase and on Verify(false) post the file, encrypt    *)
(* the key it got, announce it; on Verify(true) withdraw.                  *)
(***************************************************************************)

\* Mutant of post_file: a retry announces a new key to what is stored already.
postFileOnce(t) ==
  LET f == deployed_files[t.who][Merch(t)]
      first == Entry(t).event = "Purchase"
  IN /\ t.pc = "post" /\ f # NoFile
     /\ uploads' = IF first THEN [uploads EXCEPT ![BaseName[f]] = f] ELSE uploads
     /\ db' = Append(db, BaseName[f])
     /\ Continue(t, [t EXCEPT !.uuid = Storage!NextKey,
                              !.pc = IF first THEN "emit" ELSE "get_pubkey",
                              !.pubkey = IF first THEN Entry(t).pubkey ELSE NoKey])
     /\ UNCHANGED <<chainVars, processVars, watcherVars, downloads, faults, historyVars>>

post_file(t) ==
  LET a == t.who
      f == deployed_files[a][Merch(t)]
      next == IF Entry(t).event = "Purchase"
              THEN [t EXCEPT !.pc = "emit", !.uuid = Storage!NextKey,
                             !.pubkey = Entry(t).pubkey]
              ELSE [t EXCEPT !.pc = "get_pubkey", !.uuid = Storage!NextKey]
  IN /\ t.pc = "post"
     /\ \/ /\ f # NoFile
           /\ Storage!upload(BaseName[f], f)
           /\ Continue(t, next)
           /\ UNCHANGED <<abandoned, unpaid>>
        \/ /\ f = NoFile          \* deployed_files.get(..).unwrap() panics
           /\ GiveUp(t)
           /\ UNCHANGED storageVars
     /\ UNCHANGED <<chainVars, processVars, watcherVars, downloads, faults, verdicts>>

\* The retry asks PubKey for the buyer's current key.
get_pubkey(t) ==
  /\ t.pc = "get_pubkey"
  /\ Continue(t, [t EXCEPT !.pc = "emit", !.pubkey = Chain!getPubKey(Entry(t).buyer)])
  /\ UNCHANGED <<chainVars, storageVars, processVars, watcherVars, downloads,
                 faults, historyVars>>

\* A revert would panic the task; CallsNeverRevert says there is none.
emit_upload(t) ==
  /\ t.pc = "emit"
  /\ Chain!emitUpload(Merch(t), t.who, encrypt(t.uuid, t.pubkey))
  /\ Dispatch(tasks \ {t})
  /\ UNCHANGED <<storageVars, processVars, watcherVars, downloads, faults, verdicts>>

\* Mutant of withdraw: the owner withdraws only while the goods are for sale.
withdrawInSale(t) ==
  /\ t.pc = "withdraw"
  /\ IF merchandiseState[Merch(t)] = "SALE"
     THEN Chain!withdraw(Merch(t), t.who) ELSE UNCHANGED chainVars
  /\ tasks' = tasks \ {t}
  /\ UNCHANGED <<storageVars, processVars, watcherVars, downloads, faults, historyVars>>

\* A revert (the goods were banned meanwhile) is printed; the whole balance is
\* withdrawn, so that an earlier loss is made up for.
withdraw(t) ==
  /\ t.pc = "withdraw"
  /\ \/ Chain!withdraw(Merch(t), t.who) /\ unpaid' = unpaid \ {Merch(t)}
     \/ ~Chain!CanWithdraw(Merch(t), t.who) /\ UNCHANGED <<chainVars, unpaid>>
  /\ tasks' = tasks \ {t}
  /\ UNCHANGED <<storageVars, processVars, watcherVars, downloads, faults,
                 abandoned, verdicts>>

-----------------------------------------------------------------------------
(***************************************************************************)
(* Buyer task, on Upload: decrypt and download, save, hash what was saved, *)
(* call verify(), then read the contract's state for the result.           *)
(***************************************************************************)
CanDecrypt(t) == Entry(t).uri.pubkey = key_pair(t.who)

download_file(t) ==
  LET uuid == Entry(t).uri.uuid IN
  /\ t.pc = "fetch"
  /\ \/ /\ CanDecrypt(t) /\ Storage!Found(uuid)
        /\ Continue(t, [t EXCEPT !.pc = "save", !.name = Storage!FileName(uuid),
                                 !.file = Storage!FileBody(uuid)])
        /\ UNCHANGED <<abandoned, unpaid>>
     \/ /\ ~(CanDecrypt(t) /\ Storage!Found(uuid))
        /\ GiveUp(t)
  /\ UNCHANGED <<chainVars, storageVars, processVars, watcherVars, downloads,
                 faults, verdicts>>

\* Mutant of save: the whole directory is replaced by the file.
saveOverDirectory(t) ==
  /\ t.pc = "save"
  /\ downloads' = [downloads EXCEPT ![t.who] = t.file]
  /\ Continue(t, [t EXCEPT !.pc = "read"])
  /\ UNCHANGED <<chainVars, storageVars, processVars, watcherVars, faults, historyVars>>

\* Mutant of save: what was received is verified, and never written.
saveNothing(t) ==
  /\ t.pc = "save"
  /\ Continue(t, [t EXCEPT !.pc = "verify"])
  /\ UNCHANGED <<chainVars, storageVars, processVars, watcherVars, downloads,
                 faults, historyVars>>

save(t) ==
  /\ t.pc = "save"
  /\ downloads' = [downloads EXCEPT ![t.who][t.name] = t.file]
  /\ Continue(t, [t EXCEPT !.pc = "read", !.file = NoFile])
  /\ UNCHANGED <<chainVars, storageVars, processVars, watcherVars, faults, historyVars>>

read(t) ==
  /\ t.pc = "read"
  /\ Continue(t, [t EXCEPT !.pc = "verify", !.file = downloads[t.who][t.name]])
  /\ UNCHANGED <<chainVars, storageVars, processVars, watcherVars, downloads,
                 faults, historyVars>>

\* Mutant of verify_product: after a mismatch the buyer downloads once more.
verifyAndRetry(t) ==
  LET match == to_hash(t.file) = dataHash[Merch(t)] IN
  /\ t.pc = "verify"
  /\ Chain!verify(Merch(t), t.who, to_hash(t.file))
  /\ Dispatch((tasks \ {t}) \cup
       {[t EXCEPT !.pc = IF match THEN "query" ELSE "fetch", !.ok = match]})
  /\ UNCHANGED <<storageVars, processVars, watcherVars, downloads, faults, verdicts>>

\* The outcome of the transaction is thrown away (ok is not known to the code).
verify_product(t) ==
  /\ t.pc = "verify"
  /\ Chain!verify(Merch(t), t.who, to_hash(t.file))
  /\ Dispatch((tasks \ {t}) \cup
       {[t EXCEPT !.pc = "query", !.ok = (to_hash(t.file) = dataHash[Merch(t)])]})
  /\ UNCHANGED <<storageVars, processVars, watcherVars, downloads, faults, verdicts>>

\* "Determine success or failure by checking the state."
verification_result(t) ==
  /\ t.pc = "query"
  /\ verdicts' = verdicts \cup {[merch |-> Merch(t), buyer |-> t.who, ok |-> t.ok,
                                 result |-> merchandiseState[Merch(t)] = "SALE"]}
  /\ tasks' = tasks \ {t}
  /\ UNCHANGED <<chainVars, storageVars, processVars, watcherVars, downloads,
                 faults, abandoned, unpaid>>

TaskStep(t) ==
  \/ post_file(t) \/ get_pubkey(t) \/ emit_upload(t) \/ withdraw(t)
  \/ download_file(t) \/ save(t) \/ read(t)
  \/ verify_product(t) \/ verification_result(t)

-----------------------------------------------------------------------------
(***************************************************************************)
(* The watcher: for each file, deploy a contract with the file's hash,     *)
(* register it, and only then note which file it sells.                    *)
(***************************************************************************)
watching(a) == proc[a] # "down" /\ watcher[a].pc = "idle"

\* The address of the next contract.
NextMerch == Cardinality(Chain!deployed) + 1

deploy_product(a, f) ==
  /\ watching(a) /\ f \in todo[a]
  /\ NextMerch \in Merchs
  /\ Chain!constructor(NextMerch, a, to_hash(f))
  /\ todo' = [todo EXCEPT ![a] = @ \ {f}]
  /\ watcher' = [watcher EXCEPT ![a] = [pc |-> "register", file |-> f, merch |-> NextMerch]]
  /\ UNCHANGED <<storageVars, processVars, deployed_files, arrived, downloads,
                 tasks, faults, historyVars>>

register_product(a) ==
  /\ watcher[a].pc = "register"
  /\ Chain!registerMerchandise(watcher[a].merch)
  /\ watcher' = [watcher EXCEPT ![a].pc = "insert"]
  /\ UNCHANGED <<storageVars, processVars, todo, deployed_files, arrived,
                 downloads, tasks, faults, historyVars>>

insert(a) ==
  /\ watcher[a].pc = "insert"
  /\ deployed_files' = [deployed_files EXCEPT ![a][watcher[a].merch] = watcher[a].file]
  /\ watcher' = [watcher EXCEPT ![a] = Idle]
  /\ UNCHANGED <<chainVars, storageVars, processVars, todo, arrived, downloads,
                 tasks, faults, historyVars>>

WatcherStep(a) ==
  \/ \E f \in todo[a] : deploy_product(a, f)
  \/ register_product(a)
  \/ insert(a)

(***************************************************************************)
(* A new file in the raw data directory reaches the watcher once the       *)
(* startup scan is through; only movies are found again by a later scan.   *)
(***************************************************************************)
FileArrives(a, f) ==
  /\ f \in FilesOf(a) \ (Movies \cup arrived)
  /\ watching(a) /\ todo[a] \cap Movies = {}
  /\ arrived' = arrived \cup {f}
  /\ todo' = [todo EXCEPT ![a] = @ \cup {f}]
  /\ UNCHANGED <<chainVars, storageVars, processVars, watcher, deployed_files,
                 downloads, tasks, faults, historyVars>>

-----------------------------------------------------------------------------
(***************************************************************************)
(* Start and stop.  Every start generates a key pair and registers it; the *)
(* watcher is spawned before the event filter exists.                      *)
(***************************************************************************)

\* Mutant of start: only buyers register their key.
startBuyerKeysOnly(a) ==
  /\ proc[a] = "down"
  /\ starts[a] <= MaxCrashes
  /\ IF a \in Buyers THEN Chain!registerKey(a, RSAKey(a, starts[a] + 1))
                     ELSE UNCHANGED chainVars
  /\ starts' = [starts EXCEPT ![a] = @ + 1]
  /\ proc' = [proc EXCEPT ![a] = "started"]
  /\ todo' = [todo EXCEPT ![a] = FilesOf(a) \cap Movies]
  /\ UNCHANGED <<storageVars, watcher, deployed_files, arrived, downloads, tasks,
                 faults, historyVars>>

start(a) ==
  /\ proc[a] = "down"
  /\ starts[a] <= MaxCrashes
  /\ Chain!registerKey(a, RSAKey(a, starts[a] + 1))
  /\ starts' = [starts EXCEPT ![a] = @ + 1]
  /\ proc' = [proc EXCEPT ![a] = "started"]
  /\ todo' = [todo EXCEPT ![a] = FilesOf(a) \cap Movies]
  /\ UNCHANGED <<storageVars, watcher, deployed_files, arrived, downloads, tasks,
                 faults, historyVars>>

\* Mutant of create_event_filter: the filter starts at the first block.
replayEvents(a) ==
  /\ proc[a] = "started"
  /\ proc' = [proc EXCEPT ![a] = "running"]
  /\ tasks' = tasks \cup {Task(i, log[i]) : i \in {j \in DOMAIN log : Addressee(log[j]) = a}}
  /\ UNCHANGED <<chainVars, storageVars, starts, watcherVars, downloads,
                 faults, historyVars>>

create_event_filter(a) ==
  /\ proc[a] = "started"
  /\ proc' = [proc EXCEPT ![a] = "running"]
  /\ UNCHANGED <<chainVars, storageVars, starts, watcherVars, downloads, tasks,
                 faults, historyVars>>

\* Does the sale depend on task t?
Working(t) == t.pc \notin {"withdraw", "query"}

\* Tasks that end with the process, or were never spawned: what depended on them is lost.
Lose(gone) ==
  /\ tasks' = tasks \ gone
  /\ abandoned' = abandoned \cup {Merch(t) : t \in {u \in gone : Working(u)}}
  /\ unpaid' = unpaid \cup {Merch(t) : t \in {u \in gone : u.pc = "withdraw"}}

crash(a) ==
  /\ proc[a] # "down" /\ faults.crash < MaxCrashes
  /\ faults' = [faults EXCEPT !.crash = @ + 1]
  /\ proc' = [proc EXCEPT ![a] = "down"]
  /\ todo' = [todo EXCEPT ![a] = {}]
  /\ watcher' = [watcher EXCEPT ![a] = Idle]
  /\ deployed_files' = [deployed_files EXCEPT ![a] = [m \in Merchs |-> NoFile]]
  /\ Lose({t \in tasks : t.who = a})
  /\ UNCHANGED <<chainVars, storageVars, starts, arrived, downloads, verdicts>>

-----------------------------------------------------------------------------
(***************************************************************************)
(* The buyer's wallet, which shows registered goods, and what may go wrong *)
(* around the mediators.                                                   *)
(***************************************************************************)
purchase(m, b) ==
  /\ m \in listed
  /\ Chain!purchase(m, b, Price)
  /\ Dispatch(tasks)
  /\ UNCHANGED <<storageVars, processVars, watcherVars, downloads, faults, verdicts>>

\* A deployment fails: the file is skipped.
deploy_fails(a, f) ==
  /\ watching(a) /\ f \in todo[a]
  /\ todo' = [todo EXCEPT ![a] = @ \ {f}]
  /\ UNCHANGED <<proc, watcher, tasks, historyVars>>

\* A registration fails: the scan unwraps it and the watcher is gone; the
\* watch loop goes on with the next file.
register_fails(a) ==
  /\ watcher[a].pc = "register"
  /\ watcher' = [watcher EXCEPT ![a] =
       IF watcher[a].file \in Movies THEN [Idle EXCEPT !.pc = "dead"] ELSE Idle]
  /\ UNCHANGED <<proc, todo, tasks, historyVars>>

(***************************************************************************)
(* A request to storage, node or disk fails before it had an effect.  Most *)
(* are unwrapped or give up; the error of verify() is not looked at and the *)
(* task goes on to read the state; the last two are printed.  (A request   *)
(* whose answer alone is lost ends as if it had been answered.)            *)
(***************************************************************************)
request_fails(t) ==
  /\ \/ t.pc \in {"post", "get_pubkey", "emit", "fetch", "save", "read"} /\ GiveUp(t)
     \/ /\ t.pc = "verify"
        /\ Continue(t, [t EXCEPT !.pc = "query"])
        /\ abandoned' = abandoned \cup {Merch(t)}
        /\ UNCHANGED unpaid
     \/ t.pc \in {"withdraw", "query"} /\ Lose({t})
  /\ UNCHANGED <<proc, todo, watcher, verdicts>>

(***************************************************************************)
(* A poll of the filter, or its creation, fails: the thread of the event   *)
(* loop panics.  Its tasks and the watcher go on; logs later than the i-th *)
(* had not been fetched yet.                                               *)
(***************************************************************************)
poll_fails(a, i) ==
  LET unseen == {t \in tasks : t.who = a /\ t.entry > i} IN
  /\ proc[a] \in {"started", "running"}
  /\ \A t \in unseen : t = Task(t.entry, Entry(t))
  /\ proc' = [proc EXCEPT ![a] = "deaf"]
  /\ Lose(unseen)
  /\ UNCHANGED <<todo, watcher, verdicts>>

Failure ==
  /\ faults.failure < MaxFailures
  /\ faults' = [faults EXCEPT !.failure = @ + 1]
  /\ \/ \E a \in Owners : \E f \in todo[a] : deploy_fails(a, f)
     \/ \E a \in Owners : register_fails(a)
     \/ \E t \in tasks : request_fails(t)
     \/ \E a \in Accounts : \E i \in 0..Len(log) : poll_fails(a, i)
  /\ UNCHANGED <<chainVars, storageVars, starts, deployed_files, arrived, downloads>>

StorageRestart ==
  /\ faults.failure < MaxFailures
  /\ faults' = [faults EXCEPT !.failure = @ + 1]
  /\ Storage!Restart
  /\ UNCHANGED <<chainVars, processVars, watcherVars, downloads, tasks, historyVars>>

Tampering ==
  /\ faults.tamper < MaxTampers
  /\ faults' = [faults EXCEPT !.tamper = @ + 1]
  /\ \E n \in Names : uploads[n] # Corrupt /\ Storage!Tamper(n, Corrupt)
  /\ UNCHANGED <<chainVars, processVars, watcherVars, downloads, tasks, historyVars>>

-----------------------------------------------------------------------------
Next ==
  \/ \E t \in tasks : TaskStep(t)
  \/ \E a \in Owners : WatcherStep(a)
  \/ \E a \in Owners, f \in Files : FileArrives(a, f)
  \/ \E a \in Accounts : start(a) \/ create_event_filter(a) \/ crash(a)
  \/ \E m \in Merchs, b \in Buyers : purchase(m, b)
  \/ Failure \/ StorageRestart \/ Tampering

Spec == Init /\ [][Next]_vars

(***************************************************************************)
(* The runtime schedules every task, watcher and start-up that can go on.  *)
(* Wallets, file arrivals and faults are not owed.                         *)
(***************************************************************************)
Fairness ==
  /\ WF_vars(\E t \in tasks : TaskStep(t))
  /\ \A a \in Owners : WF_vars(WatcherStep(a))
  /\ \A a \in Accounts : WF_vars(create_event_filter(a))

FairSpec == Spec /\ Fairness
-----------------------------------------------------------------------------
(***************************************************************************)
(* Properties.                                                             *)
(***************************************************************************)
TaskType ==
  [who: Accounts, entry: DOMAIN log,
   pc: {"post", "get_pubkey", "emit", "withdraw", "fetch", "save", "read",
        "verify", "query"},
   uuid: Nat, pubkey: ValidKeys \cup {NoKey}, name: Names \cup {NoFile},
   file: Contents \cup {NoFile}, ok: BOOLEAN]

\* Every variable has its type.
TypeOK ==
  /\ Chain!TypeOK
  /\ uploads \in [Names -> Contents \cup {NoFile}]
  /\ db \in Seq(Names \cup {NoFile})
  /\ proc \in [Accounts -> {"down", "started", "running", "deaf"}]
  /\ starts \in [Accounts -> 0..(MaxCrashes + 1)]
  /\ todo \in [Accounts -> SUBSET Files]
  /\ watcher \in [Accounts -> [pc: {"idle", "register", "insert", "dead"},
                               file: Files \cup {NoFile}, merch: Merchs \cup {0}]]
  /\ deployed_files \in [Accounts -> [Merchs -> Files \cup {NoFile}]]
  /\ downloads \in [Accounts -> [Names -> Contents \cup {NoFile}]]
  /\ tasks \subseteq TaskType
  /\ arrived \subseteq Files
  /\ faults \in [crash: 0..MaxCrashes, tamper: 0..MaxTampers, failure: 0..MaxFailures]
  /\ {abandoned, unpaid} \subseteq SUBSET Merchs
  /\ verdicts \subseteq [merch: Merchs, buyer: Buyers, ok: BOOLEAN, result: BOOLEAN]

WorkersOn(m) == {t \in tasks : Working(t) /\ Merch(t) = m}

(***************************************************************************)
(* A purchase in progress is worked on by exactly one task, for its buyer, *)
(* unless the sale has been abandoned, and then it stays in progress for   *)
(* ever: nothing in the contract or the mediators ends it.                 *)
(***************************************************************************)
OneWorkerPerSale == \A m \in Merchs :
  LET open == merchandiseState[m] = "IN_PROGRESS" IN
  /\ Cardinality(WorkersOn(m)) = IF open /\ m \notin abandoned THEN 1 ELSE 0
  /\ m \in abandoned => open
  /\ \A t \in WorkersOn(m) : Entry(t).buyer = progressBuyer[m]

(***************************************************************************)
(* The transactions whose failure a task does not survive, or ignores,     *)
(* never revert, whatever happened between the log and the call.           *)
(***************************************************************************)
CallsNeverRevert == \A t \in tasks :
  /\ t.pc = "emit" => Chain!CanEmitUpload(Merch(t), t.who)
  /\ t.pc = "verify" => Chain!CanVerify(Merch(t), t.who)
  /\ t.pc = "get_pubkey" => Chain!CanGetPubKey(t.who) /\ pubKeys[Entry(t).buyer] # NoKey

(***************************************************************************)
(* Posting the file again repairs what was altered, so goods are banned    *)
(* only after RETRY_LIMIT alterations.  (Files have names of their own.)   *)
(***************************************************************************)
BanNeedsTampering ==
  (\E m \in Merchs : merchandiseState[m] = "BANNED") => faults.tamper >= RETRY_LIMIT

(***************************************************************************)
(* A served buyer has the very file the contract was deployed for in its   *)
(* download directory.  (Each file sold once, names of their own.)         *)
(***************************************************************************)
ServedBuyersHaveData == \A m \in Merchs : \A b \in confirmedBuyers[m] :
  \E f \in Files : to_hash(f) = dataHash[m] /\ downloads[b][BaseName[f]] = f

(***************************************************************************)
(* "Determine success or failure by checking the state", eth_client.rs:190 *)
(* the verification result printed is the outcome of the buyer's verify(). *)
(***************************************************************************)
VerificationResultTrue == \A v \in verdicts : v.result <=> v.ok

(***************************************************************************)
(* "withdraws the settled currency", Merchandise.sol:159, of the contracts *)
(* as the mediators use them.                                              *)
(***************************************************************************)
WithdrawsOnlySettled == Chain!WithdrawsOnlySettled

(***************************************************************************)
(* Every purchase ends: it is verified, or the goods are banned, or it has *)
(* been abandoned.                                                         *)
(***************************************************************************)
PurchasesEnd == \A m \in Merchs :
  merchandiseState[m] = "IN_PROGRESS" ~>
    merchandiseState[m] # "IN_PROGRESS" \/ m \in abandoned

(***************************************************************************)
(* What served buyers paid reaches the owner, unless the goods get banned, *)
(* or the last withdrawal was lost: its request failed, the owner's event   *)
(* loop had panicked, or the process ended.  Nothing repeats it but the    *)
(* next verified sale.                                                     *)
(***************************************************************************)
OwnerIsPaid == \A m \in Merchs :
  settled[m] > taken[m] ~>
    taken[m] >= settled[m] \/ merchandiseState[m] = "BANNED" \/ m \in unpaid

(***************************************************************************)
(* A withdrawal that was lost is made up for: while goods for sale owe     *)
(* their owner money, a withdrawal is under way, or the last one was lost. *)
(***************************************************************************)
MoneyOnItsWay == \A m \in Merchs :
  settled[m] > taken[m] /\ m \notin unpaid /\ merchandiseState[m] # "BANNED" =>
    \E t \in tasks : t.pc = "withdraw" /\ Merch(t) = m
=============================================================================
