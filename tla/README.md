# A formal model of the offline UPI mesh server

The program (`src/cpp`) is a demonstration server for payments made without
internet: a phone encrypts a payment instruction, strangers' phones carry the
packet from device to device, and a *bridge* phone that finds a connection
uploads it.  The server drops duplicates, decrypts, checks the age of the
instruction and moves the money in an SQLite database.  One process holds all
of it, the mesh included (which is simulated); 16 HTTP threads run the request
handlers concurrently.

This directory holds TLA+ modules translated from that source, TLC instances of
them, and machine-checked proofs, for every value of the constants, of all the
safety properties that the passing instances check; of those that the code does
not have, the proofs say under which conditions it does.

## 1. Inventory

| Part | State it keeps | Operations | Talks to |
|---|---|---|---|
| `SettlementService` | none of its own; locals of a call | `settle`, `recordRejected` | repositories, `Database` |
| `Database`, `AccountRepository`, `TransactionRepository` | one shared in-memory connection, a recursive mutex; tables `accounts`, `transactions` | `execute` (BEGIN, COMMIT, ROLLBACK), `reset`, `findById`, `save`, `findAll`, `findTop20ByOrderByIdDesc` | SQLite |
| `IdempotencyService` | `seen_`: hash to time stamp; an evictor thread; a stop flag | `claim`, `clear`, `size`, `evictExpired`, destructor | the wall clock |
| `BridgeIngestionService` | locals of a call | `ingest`: gate, decrypt, freshness, settle | idempotency, crypto, settlement |
| `MeshSimulatorService` | per device a locked map from packet id to packet | `inject`, `gossipOnce`, `collectBridgeUploads`, `resetMesh` | – |
| `ApiController` | none | `bridgeIngest`, `demoSend`, `meshGossip`, `meshFlush`, `meshReset`, and handlers that only read | everything |
| `HybridCryptoService`, `ServerKeyHolder` | one RSA key | encrypt, decrypt, hash | OpenSSL |
| `PaymentInstruction` (JSON boundary) | – | paise to rupees (double) and back | nlohmann/json |
| Dashboard (`static/index.html`) | page state, timers | buttons, polling | the HTTP API |

What is hard to test in it:

* **Interleavings on one connection.**  All threads share one SQLite connection,
  on which a statement sees the uncommitted writes of whoever has a transaction
  open.  Only the mutex separates them, and `settle()` takes it *after* it has
  read the accounts.
* **Failure and retry.**  A statement may fail anywhere, and may take the whole
  transaction with it.  `settle()` rolls back and tries again up to three times,
  with fresh reads and the mutex released in between; `AccountRepository::save`
  ignores its errors; ROLLBACK itself may throw out of the catch block; `reset()`
  is three autocommitted statements.
* **Time.**  A claim is stamped before the cache's lock is taken, kept for a day
  in milliseconds and evicted by another thread; the age of a packet is
  truncated to seconds and may be negative.
* **A thread beside the requests.**  The evictor waits on a condition variable
  whose flag the destructor sets without the mutex.
* **Error paths.**  Encryption, decryption and key generation are some forty
  calls of OpenSSL, most of which can fail, with contexts to give back by hand,
  and with allocations of C++ between them that throw past the calls that would.
* **Multi-step operations without a common lock.**  A gossip round visits the
  devices one by one, a reset clears them one by one, and then the cache, and
  then the database; a flush uploads copies it collected at its beginning.

What makes each part correct: the tables are a double-entry ledger, nobody is
overdrawn, a packet is settled at most once and a reader never sees half a
transfer (settlement); of many uploads of a packet one is worked on, and none is
dropped unless it is a duplicate (ingestion); a hop costs ttl and a round
reaches everybody (mesh); a flush decides all it collected (API); what was sealed
arrives whole or not at all, to the paisa (crypto, amounts); every request is
answered (all).  The `hazards` of
`PROJECT.json` list the places in the code where each of these could go wrong.

## 2. Modules

| Module | Role |
|---|---|
| `Settlement` | detailed: `settle()` on any number of threads, statement by statement, with the database, readers and resets |
| `SettleContract` | abstract: what `settle()` promises its callers |
| `Ledger` | abstract: the double-entry books the tables should be, and their total |
| `Idempotency` | the claim cache, as operators on its one variable |
| `Ingestion` | `ingest()`, the evictor, the clock and `meshReset`; composes `Idempotency` with `SettleContract` in the place of `settle()` |
| `Mesh` | devices, `demoSend`/`inject`, gossip rounds, `resetMesh` |
| `UpiMesh` | the API: `Mesh` and `Ingestion` joined by `meshFlush`, `bridgeIngest` and `meshReset` |
| `Evictor` | the evictor thread of `IdempotencyService`, its condition variable and its end |
| `Amounts` | paise and rupees through floating point, as operators |
| `HybridCrypto` | `HybridCryptoService` and `ServerKeyHolder`: OpenSSL calls, their failures, the packet's bytes |
| `SettlementProofs`, `LedgerProofs`, `EvictorProofs`, `IngestionProofs`, `MeshProofs`, `UpiMeshProofs`, `HybridCryptoProofs` | theorems about the modules they are named for (`LedgerProofs`: about `Settlement` and `Ledger`), checked by TLAPS |
| `IdempotencyProofs` | lemmas about the cache, for `EvictorProofs` and `IngestionProofs` |
| `MCSettlement`, `MCIngestion`, `MCMesh`, `MCUpiMesh`, `MCHybridCrypto` | instances for TLC (`Evictor` needs none) |

Operators whose name extends that of another (`RollbackUncounted`, `OffersAll`)
and that a comment calls a mutant are faulty variants of it.  No specification
uses them.  Substituted for the original they make TLC report the property they
are listed with in `PROJECT.json`, which shows that the property depends on the
code.

### Settlement

The grain is the mutex.  Every repository call holds `connectionMutex_`, so a
call outside a transaction is one step that needs the mutex free; between BEGIN
and COMMIT or ROLLBACK the thread owns it and each statement is a step of its
own.  `pc[t]` is the place in `settle()`:

    idle -CallSettle-> findSender -FindSender-> findReceiver -FindReceiver-+-> reject -RecordRejected-> idle
                            ^                                              +-> begin -Begin-> saveSender
                            |                                                                  | SaveSender
                            +------- Rollback (attempt < 3) --- rollback                  saveReceiver
                                                                ^     ^                        | SaveReceiver
                                                                |     +-- SaveTransaction -- saveTx
                                                                +--------- Commit ---------- commit --> idle

`db` is what a statement on the connection sees, `committed` what a ROLLBACK
returns to; without an open transaction they are equal, which is proved and not
built in.  `call[t]` are the locals: the copies of the two accounts with their
versions, and the attempt.  The AUTOINCREMENT counter `lastRowId` survives a
DELETE and is undone by a ROLLBACK.  A row keeps its id, hash and status; the
other columns follow from the hash or are not looked at.  Balances are unbounded
integers (see section 7).

*Failures.*  `Fails` is a statement for which no memory is left.  Either it has
no effect, as when it cannot be prepared, or it fails in `sqlite3_step` and SQLite
rolls back the whole transaction it is part of and returns to autocommit
(`DropTransaction`); `open` says which mode the connection is in, and `Write`
commits by itself when it is in autocommit.  What the code does next differs from
place to place and is modelled as it is: `findById` answers "no such account" and
`settle()` throws; the account `save` goes on as if nothing had happened, and what
follows a dropped transaction commits statement by statement; the transaction
`save` and COMMIT, which is an error without a transaction, throw into the catch
block; BEGIN, which is an error within one, throws past it; `findAll` and
`findTop20ByOrderByIdDesc` answer the rows read so far; `reset()` stops half-way.
ROLLBACK is a statement like the others: when it fails, or finds no transaction,
its exception leaves the catch block, the mutex is released, nothing is retried,
and a transaction that is still open has no owner any more (`Stranded`).  All
that others do then becomes part of it.

### SettleContract and Ledger

`SettleContract` is what callers see: a call takes effect in the step that
answers it, and either adds the one row of its packet or adds nothing and
throws.  Once a statement has failed (`failed`) it is weaker, by exactly what the
code then does: a call whose transaction was dropped adds its row by itself and
throws later (`Stray`), and a REJECTED recorded in a stranded transaction has an
answer but no committed row (`Phantom`).  A SETTLED always has its row, a hash
and an id never two.  It says nothing of balances, because concurrent settlements do not
keep the balances right (section 4).  `Ledger` is the stronger statement that
includes them.  `Total` adds up the balances along some listing of the accounts,
with a recursive function.

### Ingestion

`stage[t]` is the place in `ingest()` or `meshReset()`.  `Ingest` reads the
clock that `claim()` stores, `Gate` takes the cache's lock, `Validate` decrypts
and checks the age at one reading of the clock, `Settle` is one answer of the
contract.  Whether a packet decrypts (`Readable`) and when it was signed
(`SignedAt`) are constants, as they depend on the ciphertext alone.  With
`MayFail` memory may run out in any call: in the hash or in `claim()`, before the
claim is made; in the decryption, whose claim is kept; in `settle()`, as its
contract says; in building the result, when the row is there; and in
`Database::reset`.  The clock never goes back (section 7).  It
ticks whenever it likes and the evictor wakes up whenever it likes, which
includes the real once-a-minute schedule.  `AgeSeconds` truncates towards zero
as C++ does.

### Mesh

`held[d]` maps the ids on a device to their ttls.  A gossip round first reads
every device (`Snapshot`), and then takes its transfers one by one in two locked
steps, `Check` and `Deliver`.  Devices live in hash maps; the model takes the
order of the transfers as arbitrary, which includes the nested loops' order over
any hash function.

### UpiMesh

A request handler is a thread that calls into `Mesh`, then into `Ingestion`, and
the composition says in which order.  Both are instantiated over the same
threads, with variables of their own; `Free(t)` is a thread between two
requests.  `MeshReset` enters both at once: `ServiceStep`, which goes on with the
cache and the database, waits until the mesh part is done (`MeshDone`), as the
three calls of `meshReset` follow each other.  `MeshFlush` collects the copies on
the bridge in one step, because there is one bridge and its lock is held
meanwhile; `Upload` passes them to `ingest()` one by one in any order, as they
come from a hash map.  `demoSend` signs a packet with the time of its request.
Packets that it did not make (`Foreign`) come from phones by `bridgeIngest`, which
takes any ciphertext: they may be dated ahead of the server.  One that `demoSend`
made cannot be uploaded before it is made, since its ciphertext is random.

### Evictor

The labels of `evictor` are the places in `wait_for` with a predicate: test,
block (which releases the mutex and waits in one step), wake up by a
notification, by the timeout or for no reason, take the mutex, test again.
`notify_all` reaches a thread that waits and nobody else.  The destructor runs
after the server's threads, as it belongs to the static `AppContext`.

### Amounts and HybridCrypto

A floating-point number is `m / 2^k` with `Precision` digits (a double has 53, and
`k` up to 1074).  Division by 100, multiplication by 100 and `std::round` are
modelled by their rounding; the powers of two are the function `Pow2`.  `Largest`
is the amount up to which the way to rupees and back is exact.

An operation of OpenSSL is a list of calls; each has the context it needs, what
the code frees when it fails and what it may find wrong with the packet.
`Memory` is a vector or a string that is made while a context is open: if it
throws, nothing is given back, and `leaked` remembers what was open and which call
it was.  An allocation made while no context is open ends the operation as a
failing call does and leaks nothing.  A call whose result the code ignores cannot
fail in the model.  A packet is a sequence
of bytes that know which part they come from; `Slices` cuts it by lengths as
`decrypt` does, and `Encoded` groups bytes by three as base64 does.  Damage
replaces a group or drops the rest.

## 3. Runs

| Run | Checks | Instance and why it is enough |
|---|---|---|
| `concurrent` | `TypeOK`, `NonNegativeBalances`, `OneRowPerPacket`, `Inductive`, `OnlyStrandedReadsDirty`, `OnlyLostDebitsSplitPayments`, `CurrentCopiesBook`, `ImplementsContract` | 2 threads, 3 calls, 2 attempts, 1 failing statement, 1 reset. Packets: two payments an account cannot both afford, one back, one of each kind that is refused; packets repeat, so that the UNIQUE index, the retry and its exhaustion happen, and a ROLLBACK that fails without any failure before it. The list limit is 1, so that rows fall off the list. |
| `live` | `CallReturns`, `CallsGoForward`, `OnlyStaleCopiesLeak` | The same code under fairness, with 2 calls: two transfers, and a payment from an account to itself, which the books of `concurrent` and `serial` leave out. |
| `serial` | `TotalConserved`, `ImplementsLedger` | 1 thread, 4 calls, 3 attempts (the code's number), 1 reset, no failures. |
| `lost_update` | `TotalConserved` **fails** | 2 threads, transfers between two accounts. |
| `aborted` | `MoneyMovesWithItsRow` **fails** | The same, with 1 failing statement. |
| `replay` | `TypeOK`, `NoTwinInFlight`, `SeasonedPacketsSettleOnce` | 2 threads, 3 uploads of one packet signed at the start, 1 reset, any call may run out of memory; a second has 2 units, all limits are 1 second, the clock runs to 5: long enough for a claim to be evicted and the packet to be sent again, fresh and stale. No step relates two packets; packets dated ahead are in `kept_claim` and `flush`. |
| `kept_claim` | `OnlyDuplicatesAreDropped` **fails** | 1 thread, no resets, no failures; packets of all three kinds: current, dated ahead, garbled. |
| `gossip` | `TypeOK`, `TtlIsSpent`, `RoundReachesAll`, `ResetIsFinal`, `RequestsReturn` | 2 threads, 3 devices, 2 rounds, 1 reset, ttls from -1 to 2. One packet is enough: no operation relates two packet ids. Two rounds are what two threads can overlap, and with the reset they bring a copy without ttl next to an empty device. |
| `flush` | `TypeOK`, `FlushDecides`, `HopCountsAreHops`, `OnlyDueAreDropped` | 2 threads, a phone and the bridge, any 4 requests with at most one gossip and one reset among them, the default ttl (other ttls are in `gossip`). 3 packets: one that `demoSend` makes, one that does not decrypt, and one of a phone's own that is dated ahead by more than the tolerance at the start and by less one tick later, so that it is refused, kept and dropped. The limit on the age and the time to live are 0 seconds, so that one tick makes a packet stale and lets the evictor remove its claim. Four requests are what a payment needs to lose its row: sent, reset, uploaded, flushed. Any call may run out of memory. |
| `reset_split` | `ResetLeavesSeedState` **fails** | As `flush`, with one packet and no failures. |
| `shutdown` | `TypeOK`, `OneTimeoutAtMost`, `ClaimsAreKept`, `DestructorReturns` | 2 threads, 2 hashes, and a clock that runs for two times the time to live. |
| `wire` | `TypeOK`, `ContextsFreed`, `AcceptedIffIntact`, `AmountArrives` | Precision 10, every amount from 0 to `Largest`, 400 paise; parts of 4, 1 and 2 bytes and bodies of 1 to 3, so that groups of three fall on the borders of the parts in every way. |

Two threads suffice for the settlement properties because a thread interferes
with another only through the tables and the mutex; the theorems of section 5
remove the bound for the safety properties.  The bounds (`MaxCalls`,
`MaxResets`, `MaxFaults`, `MaxRounds`, `MaxRequests`, `MaxClock`) are guards of the actions
that use them up; nothing else depends on them.  Deadlock is checked in every
run.

What the passing runs show:

* `NonNegativeBalances`: although `settle()` checks a stale copy, nobody is
  overdrawn.  A thread writes what it computed from the copy it checked, so the
  value written is never negative: the stale read costs money, but not this.
* `OneRowPerPacket`: no retry, rollback, refusal, failure or half-finished reset
  leaves a second row.
* `OnlyLostDebitsSplitPayments`: a balance changes with the row of its payment, in
  a reset, or, and nothing else, when a settlement that has lost its transaction
  credits the receiver by itself (finding 4).
* `OnlyStrandedReadsDirty`: over a connection that shows uncommitted data readers
  see only what is committed, as `cpp/README.md` claims, until a ROLLBACK that
  failed strands a transaction (the second point after the findings below).
* `ImplementsContract`: `settle()` is linearizable at its answer; after a failure
  up to `Stray` and `Phantom`, whose call throws though its row is there, or
  answers REJECTED though its row is not.
* `CurrentCopiesBook`: a settlement whose copies are still what the tables hold
  when it commits makes exactly the entry of `Ledger`, whatever other threads do.
  Hence stale copies, a payment to oneself and failing statements are all that
  breaks the books.
* `OnlyStaleCopiesLeak`: the converse for the total.  Where no statement failed
  and no reset struck, money is made or lost only in a COMMIT computed from stale
  copies, or by exactly the amount of a payment to oneself.
* `CallsGoForward`: `settle()` has at most eight steps for each attempt left, and
  no step of another thread gives it more.  `CallReturns` adds that under
  fairness it takes them.
* `ImplementsLedger`: one thread keeps exact books.
* `NoTwinInFlight`: the gate admits one upload of a packet at a time, unless it
  takes a day or the cache is cleared.
* `SeasonedPacketsSettleOnce`: the time to live of a claim and the limit on the
  age fit together, but only for packets claimed a second or more after they
  were signed.  A packet claimed earlier, or dated ahead, is still fresh when
  its claim is evicted; the UNIQUE index is then the only guard.
* `TtlIsSpent`, `RoundReachesAll`: overlapping rounds overwrite each other's
  copies, but never with more ttl than a hop allows, and do not lose a packet.
* `ResetIsFinal`: what was sent before a reset is gone after it, if no gossip
  round overlaps.  A round that does goes on from its snapshot and puts packets
  back.
* `FlushDecides`: a flush that no reset of cache or database overlaps leaves
  nothing on the bridge undecided, in spite of other flushes and uploads of the
  same packets; a packet that was given up for want of memory counts as decided
  (`refused`).  Its one exception is finding 3.
* `OnlyDueAreDropped`: what is dropped as a duplicate was decided or given up, or
  is a case of finding 3 (torn from its row) or of finding 2 (claimed while it was
  dated ahead), and there is no other way to lose a packet.
* `OneTimeoutAtMost`, `DestructorReturns`: the notification of the destructor can
  be lost, and only the 60 seconds' timeout then ends the program; one is enough.
* `ContextsFreed`: whichever call of OpenSSL fails, and on every normal way out,
  each context is freed once and not used after that.  The exits that do leak are
  the allocations of C++ made while a context is open, and only these
  (`HybridCryptoService.cpp:57`, 77, 109, 178, 204, 244, 256 and
  `ServerKeyHolder.cpp:71`).
* `AmountArrives`: no paisa is lost up to a bound that grows with the precision
  and is 400 for ten digits (402 is the first amount to change).  For the 53 of a
  double it is 100 * 2^45 paise, some 35 trillion rupees.

## 4. Where the code and its documents disagree

1. `lost_update`.  Both accounts are read before the mutex is taken, so that two
   overlapping settlements that share an account lose an update, and two
   payments of which the account can afford one both settle.
   `cpp/read_write_test.py:69`, `cpp/README.md:28` and `README.md:154` say
   otherwise.  The guard that `AccountRepository.h:21` names, a version that is
   incremented and compared, is not there.
2. `kept_claim`.  A claim is kept when the packet then turns out invalid.  A
   packet that arrives too early by its clock is refused, and dropped as a
   duplicate when it has become valid.  A packet whose decryption failed for want
   of memory keeps its claim in the same way.
3. `reset_split`.  `meshReset` clears the cache before the database.  A payment
   that is claimed and settled in between loses its row and keeps its claim: it
   is not in the ledger, and every later upload of it is dropped as a duplicate.
   `README.md:115` says "Clear ledger and wipe DB back to seed state".
4. `aborted`.  `AccountRepository::save` ignores the result of `sqlite3_step`.  When
   memory runs out there, SQLite may drop the transaction: the debit is gone, the
   credit and the row commit by themselves, COMMIT and ROLLBACK throw, and so does
   `settle()`, though money has been made and a SETTLED row is there.  `README.md:21`
   and `cpp/README.md:30` promise double-entry consistency.

Finding 4 needs a statement to run out of memory, the others nothing.

Two more have no run that fails.  They are the exceptions that a passing property
names, and the property shows that there is no other.

* A payment to oneself (`OnlyStaleCopiesLeak`, `CreditsHimself`).  With the same
  account on both sides the second `save` (`SettlementService.cpp:58`) overwrites
  the debit, and the account gains the amount, on one thread and without any
  failure.  `README.md:21` promises double-entry consistency.
* A stranded transaction (`OnlyStrandedReadsDirty`, `Stranded`).  A ROLLBACK that
  fails throws out of the catch block: the mutex is released and the transaction
  stays open without an owner.  Readers then see its uncommitted balances, every
  BEGIN fails, and rejections and resets are part of it.
  `SettlementService.cpp:50` and `cpp/README.md:30` promise isolated readers.

## 5. Proofs

| Module | Theorem | States |
|---|---|---|
| `SettlementProofs` | `Invariance` | `Spec => []Inductive` |
| | `TypeCorrect`, `NoOverdraft`, `RowsAreUnique` | the invariants `TypeOK`, `NonNegativeBalances`, `OneRowPerPacket` |
| | `ReadersIsolated`, `MoneyMovesOnce` | the action properties `OnlyStrandedReadsDirty`, `OnlyLostDebitsSplitPayments` |
| | `SettleHonoursContract` | `Spec => Contract!ContractSpec`, the refinement |
| | `CallsEndInBoundedSteps` | the action property `CallsGoForward` |
| `LedgerProofs` | `CurrentCopiesAreBooked`, `MoneyLeaksWhenStale` | the action properties `CurrentCopiesBook`, `OnlyStaleCopiesLeak` |
| | `SeparateCallsKeepBooks` | the refinement of `Ledger`, if calls keep apart |
| | `SerialCallsKeepBooks` | the same for one thread, as in `serial` |
| | `BooksConserveMoney` | what implements `Ledger` has `TotalConserved` |
| | `SeparateCallsConserveMoney`, `SerialCallsConserveMoney` | hence `Settlement` has, if calls keep apart, and with one thread |
| `IngestionProofs` | `Invariance`, `TypeCorrect` | its inductive invariant, `TypeOK` |
| | `GateKeepsTwinsApart`, `EvictionOpensNoReplay` | `NoTwinInFlight`, `SeasonedPacketsSettleOnce` |
| | `KeepsToContract` | `Spec => ContractSpec`: it uses `settle()` as its contract allows |
| `MeshProofs` | `Invariance`, `TypeCorrect` | its inductive invariant, `TypeOK` |
| | `HopsCostTtl`, `RoundsAreComplete`, `QuietResetIsFinal` | `TtlIsSpent`, `RoundReachesAll`, `ResetIsFinal` |
| `UpiMeshProofs` | `RunsMesh`, `RunsIngestion` | `Spec => M!Spec` and `Spec => I!Spec`: it implements both its parts |
| | `Invariance`, `TypeCorrect` | its inductive invariant, `TypeOK` |
| | `FlushLeavesNothing`, `HopsAreCounted` | `FlushDecides`, `HopCountsAreHops` |
| | `HandlersKeepRowsApart` | no two rows share a hash or an id (`RowsApart`), behind all handlers |
| | `DroppedUploadsAreDue` | the action property `OnlyDueAreDropped` |
| | `UninterruptedResetsAreClean` | `ResetLeavesSeedState`, if no request is about to claim a packet between the two steps of a reset |
| | `SerialResetsAreClean` | the same for one thread |
| `EvictorProofs` | `Invariance`, `TypeCorrect` | its inductive invariant, `TypeOK` |
| | `LostNotificationCostsOneWait`, `ClaimsLive` | `OneTimeoutAtMost`, `ClaimsAreKept` |
| `HybridCryptoProofs` | `RoundTrip` | base64 decodes what it encoded, for every sequence of bytes |
| | `Invariance`, `TypeCorrect` | its inductive invariant, `TypeOK` |
| | `OnlyAllocationsLeak`, `OnlyWholePacketsPass` | `ContextsFreed`, `AcceptedIffIntact` |
| | `WholePacketsPass` | an undamaged packet is refused only if a call failed |
| | `RupeesLoseNothing` | `ToPaise(ToRupees(n)) = n` up to `Largest` |
| | `AmountsSurvive` | `AmountArrives`, if no more than `Largest` is typed |

All of them hold for any sets of threads, packets, devices, addresses and
hashes, and any bounds and limits, under the assumption that the module of the
code states about its constants.

* `ConstantsAssumption` (`Settlement`): the null values are not among the values
  they stand beside, instructions name addresses and integer amounts, finitely
  many accounts are seeded, with natural numbers, and at least one attempt is
  made.  `settle()`
  refuses amounts that are not positive, and so they need not be excluded.
* `IngestionAssumption`, `UpiMeshAssumption`: the limits are natural numbers, a
  second has at least one unit, and `MaxAgeSeconds <= TtlSeconds`.  The last one
  is what `EvictionOpensNoReplay` is about; the code has 86400 for both.
  `UpiMeshAssumption` repeats what the two parts assume.
* `MeshAssumption`, `EvictorAssumption`, `HybridCryptoAssumption`: there is a
  device, phones outside the mesh are not in it, numbers are numbers, and lengths
  are not zero.
* `AmountsAssumption`: at least 8 digits, and numbers 6 digits smaller than a unit
  of the last one, so that a paisa can be written in rupees.  A double has 53 and
  1074.

### Settlement

The argument is one inductive invariant, `Inductive`, which TLC checks in
`concurrent` before it is proved.  Besides the properties themselves it has

* `Isolation`: a thread is between BEGIN and COMMIT exactly when it owns the
  mutex, without an open transaction `db = committed`, and as long as nothing has
  failed there is one exactly while the mutex is held.  Without it a step that
  needs the mutex free could read or commit another thread's writes;
* `CheckedLocals`: the accounts a call has found are seeded ones, and from
  the balance check to the writes the *copies* cover the payment and are
  not negative.  This and not the table is what keeps balances from becoming
  negative;
* `SeededAccounts`: the tables never hold an account that was not seeded;
* `SeededRows`: and all that were, unless a reset broke off;
* `RowIds`: ids are at most `lastRowId`, so that the next one is new;
* `OpenTransaction`: how `db` differs from `committed` at each label between BEGIN
  and COMMIT, also when SQLite has dropped the transaction in between.  COMMIT
  publishes `db`; this says what that publishes;
* `WrittenCopies`: if no statement failed, the two rows that an open transaction
  has written are the copies less and plus the amount.

There is one lemma for each action, and one step in it for each conjunct the
action disturbs; the frame lemmas carry the rest.  The refinement of
`SettleContract` maps a step to `Invoke`, `Record`, `Refuse`, `Wipe`, after a
failure also to `Stray` or `Phantom`, or to a stutter, and uses `OpenTransaction`
at the COMMIT.

`Ledger` is not implemented in general (section 4).  `CurrentCopiesAreBooked`
says which calls make their entry: those whose copies are still committed when
they decide.  `SeparateCallsKeepBooks` says when all do: in every behaviour that
satisfies `[]KeepApart` (no statement failed, nobody pays himself, and two calls
in progress share no account) and `[][ResetsAlone]_vars` (a reset finds no call
in progress).  Both are conditions on the schedule, which one thread meets by
itself, and many threads meet when their packets name different accounts.  The
proof carries `CurrentCopies`: a copy that was read stays current, as nobody else
touches its account.

The total is the last of the running totals over a listing of the accounts.
`RunningTotalExists` shows that there is such a function of any length, and
`TotalRuns` that any listing gives the same, both by taking the least length that
would not do (`LeastNumber`, from the library's theorem that `<` on `Nat` is
well-founded), which needs no induction rule.  `TransferKeepsTotal` then has two
places in the listing where a transfer differs.  `MoneyLeaksWhenStale` joins this
with `CurrentCopiesAreBooked`.

`CallsEndInBoundedSteps` needs `TypeOK` alone: each action leaves `settle()`, goes
on within its attempt, or begins the next one.

### Idempotency and Ingestion

Everything rests on `Stands`: whoever got past the gate since the cache was last
cleared still has its claim in it, with its own time stamp, or has outlived the
time to live.  It is kept for the requests in flight (`ClaimsStand`) and, as
history, for the calls that reached `settle()` (`AdmissionsStand`);
`SecondComers` ties a request that is being validated to those that were admitted
before.  `EvictionOpensNoReplay`
adds the arithmetic: an age that was truncated to at most `MaxAgeSeconds` is less
than a second more, and the claim's own age at least a second less.

`KeepsToContract` closes the chain from the other side: `Settlement` implements
`SettleContract`, and `Ingestion` uses it as it is meant.

### Evictor

The thread waits at most once after the flag was set because its next look finds
it set (`LastWait`).  For `ClaimsLive` each claimed hash must be in the history
of first claims (`Remembered`).

### Mesh

A round works from what it read earlier.  `Forwarded`: a transfer still to be
made is of a packet that was sent and not reset away, with a ttl that packet can
have.  `Reaching`: each device has the packets a round found or is the target of
a transfer to come.  `Cleaning`: a reset under which no round has run has left
nothing on the devices it is through with.

### UpiMesh

`RunsMesh` and `RunsIngestion` show that each step of the composition is a step
or a stutter of both parts, so that all their theorems hold in it.  What the
composition adds is in its own invariant: only packets that were sent are in a
flush, and only those and foreign ones are uploaded (`OnlySent`); the hop count belongs to the upload that carries it
(`HopsAhead`, on top of `TtlIsSpent` of `Mesh`); and a packet in the cache is
decided, or was torn from its row by a reset, or was dated ahead when it was
claimed (`ClaimsAreDue`, with `ClaimsArePast`), from which
`FlushGoesOn` follows for what a flush collected: still to do, in the gate, or
due.

The rest of the theorems draw the line around findings 2 and 3.  An upload that is
dropped has found a claim, and each claim is due or was made while its packet was
dated ahead by more than the tolerance, which only a foreign packet can be
(`DroppedUploadsAreDue`).  And a reset tears a packet
from its row only if a request claims it between `clear()` and
`Database::reset()`: without one (`ResetsUninterrupted`, a condition on the
schedule) the cache is still empty when the tables are wiped, and nothing is torn
(`NothingTorn`).

### HybridCrypto

`OpenAt` gives the contexts that are open before each call of each operation, as
a table.  `Discipline` shows, call by call, that a call touches only these, gives
just these back if it fails and is no allocation, and leaves what the table says
of the next.
`SlicesOfPack` shows that cutting by lengths finds the parts in exactly the bytes
that were packed; a packet that decrypt has found right so far (`RightSoFar`)
and then accepts is hence whole.

`RupeesLoseNothing`: each of the two operations rounds by at most half a unit of
the last digit.  With `K` and `J` the denominators of the two floating-point
numbers, both errors together stay below half a paisa if `K + 100 J < K J`, which
`K >= 256` and `J >= 2` imply.  `Largest` is what makes `K` that large; at
`Largest` itself `K` is 128 and the first operation is exact.  That the number next
to any such amount exists (`FlNormal`) comes from the least power of two that is
large enough.

### What is only model-checked

* The liveness properties `CallReturns`, `RequestsReturn` (of `Mesh`) and `DestructorReturns`:
  liveness and `ENABLED` are outside the prover's reach.
* The four properties that fail in four runs: `TotalConserved`,
  `MoneyMovesWithItsRow`, `OnlyDuplicatesAreDropped`, `ResetLeavesSeedState`.  For
  the first and the last the theorems above state conditions under which they
  hold, and for the others what holds in their place.

## 6. Fairness

The liveness runs assume weak fairness of each request thread's own steps and of
nothing else: no packet need arrive, no clock tick, no evictor run.  A step that
is enabled for good is one whose thread is runnable, or waits for a mutex that
stays free.  A thread that waits while others take and release the mutex is not
covered by weak fairness as such; it gets its turn because the calls of a run
are finitely many and each owner releases the mutex, which is what `CallReturns`
checks.  In `Evictor` the evictor and the destructor are fair, and the fairness of
the evictor includes the timeout: `wait_for` returns after its 60 seconds.
`Ingestion` and `UpiMesh` state safety only and assume none.

## 7. Not modelled

* Cryptography itself: OpenSSL's, taken as ideal.  In `Ingestion` and `UpiMesh` a
  packet decrypts, does not, or fails to for want of memory.  Memory that runs out
  inside OpenSSL's BIO functions, whose results the code ignores, is left out.
* That base64 text can be changed without a change of its bytes (the unused bits
  of its last group): `Damage` changes bytes.  Such a text has another hash and
  carries the same instruction.
* A `system_clock` that is set back: the clock of `Ingestion` and `Evictor` stands
  or goes on.
* Undefined behaviour once memory has run out: `execute` and `seedAccounts` make a
  string of an `errMsg` that SQLite may have left null (`Database.cpp:72`, 83), and
  the results of `sqlite3_bind_text` are ignored.  A statement that is not
  finalized because the copy of a column threw is not followed either.
* Requests refused before they reach a service (malformed JSON, missing fields):
  no state changes.
* 64-bit overflow of balances and of ages, and amounts beyond the range of
  `int64_t`.
* `getServerKey`'s other fields, `meshState`, `snapshotMap`: they only read.
* The dashboard (`static/index.html`): it calls the handlers and shows their
  answers; its calls are among those that `UpiMesh` allows.
* `existsByPacketHash`: only a test calls it, and it changes nothing.
* The libraries Drogon, nlohmann/json and SQLite.  SQLite's transactions appear as
  `db` and `committed`.  `cpp/include/nlohmann/json.hpp`, a vendored header, is
  by far the longest file of the repository and no part of the program's logic.
* The test programs and scripts.

## 8. Plan

Done: the modules of section 2, which cover every part of the server that changes
state; the proofs of section 5, which state every invariant and every action
property that the passing runs check; and conditions under which the properties
that fail hold.  What would come next is code that is not there yet: a version
that `AccountRepository::save` compares and increments, and a `meshReset` that
clears the cache after the database.  Either changes one action (`SaveSender`,
`SaveReceiver`; `ClearCache`, `ResetDb`), and the runs `lost_update` and
`reset_split` would then have to pass; so would `aborted` with a `save` that throws
when its step fails.
