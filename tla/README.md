# insomnia_keeper: specification, model checking and proofs

insomnia_keeper is a cryptocurrency wallet: a Django backend with an admin site
(`insomnia_keeper_main`), a Flutter client (`insomnia_keeper_flutter`) and a
vendored Trust Wallet core with a Python binding (`wallet-core-python`). The
modules here specify the parts of it that hold state or decide about money,
check them with TLC on small instances, and prove the most important
properties with TLAPS for every value of the constants.

All paths below are relative to `src/`; `wc/` stands for
`wallet-core-python/wallet-core/`.

## 1. Inventory

### Components, their state and their operations

| component | state | operations | modelled in |
|---|---|---|---|
| Preset tables (`models.py`: `AdminSettings`, `Global`, `Rules`) | rows with an `active` flag and data; row locks and uncommitted versions in PostgreSQL | `save()` (clear the other active presets, then write) and deletion, from the admin (one transaction) or a shell (autocommit) | `PresetTable`, `AdminSettings` |
| Global endpoint and build page (`api_v1/logic.py`, `views.py`) | none of their own; up to four reads per request | `get_global()`, `build()` | `GlobalEndpoint` |
| Exchange-rate collector (`collect_exchange_rates.py`) | rates fetched so far, the request under way | ask for five rates in loops without a limit, one UPDATE | `ExchangeRates` |
| Choice of unspent outputs and fee formula (`wc/src/Bitcoin/InputSelector.cpp`, `FeeCalculator.cpp`) | none (pure) | `select`, `selectSimple`, `selectMaxAmount`, `calculate`, `calculateSingleInput` | `UtxoSelection` |
| Bitcoin transfer (`wc/src/Bitcoin/TransactionBuilder.*`, `TransactionSigner.cpp`, `SignatureBuilder.cpp`) | request, plan, hashes to sign, transaction | `plan`, `build`, `sign`, `preImageHashes`, `compile` | `TransactionPlan`, `TransactionSigner` |
| NEO transfer (`wc/src/NEO/Signer.cpp`) | request, plan, transaction | `plan`, `prepareUnsignedTransaction`, `sign` | `NeoTransfer` |
| Key store (`wc/swift/Sources/KeyStore.swift`, `Wallet.swift`, `wc/src/Keystore/StoredKey.cpp`) | wallets and watches in memory, key files and `watches.json` on disk | create, import, add/remove accounts, update, delete, destroy, watch, load | `KeyStore` |
| Accounts and tokens (`logic.py`, `settings.py`) | users, profiles, refresh tokens | `check_auth`, `create_profile`, `log_out`, login | no |
| Error reports (`logic.py`) | `Error` rows | `report_error` | no |
| Keeper and wallet creation (`logic.py`) | keeper rows | `create_keeper` | no |
| Flutter store, lock screen, HTTP client | redux state, entered code, tokens | polling, unlock, refresh | no |
| Other chains, crypto, bindings, platform shells | - | pure functions, generated or vendored code | no |

### How they interact

* The admin site and shell sessions call `save()` of the preset models; each
  save is an `UPDATE ... WHERE active` followed by an insert or update of the
  preset itself. PostgreSQL runs them at READ COMMITTED.
* The collector, started by a timer, writes the active `Global` row with a
  single UPDATE while operators may be saving presets.
* The client polls the Global endpoint every five seconds; it reads the `Global`
  and `Rules` tables in four statements of no common transaction.
* A transfer is planned by `TransactionBuilder::plan`, which asks
  `InputSelector` for outputs and a `FeeCalculator` for the fee (for a segwit
  coin, also the size of a trial signature), and is then signed from the plan: by
  `SignatureBuilder` with the keys of the request, or in two calls, one that
  collects the hashes to sign and one that takes the signatures of the caller.
* A NEO transfer goes the same way through one class, `NEO::Signer`; its fee is
  paid in GAS, an asset that the transfer itself may move.
* The program holds `Wallet` objects of the key store and calls it from one thread.
  Each call changes the lists and keys in memory first and one file afterwards;
  the next start of the program knows the files only.

### What is hard

Interleavings of several statements per operation with row locks and deadlocks;
stale reads (check, then get); stale forms written back over newer rates; loops
without a limit around requests without a timeout; lost connections between statements; rounding and limits in the
choice of outputs; several assets in one transfer, one of which also pays the fee;
two walks over the same inputs, in different calls, that have to count alike;
for the key store, crashes between opening and writing a file, writes whose failure
nobody sees, operations that throw half-way, and handles of wallets that are gone. `PROJECT.json` lists each hazard at its line, with the properties that cover it.
Some of them the code does not guard against: a stale form does overwrite collected rates,
a write that failed is not noticed, `watch` does lose old accounts. No property can
forbid those; a note says what happens and what stays true beside it.

### What makes each component correct

* Presets: at most one is active when saves do not overlap; overlapping saves
  still replace everything that was active all along; a table is never without
  an active preset in front of a reader; nobody writes back old data except by
  saving that very preset. Deletions may come at any point; only the preset in front
  of every reader needs that nobody deletes it.
* Readers: a request that found an active preset can fetch it.
* Collector: its rates reach the active preset, they are not older than the
  run, and every run ends unless an outage has cut off one of its requests without a word.
* Selection and plan: the amount is covered, no dust is spent, as few inputs as
  any set of outputs would need, no dust change if it can be avoided, and
  amount, fee and change add up in the plan and in the signed transaction.
* Signing: each input unlocks the output it spends; the hashes given out are those
  that signatures are later matched with; both ways give the same transaction;
  the trial signature has the items of the real one, although it is made of the plan
  before its fee.
* NEO transfer: inputs and outputs of each asset balance, no input is taken without
  need, a request fails only if the wallet is short, and the fee of the plan is what
  the transaction leaves to the network, by the byte if it is large.
* Key store: what the next start shows is what the list shows now, except for the
  file a call is working on or the file system has refused; an address that is no
  longer watched stays away; a deleted private key cannot come back.

## 2. The modules

| module | extends / instantiates | role |
|---|---|---|
| `PresetTable` | | one preset table and its writers |
| `AdminSettings` | `PresetTable` | the fee that `save()` lets through |
| `GlobalEndpoint` | `PresetTable` (Global), `R == INSTANCE PresetTable` (Rules) | the readers beside two tables |
| `ExchangeRates` | `PresetTable` | runs of the collector beside operators |
| `UtxoSelection` | | selection and fee as operators |
| `TransactionPlan` | `UtxoSelection` | request, plan, signed transaction |
| `TransactionSigner` | `TransactionPlan`, which it implements | signing with keys, or by hashes and signatures |
| `NeoTransfer` | | request, plan, signed transaction, with several assets |
| `KeyStore` | | the process, its wallets and watches, and the disk |
| `ListInduction` | | induction over the beginnings of a list, for the proofs |
| `PresetTable_proof`, `GlobalEndpoint_proof`, `ExchangeRates_proof`, `UtxoSelection_proof`, `NeoTransfer_proof`, `KeyStore_proof` | the module each is named after | theorems |
| `BitcoinTransfer_proof` | `TransactionSigner`, `UtxoSelection_proof` | theorems of `TransactionPlan` and `TransactionSigner` |
| `MC...` | the module each is named after | values of the constants for TLC |

Each module that holds a mutated operator ("Mutant:" in its comment) keeps it next
to the definition it varies. Mutants are never part of a specification; they show
for every property that a plausible slip in the code would break it.

### PresetTable

* `rows`, `db`: the committed rows and their versions (flag and value).
  `lock`, `dirty`: who has written a row without ending its transaction, and what.
* `pc`: `idle`, `form` (an operator has a form open), `clear` (the UPDATE of the
  others, lines 112, 150, 170 of `models.py`), `own` (`super().save()`, lines 113,
  151, 171), `commit`, and `rates` (the collector's UPDATE).
* `form`: the preset being saved or the rates collected; `todo`: rows of the
  UPDATE's snapshot not yet visited. `older` is a history variable: the presets
  that were active when the statement began and have been so at every commit
  since.
* `Visit` follows PostgreSQL's rule for READ COMMITTED: the snapshot decides which
  rows are visited, a locked row is waited for, and the condition is evaluated
  again on the newest version.
* `EndClear` publishes at once in autocommit (a shell session, `Rules` which the
  admin does not register) and keeps the transaction open in the admin.
* `Crash` is the loss of a connection or worker at any point; `Victim` is
  the rollback of one transaction of a cycle of waits.
* `Delete`, `Erase`, `EndDelete` are a deletion. What waits for the row passes over
  it afterwards; the admin answers an open change form of it with a redirect, while
  a save that has begun, or an object in a shell, inserts it again, because
  `super().save()` does an INSERT when its UPDATE finds no row. `Removable` is the
  set of presets operators delete.
* `Overlap = FALSE` restricts saves to one at a time; it is how `OneActivePreset`
  is stated, because two overlapping activations do leave two presets active
  (each one's snapshot lacks the other's row).

The model is of the production database. With `LOCAL` set, `settings.py` uses
SQLite, whose single writer is the case `Overlap = FALSE`.

### GlobalEndpoint

`get_global()` is `Request`, `AnyGlobal`, `AnyRules`, `GetGlobal`, `GetRules`; the
build page is `Build`, `BuildAny`, `BuildGet`. Each is one statement, between any
two of which the tables may change. `get(active=True)` raises unless exactly one
row matches, and `answer` says how the request ended.

### ExchangeRates

The value of a preset is, for each rate, the time at which the market had it.
`Start`, `Send` and `Update` are the command, `Turn` is its two loops
(`get_fiat_rate`, `get_crypto_usd_rate`), with asking and answering apart, because
`requests.get` is called without a timeout. `asked` is the request of a run: `Ask` sends
it; `Answer` returns the rate while the services are up and goes on to the next one;
`Fail` is any exception, after which the loop asks again; `CutOff` is a connection that
an outage cuts off without the client being told. Such a request is "hanging": only an
exception from outside can end it, not the return of the services. `Tick`, `Outage`,
`Recovery` are the market and the services; `Killed` and `Crash` stop a run. Operators
re-save presets with the rates their form was opened with, as the admin does when those
fields are left alone.

### UtxoSelection and TransactionPlan

An output is its amount, a list of outputs a sequence. `Calculate` keeps the
`std::ceil` of the formula: `InputQuarters` is the size of an input in quarters
of a byte (405 for the segwit calculator's 101.25, 592 for the default 148).
`Select` returns a set of results, since `std::sort` leaves the order of equal
slices open. `selectSimple` is an operator of the order of the list.

The amounts of a wallet are far below 2^62 satoshi, so no sum or product wraps and
the model uses unbounded integers. The `assert`s are compiled out as in a
release build, and the properties restate them: `AmountCovered` and
`PlanBalances`.

`Plan` chooses among the fees `Estimates` allows: the formula, or for a segwit coin
any size that a trial signature may have. The trial is signed from the `Preliminary` plan
(lines 143-153 of `TransactionBuilder.cpp`): fee 0, and all that is left over as change,
so it may have an output more than the final transaction and need an address that this
one does not. If it cannot be built the formula is taken. `Sign` builds from the plan; `SignFails`
is any failure of keys, scripts or addresses.

### TransactionSigner

* `request` holds what a request says of signing: the script of each output the
  plan spends, the redeem scripts, the private keys and the hash type. `way` is how
  far the caller has gone: sign at once, or collect `hashes` and compile `answers`.
* `SignAll` is `SignatureBuilder::sign` in one of its four modes: it goes through the
  inputs in order, stops at the first error and counts the hashes. `SignInput` is
  its step for one input (`sign` and `signStep`, lines 63-231 of
  `SignatureBuilder.cpp`): `ScriptError` the scripts that have to be known,
  `Signers` the keys that sign, `SigningError` and `Signatures` the four ways of
  `createSignature`, `Spending` what goes into script and witness. `PlanOf` is the plan a
  mode signs: `Preliminary` for the trial, the final plan otherwise.
* A hash is what it is taken of: the script, the number of the input and the version
  (`Transaction.cpp:151`); the other inputs go into it without their scripts, so those
  already signed do not change it. A signature is its key, its hash and its hash type.
* `Scripts` is the set of scripts an output may have and `Key` that of public keys.
  A multisig script has the keys for the signatures it asks for (`MatchMultisig`):
  the code takes a script with fewer for another one (`Script.cpp:150`).
* `SignDirectly`, `PreImageHashes` and `Compile` are whole calls, each a single step
  because the code runs them in one thread. Each call plans anew if the request has
  no plan; the same request gives the same plan, and `plan` stands for both.
* `Satisfies`, `WitnessSatisfies` and `Unlocks` say what the network accepts. They
  belong to the property `SignedUnlocks` and not to the code.
* Uncompressed keys in a pay-to-public-key output are left out (the code cuts them to
  33 bytes and then finds no key), as are nestings no wallet makes.

### NeoTransfer

* `request`, `plan` and `tx` are the protobuf messages reduced to assets and
  amounts; `stage` says how far the transfer is. `Selected` is the loop over the
  inputs (lines 65-79 of `Signer.cpp`), `Outputs` and `LowBalance` the one over the
  outputs (82-102), `Priced` the fee (104-147), `PrepareUnsigned` the transaction.
* `available` and `required` of the code are maps that each loop fills; the model
  writes them as functions of the list taken so far (`Held`, `Has`, `Required`).
  `Required` keeps that the last output of an asset overwrites the others.
* Line 85 looks at `inputs(i)` where `i` counts outputs. Past the end of the list
  that is undefined: `Lookups` lets the look-up succeed or fail at each such place,
  and `Overrun` lets the program end there.
* A failed plan keeps what it has built so far, with an empty output at the
  end, and `Sign` signs it: the code does not look at `error`. An exception in
  `prepareUnsignedTransaction` (an address that is not valid, a fee that does not
  add up) gives an empty transaction, which is signed as well.
* The sizes are constants. Lists are short enough for a one-byte count, and
  amounts far enough below 2^63 for no sum to wrap. A plan given with the request is
  one that `plan` has made for it.

### KeyStore

* `disk` is what each path holds: nothing, a key, a list of watches, or `Torn`
  (opened, hence empty, and not written to the end). `wallets` is the list of
  `KeyStore.wallets`, `key` the key of each `Wallet` object, which the program may
  hold after the wallet has left the list. `watches` is the list in memory,
  `encoded` the bytes on their way to `watches.json`.
* `pc` and `todo` say what the running call still has to do on the disk. Saving is
  `Open` and `Write` (`std::ofstream` truncates on opening; `Data.write` without
  options writes in place), deleting is `RemoveItem`, `destroy()` is `Destroy`,
  `DestroyNext`, `DestroyEnds`. The file system may refuse any of them: the result
  of `store()` is dropped (`KeyStore.swift:346`), the others throw.
* `Crash` may come between any two steps. `Load` is the next start: it passes over
  a key file it cannot read, and a torn watches file keeps the store closed for
  good (`LoadFails`).
* A call that throws before it has changed anything is a step that changes nothing
  (`Rejected`). `fatalError` ends the process (`Missing`).
* `behind` is a history variable: the paths at which the file system refused the
  last step since the start. It is in no guard.
* A file name may be taken again when nothing is left of its first use. Real names
  carry a new UUID each; the finite set stands for them.
* Exports change nothing and are left out, as is the public setter of `watches`.

## 3. Runs

| run | instance | shows |
|---|---|---|
| `preset_overlap` | 3 rows, 2 writers (one in autocommit), 2 values, deletions, all overlaps | types; overlapping saves replace what they saw, the collector reaches the active presets, clearing keeps data |
| `preset_serial` | 3 rows, 2 writers, no overlapping saves | at most one preset is active, with crashes and deletions in any place |
| `admin_fee` (violation) | 2 rows, fees -1, 0, 1, 10, 11 | a fee of 10 is stored although the message says "less than 10" |
| `global_endpoint` | 2 rows per table, 2 operators who delete nothing, a shell session that does, 1 request | a request that found a Global preset gets exactly one; a Global preset is always active |
| `rates_refresh` | 2 rows, 2 overlapping runs, 1 operator, 2 rates, clock 0..1 | no run leaves a rate older than itself |
| `rates_live` | 2 rows, one of them removable, 1 run, 2 operators whose saves overlap, 1 rate, clock 0, fairness | every save ends; every run ends or hangs in a request that was cut off |
| `plan_select` | lists of up to 4 outputs at and around dust, limits 3 and 4; for plans of 1 and 2 inputs, 10 scripts, 3 sets of redeem scripts, 3 of keys, 3 hash types, for a segwit coin | all properties of plans and of signed transactions, the trial signature against the real one; `TransactionSigner` implements `TransactionPlan` |
| `plan_cut_off` (violation) | up to 3 outputs, hard limit 2 | the amount is not covered after the cut-off |
| `keystore` | 2 wallets of either kind, 2 passwords, 1 coin, 2 watched accounts | a restart shows the list, watches end with the list in memory, a deleted private key stays away |
| `keystore_update` (violation) | the same | the current password of a private key is refused by `update` |
| `neo_plan` | up to 3 inputs and 2 outputs of 2 assets, every combination of values at and around each limit | all properties of plans and signed transactions |
| `neo_gas_used` (violation) | as before, but two inputs and two outputs are still a small transaction | a payment planned without error and without a fee leaves its GAS to the network |

**Bounds.** Two rows are needed for a deadlock and for two active presets, three
for a save to meet one preset of its snapshot and one outside it. Two writers
make every pair of operations overlap; the properties speak of pairs. In `rates_live`
two operators beside the run make both kinds of deadlock: save against save, and save
against collector. Two rates are enough for one to be older than the other. Four outputs give lists above and
below `SimpleModeLimit`, with dust, at the dust limit and above it. The run of
`plan_select` takes a hard limit no list exceeds, because `plan_cut_off`
covers the rest; the real limits are 1000 and 3000. It has all signing requests
for the plans of two wallets and one plain request for the others: two inputs give
every script before and after every other, and up to four hashes; with one to three
outputs SIGHASH_SINGLE has an input with and without its output. Their coin is segwit, so
each has a trial signature. The amount of 426 and the trial sizes of 110 and 400 bytes let the
fee eat the change or leave it, so trials with one output more than the final
transaction, and trials that fail where that one does not, are among them. The caller's
answers are in order, with two neighbours exchanged, or one short; exchanges within
one multisig input and between inputs are both among them. `MaxTime` bounds the clock
only and nothing in the code counts it.

Two wallets show what a call on one does to the other; two passwords are the right
and a wrong one, or the old and the new; one coin is enough for an account to be
there or missing, because the code treats coins one by one; two watches, each of
which may be in the list twice, give every order of two. `neo_plan` has one asset
that pays fees and one that does not; three inputs are the least that can hold an
input taken without need. The sizes are scaled so that three inputs alone make a
transaction large, and two only with the output that the fee adds (`LargeTxSize` is
1024 in the code, 34 and 60 bytes for an input and an output). `neo_gas_used` needs a
payment with change in one asset beside an input of GAS that is below the limit for
the fee, so there the limit is raised just above that size.

The runs of the two transfers switch off the deadlock check: a transfer ends
when it is signed or has failed. `Symmetry` permutes rows and `FileNames` the names
of key files, which no constant of the runs tells apart; both are used in runs
of safety properties only.

**Fairness.** `RatesFairSpec` assumes that
* the services come back (weak fairness of `Recovery`), and again and again they stay up
  long enough for a run to send a request and for a request that is waiting to be answered
  (strong fairness of `up /\ Ask` and of `Answer`, because outages switch them off).
  Nothing is assumed of a request that was cut off: it may hang for ever, and `RunEnds`
  says that this is the only thing that can keep a run. Nor is `Fail` fair;
* a process that can go on does (`Send`);
* row locks are handed out in the order of waiting and the deadlock detector breaks
  every cycle (strong fairness of a writer's statements: a lock may be
  free and taken again while somebody waits). PostgreSQL queues waiters and
  runs the detector after `deadlock_timeout`.
Nothing is assumed of operators: a form may stay open for ever, and a run or save
may be killed at any time. The fairness is per process, never on `Next`.

## 4. Findings

1. **A fee of exactly 10 percent is accepted** (`models.py:109`): the test is
   `> 10`, the message "must be less than 10". Run `admin_fee`.
2. **The cut-off at the hard limit may drop the outputs that cover the amount**
   (`wc/src/Bitcoin/TransactionBuilder.cpp:129`): the assert at line 144 fails in a
   debug build; in a release build the recipient silently gets less. Run
   `plan_cut_off`, with the limit at 2 instead of 3000.
3. **Dust is counted and then dropped** (`InputSelector.cpp:150`), found while
   proving `PlansCover` and not shown by a run (TLC cannot evaluate lists of that
   length). With the segwit calculator (101.25 bytes per input) one output of
   10000 and 236 of 102 satoshi, at 1 satoshi per byte and an amount of 10001:
   `select` needs many small outputs, each of which is dust because 101.25 is
   rounded up to 102 for a single one, while the fee of all of them is rounded
   up only once. They count for the sum and are then filtered out; 10000
   remains, less than the amount. It cannot happen with a whole number of bytes
   per input; that is what the theorem assumes.
4. **`update` refuses the current password of a private key**
   (`wc/swift/Sources/KeyStore.swift:303`) after it has replaced the key in memory:
   until the next start the new password opens the wallet, afterwards the old one.
   Run `keystore_update`.
5. **GAS beyond the fee is left to the network** (`wc/src/NEO/Signer.cpp:116`):
   all inputs of GAS are spent, and an output for what remains is added only if
   the transfer pays GAS or needs a fee. Run `neo_gas_used`: a request pays 2 of another
   asset, from inputs of 3 of it and 1 GAS. The plan has no error and the fee 0, and the
   signed transaction has no output for the GAS.

Observed while modelling, and part of the models rather than of a finding: `watch`
writes only the new accounts, so the file loses the older ones
(`KeyStore.swift:61`); `addAccounts` on a kept handle writes the file of a deleted HD
wallet again (`KeyStore.swift:98`); a negative change of GAS is dropped together
with a part of the fee (`Signer.cpp:144`); and a failed NEO plan is signed without an
error. In the signer: a redeem script that is no witness program is pushed twice
(`SignatureBuilder.cpp:92` and `:121`), so that such an input does not unlock its
output (no test of the repository signs one; `SignedUnlocks` leaves it out and is
violated without that exception); a multisig input needs the first keys of its list
and not just enough of them (`:164`); an answer has to sign the hash, but neither
that its key is the one asked for nor the order within one multisig input is looked
at (`:277`), which is why `SignedUnlocks` speaks of answers in order.

## 5. Proofs

All theorems hold for any number of rows, writers, requests, wallets, scripts and
keys, any lists of outputs, amounts, prices, sizes and limits, under the named
assumptions of the modules (`PresetAssumption`, `EndpointAssumption`,
`RatesAssumption`, `CalculatorAssumption`, `PlanAssumption`, `SignerAssumption`,
`NeoAssumption`, `KeyStoreAssumption`), which give the constants their types and no
more than the code does: a matched multisig script has its keys (`Script.cpp:150`),
the amount of GAS below which a fee cannot be taken is not 0 (`Signer.cpp:121`). Every safety property of a
passing run is a theorem; three of them (`AmountCovered`, `FewestInputs`, `NoDustChange`)
under conditions on the limits and the calculator, which are named below.

**PresetTable_proof.** `TypeCorrect` first. The action properties need `IInv`: a lock
is held only by a transaction in progress; what a transaction has written so
far is what its stage says (`Written`: cleared rows keep their data, the
collector's rows are active and hold its rates); and `SnapshotCovered`: each
row of `older` is still to be visited or already locked. At the commit nothing is
left to visit, so everything in `older` was written: `SaveReplaces` and
`CollectorReaches`. `ClearingKeeps` follows from `Written` alone.
`OneActive` adds `SerialInv`: there is one saver, and the snapshot of the one in
progress shows every active preset. `AlwaysActive` adds `ActivatingInv`: every form
in use activates and nobody deletes, so a commit that clears the last active row
also publishes an active one.

**GlobalEndpoint_proof.** A step of the composition is a step of the Global table or
leaves it alone, so `OneActive` and `AlwaysActive` carry over; since no step empties
the set of active presets, what a request has found stays (`FoundGlobal`). The
invariant of the readers is proved for the whole composition, so `ReadersTyped` holds
of requests that read while both tables are being written.

**ExchangeRates_proof.** `RunRefreshes` needs more than the table's `IInv`: it says of
the UPDATE that the collector's rates reach the active presets, and not that these
rates are new. `RatesInv` adds it, for each run: it writes only when it has all the
rates and then exactly those it has (`Writing`), and each rate it has is of a time not
before the run began (`Fresh`); it also says that only a run which is still asking has a
request under way (`Asking`), without which an answer could come to a run that is
writing. `RatesImplementTable` is the refinement: whatever the
runs, the services and the clock do is a step of `PresetTable` or a stutter, and
the theorems about the table are cited for it.

**ListInduction.** Lemma `Recursion` shows that a recursive definition on `0..n` has the
value it says, and `UpTo` that a set which contains 0 and with each number the next is
all of `0..n`; both take the least argument for which it fails. They stand in for
induction theorems with an operator as parameter. `UtxoSelection_proof`,
`BitcoinTransfer_proof`, `NeoTransfer_proof` and `KeyStore_proof` rest on them.

**UtxoSelection_proof.** The total of an appended list; that filtering leaves a list
above the limit, no longer than before, and loses at most the limit for each output it
drops (`FilterKeeps`, `FilterResult`); that sorting keeps type and length; that
whatever `select` returns is what is left of outputs which hold amount and fee
(`SelectFilters`); and that a calculator of whole bytes charges for some inputs what
each costs alone (`WholeBytes`).

The other half is about sets of outputs. `MapThenSumSet` chooses the order in which
it adds; `SetSumsExist` and `SetSumIs` show that the sum does not depend on it.
`SortedAbove`: of k outputs worth x or more, the k-th largest is worth x. From it
`LargestHold`, by removing the least output of the set: no k outputs are worth more
than the last k of the sorted list. So if any set of k outputs pays for itself and
leaves dust, `select` finds a slice of k outputs or fewer in its first pass
(`CleanSelection`).

**BitcoinTransfer_proof, plans.** `IInv` says that a plan is either failed or sound (settled
from a list of outputs above dust with some fee of the request), and that a signed
transaction belongs to its plan. From it: `PlanTypeCorrect`, `EveryPlanBalances`,
`NeverShortWithChange`, `DustStays`, `FeeIsTheDifference`. `PlansCover` proves
`AmountCovered` from two assumptions that findings 2 and 3 show to be needed: no
list is longer than the hard limit, and an input has a whole number of bytes.
`FewestTaken` proves that no set of outputs, of all there are, would have done with
fewer, and `NoDustLeft` that the change is not dust if it need not be. Both assume that
the limit of the exact search is at most the hard limit (1000 and 3000 in the code);
`NoDustLeft` also whole bytes, since dust that the filter drops gives back what it was
charged for only then. A coin that is not segwit has them (148 bytes).

**BitcoinTransfer_proof, signatures.** `SignerImplementsPlan`: whatever way a transfer is
signed, it is a behaviour of `TransactionPlan`. Collecting hashes is a stutter, and a
signing that succeeds had a plan without error that could be built
(`SignedIsBuildable`). All theorems about plans carry over, as `BothWaysPayTheFee` shows
for the fee. No assumption is made on `SigningRequests`.

What goes into the inputs needs `SignerInv`: hashes that were collected are those the
signer would collect now, and what has been signed or compiled is the result of the
signer in that mode with those answers. Without it nothing ties the second call to the
first. The rest is about `SignUpTo`, the walk over the inputs, by induction over its
length. `HashesAlike`: the walks that collect and compile, which sign the same plan, ask for the
same hashes at the same places. Hence, in a compiled transaction every hash has a signature
of its own (`HashesAnswered`), the right answers are taken (`RightAnswersAreTaken`), and
both ways give the same inputs (`SameEitherWay`). `EstimateIsTrue` compares the
normal walk with the estimating one, which signs another plan. From `PlanBalances` and
`ShortOnlyWithoutChange` the plan before its fee has no fewer outputs than the final one
(`OutputsBeforeFee`), so by `TrialHasTheItems` the trial goes at least as far, and has the
same items for each input that the real walk signs; an input without output under
SIGHASH_SINGLE is the only one at which they may part, and the theorem says so; `SpendingUnlocks` shows, kind
of script by kind, that the items of an input unlock its output (`SignedCanBeSpent`).

**NeoTransfer_proof.** The state is what its stage says: the plan is one that can be
made for the request, the transaction the one of that plan (`IInv`). The work is in the
lists. What a list holds of an asset grows by each input taken (`HeldAppend`), and an
input is taken only while what is there is not more than what is required
(`SelectedNeeded`), until it is (`SelectedHolds`); what the outputs pay of an asset that
goes to one address is its amount and its change (`PaidOfOne`). From these `NothingIsLost`,
`NoneTakenInVain`, `FailsForWant`. The fee follows the cases of lines 104-147
(`PlanCases`): `FeeIsLeft`, and `LargePays`, since the fee only takes outputs away from the
transaction that its size was estimated on. The attempt to prove `LargePays` for all
requests failed for a reason: the estimate of a request with an invalid address is of
the empty transaction, but if all the GAS becomes the fee, the output that would fail
is gone and the transaction is signed. TLC finds such a request when the sizes
allow it, so `LargePaysByTheByte` speaks of valid addresses.

**KeyStore_proof.** `RestartShowsTheList` is not inductive by itself. `IInv` adds `Working`
(a key file being written belongs to a wallet with a key, and if that wallet is no longer
listed it is an HD wallet; a file being removed belongs to a wallet already
forgotten; `destroy` works on an empty list), `OneAccountEach` (a private key has at most
one account, in memory and on disk: `update` keeps one account of it in memory and
then throws without a write, so with two the file would know more than the list), and `EncodedIsSuffix` (the bytes on their way to `watches.json` are an end of
the list), without which writing could break `WatchFileIsSuffix`. From it
`TypeCorrect`, `RestartIsRight`, `WatchFileIsRight`; `DeletedStays` is an action property:
under `Working` no step opens or writes the file of an unlisted private key.

**Only model-checked:** liveness (`RunEnds`, `EveryWriteEnds`), which needs fairness and
`ENABLED`, both out of this prover's reach; and the properties of the violating runs,
which do not hold.

## 6. Not modelled

* *Accounts, keepers*: `check_auth` filters on a field that `Profile` lacks,
  `create_profile` raises at line 280 before it creates anything, and wallet
  creation uses names that do not exist. There is no behaviour to check yet.
* *Flutter store*: every fetch ends in an exception (`data.global` of a `Map`), so
  no answer reaches the store and none can arrive late.
* *Flutter lock screen, error reports*: a sequential screen of four digits, and one
  look-up followed by one insert; two overlapping reports of one error insert it
  twice, and nothing in the code promises otherwise.
* *Encodings of scripts and signatures, other chains, third-party crypto*: pure
  functions on bytes, vendored, with their own test vectors.
* *Settings, migrations, deployment, platform shells, bindings, generated code.*

## 7. Plan

Done: 1 `PresetTable` and its proofs, 2 `AdminSettings`, 3 `GlobalEndpoint`,
4 `ExchangeRates`, 5 `UtxoSelection`, 6 `TransactionPlan`, 7 `KeyStore`, 8 `NeoTransfer`,
9 `TransactionSigner`, 10 the proofs about each of them.

Next, in this order:

11. `AmountCovered` for the segwit calculator, under the weakest bound on the number of
    outputs for which rounding cannot lose an input (finding 3 shows that some bound is
    needed).
12. What `TransactionPlan` promises above the limit of the exact search
    (`selectSimple`): how many outputs it takes beyond the fewest.
13. `SignedUnlocks` without order: which exchanges of answers still unlock every input.
