# Super SBC: models, checks and proofs

TLA+ modules for the parts of the session border controller that decide about
money, capacity and connections, model-checked with TLC and, for the billing
core, proved with TLAPS. `PROJECT.json` holds the exact correspondence of
definitions and source lines, the runs, the mutants, the hazards and the
findings; this file explains them.

## 1. The system

A call enters FreeSWITCH, which runs `freeswitch/scripts/sbc/pipeline.lua` in
the thread of the session. The script asks `sbc-api` (Go) whether and where to
dial, tries the carriers in turn and reports every attempt. When the call is
over three independent triggers ask `billing.Engine` to settle it.

| Part | State | Operations | What makes it hard |
|---|---|---|---|
| Billing tables (`store`, `billing`) | `accounts`, `ledger_entries`, `cdrs`, `active_calls` in Postgres | reserve, release, bill, append attempt, post money, set credit | several triggers for one call; Reserve reads before it locks |
| Rating (`rating`) | none | billed seconds, amount, reservation, time limit | rounding twice, increments, zero limits |
| Setup pipeline (`callcontrol`) | the request | authorize, policy, rate, reserve, route, reject | early returns after partial work |
| Script and channel (`pipeline.lua`, FreeSWITCH) | the a-leg, its variables | invite, setup, attempts, talk, hangup, report | the script gives up while the handler goes on |
| Triggers (`wiring.go`, `internalapi.go`, replay script) | events, retries, spool | event, POST, spool, replay | lost, late and repeated deliveries |
| Reconciler (`reconcile.go`) | one pass per minute and node | list rows, list channels, bill; count rows, overwrite counters | everything moves between its steps |
| Admission counters (`cache`) | Redis integers | admit, leave, set | two commands where one is meant; failover |
| Event socket (`esl`) | connection, mutex, channel of answers | command, answer, event, reconnect | answers that nobody waits for any more |
| Routing, breaker, endpoints, failover (`callcontrol`, `failover`) | Redis windows and marks | order, skip, trip, park, classify | concurrent calls feed one window |
| Gateways, tables, caches, quality | in-process maps | poll, load, invalidate, refresh | loads race with invalidations |
| Invoices, rollup, watchdog, firewall, rendered configuration | Postgres, files | periodic jobs | failures between two steps of a job |
| Admin API, UI, codec module | rows, pages | CRUD | validation rather than protocol |

The interactions that matter: setup and triggers meet in the CDR row, whose
lock and `billed_at` decide who settles (D-17); the reservation made by setup
is released by whoever settles; admission slots taken by setup are given back
by setup's rejections or, after the commit, by the settling trigger; the
reconciler asks FreeSWITCH through the same event socket that carries the
hangup events.

## 2. Modules

```
Prepaid            what a prepaid account promises
   ^ implements
Billing            the tables and transactions        BillingProofs, SumLemmas
   ^ implements
CallLifecycle      script, triggers, reconciler,      LifecycleProofs
                   crashes and lost messages

Rating             prices and limits of one call      RatingProofs
Admission          the counters in Redis
Esl                the event socket
```

**Billing** takes one transaction as one action: row locks serialise
transactions on one row and every amount is changed by an increment inside the
UPDATE. What the code does outside a transaction is a step of its own, so
`ReserveRead` (the account is read, Step 4) and `ReserveCommit`/`ReserveLost`
(the WHERE clause of `store.Reserve` decides under the lock) may have any other
step between them. `Bill` and `CallRelease` may happen at any time, with any
outcome and any number of times: the tables must be right whatever the triggers
do. `ledger[a][t]` is the sum of the entries of one type, `entries[c][t]` their
number for one call. Amounts are integers, units of the sixth decimal.

**CallLifecycle** extends Billing with who really calls its transactions:
`Handle`/`HandleError` (the setup handler), `Invite` to `HangupComplete` and
`Destroy` (script and channel), `EslBill`, `JsonPost`, `JsonSpool`, `Replay` (triggers),
`RecList`, `RecShow`, `RecBill` (the reconciler of every node), and the faults:
a failed transaction, a lost answer, crashes of the API, of FreeSWITCH or of a
node for good, a dropped event socket. FreeSWITCH is external: the order
script end, hangup event, CDR post, channel destroyed is taken from how the
repository relies on it.

**Rating** has the five operators of the package and a call that lives by them,
second by second, up to the limit `sched_hangup` gets (and one second more).

**Admission** has one Redis command per step: the increment of `Admit` and the
decrement after a refusal, the decrement of `Leave` and the `SET 0` that follows
a negative result, the three steps of `syncCounters`. Handlers of a call and
the trigger that settles it leave their counters independently.

**Esl** has the mutex, the write deadline (set, never cleared), the channel of
answers with its capacity, the reading goroutine that also hands over the
events, and the Supervisor. Callers differ by the context they bring. An answer
whose command has returned is relabelled as nobody's, which keeps the model
finite; a connection number is reused once no caller holds it.

**Prepaid** is the promise to the customer: hold only free money, settle once,
nothing else moves the balance. It has no reserved column and no ledger.

`Sums` defines the total of a function over a set, without recursive operators.

## 3. Runs

| Run | Instance | Shows |
|---|---|---|
| `billing` | 2 calls of one customer, 1 carrier with a failure fee, amounts 0 and 2, one posting | the books balance (all three checks of `make reconcile`), each call is settled once, ledger and CDRs agree, billed is final, the promise of Prepaid is kept |
| `rating` | 144 rates around the edges of increments, 10 balances, 100 s | overrun of one increment at most, reservation covers the reserved minutes, prices grow, rounding is exact |
| `lifecycle` | 1 call, 2 nodes that may die, 3 faults, fair | a live call is never settled, a delivered document is charged, every step is a Billing step, every reservation of a node that is not lost ends |
| `esl` | poller, admin, renderer; 1 event; capacity 1; 2 abandoned commands; fair | the own answer is still to come, commands return, events are handled |
| `admission` | 2 calls, limits 1 and 2, 1 fault, fair | until the fault carrier and global counters are exact and limits hold; the customer's counter returns to zero whatever the fault |

The bounds are the smallest at which the hazard exists. Two calls race for an
account and for the last slot of a counter; two faults are a lost event and a
failed post, the third strikes during the recovery; capacity 1 stands for 16, since two
abandoned answers already fill it. One call suffices in `lifecycle` because
calls interact only through the account, which `billing` covers; the proofs
need neither bound.

Violation runs state what a comment or document of the repository says and
show a behaviour of the code that differs. They are listed as findings:

| Run | Statement | Behaviour |
|---|---|---|
| `overrun` | at most one increment below zero (D-21) | concurrent calls each get the whole balance as their limit; `TROUBLESHOOTING.md:59` calls it by design |
| `replay` | calls of a crash are billed from the spool (`HA.md:9`) | the reconciler settles them at zero first |
| `node_lost` | any node releases a dead node's reservations (`HA.md:10`) | a node with a standing event socket lists only its own |
| `esl_reply` | API returns its response (`esl.go:109`) | after an abandoned command the next one gets the earlier answer |
| `esl_closed` | Done is closed when the connection is lost (`esl.go:106`) | an old write deadline closes a healthy connection |
| `customer_limit` | over the limit gives 480 (`USER_GUIDE.md:33`) | syncCounters overwrites the slot of a call that has no row yet |
| `carrier_slot` | answered calls release the carrier when billed (`pipeline.go:981`) | a call settled by the reconciler, or a failed attempt record, keeps the slot |

Deadlock is not checked in Billing, CallLifecycle and Rating: the finite set of
calls ends. Esl and Admission run for ever and are checked for it.

Symmetry (permutations of calls) is used in `billing` only, where no liveness
is checked.

Two more disagreements were met while modelling and have no run. A rate of zero
per minute with a connect fee equal to the funds gives a `max_call_seconds` of
0, which the script takes for "no limit" (`rating.go:92-95`, `pipeline.lua:169`),
while `reconcile.go:79-80` relies on FreeSWITCH's timer; no money is at stake,
as `OverrunBound` shows. And a setup that errs writes no CDR
(`pipeline.go:643-646`), while `pipeline.go:592-593` wants one for every
attempted call.

## 4. Fairness

- CallLifecycle: handlers end because their context ends with the request or
  the process; the script and the channel proceed; a talking call ends
  (`sched_hangup`); the reconciler has a ticker; compose restarts the API and
  `Supervisor.Run` reconnects for ever. No fairness for faults, for `Replay`
  (an operator's command), for `Answer` or `Invite`.
- Esl: goroutines run, FreeSWITCH answers while the connection stands, the
  poller returns every ten seconds. `Send` is strongly fair because Go's mutex
  hands over to a waiter after a millisecond. If FreeSWITCH hangs without
  closing the socket, a command without a deadline waits for ever and with it
  everyone else; `CommandsReturn` does not cover that.
- Admission: handlers and triggers end, a dialling call ends, the reconciler
  comes back.

## 5. Proofs

All theorems hold for every set of calls, customers, carriers and nodes and
every amount; the assumptions are the named `ASSUME`s of the modules (types of
the constants, finitely many calls, disjoint customers and carriers).

- **SumLemmas**: the total over a finite set is a natural number, is zero for
  the zero function, and changes by the difference at one changed place.
- **BillingProofs**: `Inv` is TypeOK, ReconcileOK, SettledOnce,
  LedgerMatchesCDRs and CallProgress. The four properties are not inductive on
  their own: a second reservation for a call could only be excluded by knowing
  that a handler that has quoted has no CDR yet, an open call has exactly one
  reserve entry, and an unbilled CDR carries no charge and no cost. CallProgress
  says so. One lemma per transaction shows that `Inv` is kept; `Invariance`
  gives TypeCorrect, BooksBalance, ChargedOnce and LedgerAndCDRsAgree, and the
  step lemmas give BilledStaysFinal. `Refinement` maps `hold` to the rows and
  `stage` to the CDR; under `Inv` the reserved column is the sum of the rows, so
  the WHERE clause of `store.Reserve` is Prepaid's guard.
- **LifecycleProofs**: `LifeInv` adds Stage (what the channel, the triggers and
  the age of a call say about its row) and Sweep (what a reconciler's pass has
  learnt about its candidates stays true: a channel that is gone stays gone).
  `LifecycleImplementsTables` makes every Billing theorem hold with crashes,
  repetitions and losses; `LiveStaysOpen` and `DeliveredStaysCharged` follow
  from `LifeInv`.
- **RatingProofs**: integer division lemmas, then the bound of D-21, the cover
  of the reservation, monotony and the exactness of the double rounding.
  The cover and the bound assume a grace (`min_duration`) no longer than the
  reserved minutes.

Only model-checked: liveness (HoldsEnd, CommandsReturn, EventsHandled,
CounterRecovers), which is outside the prover's reach, and so far the
invariants of Esl and Admission.

## 6. Assumptions and what is left out

- `expires_at` counts from the start of the call and `sched_hangup` from the
  answer; the ten minutes of `orphan_timeout` are taken to cover dialling and
  reporting (`Ageing`).
- The reconciler's limits of 500 and 200 rows per pass, the calls-per-second
  window (a free choice in Admission) and the `resv:` keys of Redis.
- Media, codec and RTP fields of the CDR; notifications.
- Zero increments, which the schema's CHECKs forbid.
- Postgres aborting one of two transactions that lock two carriers in opposite
  order appears only as a failed transaction.

## 7. Plan

1. Routing: `RouteWith` with its skip reasons, the carrier orders and failover
   classification as operators against reference definitions; breaker and
   endpoint marks at Redis granularity, fed by concurrent calls.
2. `CdrMerge` (B-leg statistics against the settling transaction), lock order of
   carrier accounts, the limit of a reconciler pass.
3. Gateway poller, tables and IP cache against invalidation, quality refresh.
4. Invoices and payments, rollup, watchdog, rendered configuration, firewall
   sync, sessions.
5. Proofs: WaitsForOwn of Esl, SlotsExact and LimitKept of Admission, then the
   invariants of the modules above.

## 8. Reproducing

In this directory: `tlc -config MCBilling.cfg MCBilling` (and the other pairs in
`PROJECT.json`), `tlapm BillingProofs.tla` (six to eight minutes from nothing, like
`LifecycleProofs`; the others take a minute or two).
