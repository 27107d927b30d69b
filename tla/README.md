# Verification of ShopVPN

ShopVPN sells VPN configurations through Telegram. This directory holds TLA+
models of its core, the TLC configurations that check them on small instances,
and TLAPS proofs of what matters most. Paths and line numbers are those of the
repository (`database.py`, `handlers_user.py`, ...).

- [1. The system](#1-the-system)
- [2. Modules](#2-modules)
- [3. Runs](#3-runs)
- [4. Proofs](#4-proofs)
- [5. Where the code disagrees with what it says](#5-where-the-code-disagrees-with-what-it-says)
- [6. Abstractions, bounds and fairness](#6-abstractions-bounds-and-fairness)
- [7. Plan](#7-plan)

## 1. The system

Three processes share one SQLite file per shop (`railway_app.py`): the **bots**
(aiogram, one event loop for the main bot and every reseller bot,
`bot_manager.py`), the **mini app** (`miniapp/server.py`, FastAPI, which also
receives the callbacks of payment gateways) and the **web panel** of the admins
(`admin_panel/server.py`). Each process has its own `Database` object. Its
`_get_conn` takes a `threading.Lock` and commits or rolls back at the end, so:

- the methods of *one* object never overlap;
- a method of one statement is atomic for everybody;
- a method that SELECTs and then UPDATEs is *not* atomic for the other
  processes, because `sqlite3` opens its transaction at the first statement
  that changes data;
- a handler that calls several methods is interleaved between them. Bot and web
  panel call through `asyncio.to_thread`; the mini app calls the database on
  the event loop itself, so its requests interleave only where they await a VPN
  panel or a gateway.

| Component | State | Operations | What is hard | What makes it correct |
|---|---|---|---|---|
| Orders, wallet, discount code, config bank | orders, users.referral_credit, discount_codes, configs, custom_configs, the bot conversation | buy, apply a code, create, approve, reject, cancel, deliver, manage stock, adjust a wallet | several transactions per request, three processes, panel calls in the middle, interruption between transactions | no money or code use is lost, a config is sold once, an order is decided once, what is approved was built |
| Gateways and top-ups | the three invoice tables, wallet_topups, the invoice at the gateway | create an invoice, webhook, check button, return page, verify once, deliver, approve or reject by hand, expire, delete | repeated, late and missing callbacks, a verification that succeeds unheard, rows read before an await | a payment counts once, a paid top-up ends in the wallet, nothing for free, a completed invoice stays completed |
| Settings copy, database lock | settings, `_settings_cache` and its age, the lock | get, set, load, refresh loop, expiry | loads in two steps, writes outside the lock, other processes, a lock its holder cannot take again | readers come to agree with the table, calls end |
| Referral rewards | users.referred_by, the three reward marks, the wallet | /start with a link, first purchase | mark and payment in two transactions, settings read inside a transaction | one commission per guest, limits hold, the free config is given once |
| Panels and reseller credit | panel_servers, custom_configs of resellers, credit in GB, the dialog of a reseller | connect, configure, switch and delete a panel, give credit, build, charge and list a config | the panel is awaited between look, charge and listing; a panel is deleted meanwhile | the credit is overdrawn by a race only, nothing is charged that was not built, no listed config loses its panel |
| Reseller bots | reseller_bots, the entries and tasks of BotManager, the list of purges, database files | boot, reconcile, start, stop, suspend, change the token, delete, purge | awaits between test and registration, other processes write the table | the running bots agree with the table in the end, purges are worked off |
| Reseller requests | reseller_requests, the applicant's dialog | apply, quote, pay, review, register the bot, grant, complete, cancel; three front ends | look and write are two transactions, handlers cut short | no credit without receipt and bot |
| Tickets, chat, notifier | tickets, replies, claims, the conversation and its keeper, ids noted | open, claim, answer, close, take over the chat, poll | several administrators, arrivals between two reads | one voice per ticket, no message missed |
| Roles | admins, `_admin_cache` of each process | add, change, remove, check | keyboards and caches out of date | the owner stays, the removed are refused in bounded time |
| Accounts of the web panel | web_admins, setup links, cookies, push subscriptions | set up, sign in, create, demote, switch, delete | old links, owners acting on each other | a panel keeps its owner |
| Server watch | streaks and notices in the task | scan, count, push, restart | failed pushes, threshold changes | an outage is told once |
| Reminders | marks in configs and custom_configs | hourly rounds over both tables | configs sold, released or deleted while the panel is awaited | one reminder per sale |
| Settings screens | the keys of `settings` that depend on each other | dialogs, switches and forms of three front ends | saves of several keys mix | readers can use what is stored |

Without a model: conversation state on its own, backup and restore, temporary
messages and channel posts, catalogue, prices and calendar, HTTP clients of
panels and gateways, keyboards and texts, browser code, world map and IP scan,
force join and push transport, installation scripts. Section 7 says why.
`PROJECT.json` lists every component with its status and every hazard with its
line.

## 2. Modules

```
OrderStore ── OrderHandlers ── OrderProperties ── MCOrders
                    │                └─ INSTANCE AtomicSale
                    └─ OrderProofs
Payments ── PaymentProperties ── MCPayments
                    └─ PaymentProofs
SettingsCache ── Referral ── ReferralProperties ── MCReferral
                                     └─ ReferralProofs
ResellerBots ── MCBots
        └─ BotProofs
ResellerRequests ─┐
PanelServers ─────┤
Support ──────────┤
AdminRoles ───────┼─ MCOffice
PanelAccess ──────┤
ServerWatch ──────┤
Reminders ────────┤
SettingsScreens ──┘

ResellerProofs  about ResellerRequests, PanelServers
AccessProofs    about AdminRoles, PanelAccess
OfficeProofs    about Support, ServerWatch, Reminders, SettingsScreens, and with
                ResellerProofs and AccessProofs about MCOffice
FiniteSums      lemmas about sums and cardinalities, about no component; used by
                OrderProofs, BotProofs, ResellerProofs, OfficeProofs
```

**OrderStore** is the tables of the purchase flow and one operator per
statement or helper of `database.py`: `InsertOrder` (create_order), `Lowest` and
`MarkUsed` (take_unused_configs), `LinkConfigs` (approve_order), `AddCredit`
(add_wallet_credit), `UsesLeft` (is_discount_code_valid), `FinalPrice`. The rows
of the configs table are one bank product.

**OrderHandlers** is the requests. A handler has a program counter; each value
is the next transaction or await of `cb_buy_start`, `api_create_order`,
`api_create_custom_config`, `cb_order_approve`, `api_approve_order`,
`reject_order`, `cb_cancel_flow`. `Ready` says that the handler's event loop
(only in `Looped` processes) and the lock of its `Database` are free.
`SelectConfigs` takes the lock and `MarkConfigs` gives it back: these are the two
halves of `take_unused_configs`. `Interrupt` ends a request anywhere: a crash, or
an exception such as "database is locked" that the error handler swallows. What
the request had in its hands is recorded in history variables (`forfeited`,
`burnt`, `stranded`, `halted`), so that properties can say *exactly* what an
interruption costs.

**AtomicSale** is the abstract specification of the bank: a sale takes all
configs of an order in one step, and only free ones. `OrderProperties` states
the refinement (`SaleIsAtomic`).

**Payments** is the life of an invoice at a gateway (`remote`), in its table
(`row`) and in the requests that look at it: AbanGateway, whose invoices are
asked for and *verified once* (`abangateway_payment.try_verify_and_finalize`),
Plisio, which calls back with a status, and the gateways an admin defines
(webhook and return page). `seen` is the row a request read before its await.
`Finalize ... OrderApproved` are `finalize_paid_topup`, `finalize_paid_order`
and their copies in the webhooks; `TopupApproved` and `TopupCredited` are two of
the three transactions of `approve_topup`.

**SettingsCache** is one `Database` object: lock, copy of the settings, loads in
two steps (`Select`, `Store`), the write of `set_setting` into the copy outside
the lock (`InPlace`), expiry, other processes.

**Referral** adds the users table and the threads that reward:
`TakeReward ... PayCommission` is `reward_referrer_if_first_purchase`,
`StartInvite ... Freebie` is `cmd_start` with `apply_referral_invite_rewards`.
`Commission` and `InviteGifts` read settings with the lock held, and so are
enabled only if the copy is fresh.

**ResellerBots** is the table `reseller_bots` and the `BotManager`. The loop of
`reconcile_resellers_loop` lists the rows once (`ListRows`), starts what is
missing, refreshes menu buttons, stops what is gone and purges files; each of
these awaits Telegram, so each is a queue worked off by steps (`StartNext` and
`StartDone`, `MenuNext` and `MenuDone`, ...) between which handlers of
administrators (`BotAdds`, `BotToggles`, `BotStopsDeleted`, ...) and the web
front ends (`Web...`) act. A start may raise (`StartFails`,
`BootFails`, `BotStartFails`): `main` goes on, a round is over (`Broken`) and the next
one begins with the table. `wait_all` waits for the tasks it captured and
removes their entries. `Crash` empties the manager and leaves table, files and
purges. `MCBots` gives the two tokens their names.

**ResellerRequests** is one handler after the other of `clerk`: `does` names the
call that comes next (`receipt`, `decide`, `register`, `grant`, `complete`).
Approving and rejecting first read the row and write the status later. `granted`
counts grants; `sold` notes for which request a bot was registered.

**PanelServers** is the panels and what is built on them. A `job` is a handler of
one of three front ends; `pc` is its next await or transaction from the look at
the credit through `build`, `charge` and `list`, or the count and deletion of a
panel. `ahead` counts what is built and not yet charged, charged and not listed;
`raced` notes a deduction while a purchase relies on the credit it has read.

**Support** is tickets (`TicketsNext`), the chat of one user (`ChatNext`) and the
notifier (`NotifierNext`), which share tables and no step. **AdminRoles** is the
admins table and the cache of bot and mini app; a check is a thread with its
reload in two halves. **PanelAccess** is accounts, links, cookies and requests of
a reseller's web panel. **ServerWatch** is the supervised scanning task with its
local variables. **Reminders** is the hourly round; `told` counts codes sent since
the row was sold. **SettingsScreens** is twelve screens; of each value only its
class is kept, and a save is a list of keys still to be written.

**MCOffice** puts these eight modules into one run. They share no variable, and no
property relates two of them; an interleaving of their steps reaches only
combinations of their states. So a behaviour picks one `part` and leaves the rest
alone: every invariant and every action property is decided by the parts one by
one, and the states add up instead of multiplying.

Properties are in the `...Properties` modules or at the end of a component's
module, instances in the `MC...` modules and `.cfg` files. Operators with
"Mutant" in their comment are plausible bugs; `PROJECT.json` pairs each with the
property that notices it.

## 3. Runs

| Run | Instance | Shows |
|---|---|---|
| `orders_processes` | a bot and a mini app request at a time, one bank config, one custom product, a code with one use, one panel that takes a name once and one that does not mind, one interruption | `TypeOK`; only an interruption loses money or code uses (`NothingLost` = `NoMoneyLost` and `NoCodeUseLost`) or stock (`NoStrandedConfig`); rejected orders are refunded (`RejectedRefunded`); what a panel makes is built before its order counts as done, and built twice only for an order whose verdict was under way, never on a panel that takes a name once (`BuildsAreKnown`); credit is given away in three ways only (`GiftsAreKnown`) |
| `orders_database` | two bot requests on one `Database`, three configs, quantities up to two, the admin adds and deletes configs and adjusts a wallet | the refinement `SaleIsAtomic`: within one `Database` a sale is as good as one step, so no config is sold twice |
| `orders_loop` | two mini app requests, three orders, bank and automatic products, fairness | where the loop keeps requests apart, books are exact (`ExactLedger`), the code limit holds (`CodeCap`), what is delivered is listed, or its listing failed (`DeliveredIsListed` = `HandedIsListed` and `BuiltIsListed`) and orders are decided once (`DecidedOnce`); `RequestsEnd` |
| `orders_unique` (violation) | bot and web panel approve at once | section 5 |
| `orders_refund` (violation) | a covered custom config fails in the mini app | section 5 |
| `payments_credit` | a top-up, two invoices of an own gateway with a verify request, two mini app and one bot request, one approval by hand | `CreditsAreBacked` with every race of webhook, return page and review |
| `payments_gateways` | a top-up, an automatic and a bank order, one invoice of any gateway, one lost answer or interruption, fairness | `GrantedOnce`, `GivesWhatIsDue` (= `ApprovedIsCredited` and `NothingForFree`), `CompletedStays`; `PaidIsSettled` |
| `payments_custom` (violation) | a custom config paid through AbanGateway | section 5 |
| `referral` | two threads, an inviter, two guests, limit 1, threshold 1, one change of a setting, one interruption, fairness | `CommissionExact`, `CommissionCap`, `FreeConfigOnce`; the copy `Converges`; `CallsEnd` unless a thread waits for itself |
| `referral_reads` (violation) | the same, bonus on | section 5 |
| `bots` | two tokens, two rows, one change of the table, one task that ends, one restart or one failed start of the main bot, any number of starts and rounds that fail, one administrator inside the bot next to loop and web front ends, fairness | once rounds are completed again: `BotsConverge`, `PurgesSettle`; a polling task gets out of the manager's hands in one way only (`StraysAreKnown`) |
| `office` | one part at a time, each with two handlers that overlap: two requests and seven handlers, two panels and two jobs, two tickets, answers and messages, three administrators and one of the web, two accounts and links, a notifier restarted at will, two scanned servers, two hitches, three saves of the screens with a switch and two of the others | type correctness; `GrantsAreBacked`; `ListedHasServer`, `ChargeFollowsBuild`, `NoOverdraftAlone`, `NoConfigLost`; `OneVoice`, `NoneMissed`; `OwnerStays`, `RemovedIsForgotten`; `FoundersStay`; `OutageToldOnce`; `RemindedOnce`; `StoredIsReadable`, `SwitchesAreBacked` |

Why these bounds are enough to be interesting: two requests are the smallest
number that race; with two orders and one config stock runs out; a code with one
use has its limit reached; two guests and a limit of one make the second
commission the one too many; one interruption separates every pair of
transactions in turn. Seven handlers are a whole request, from application to
completion, with one to spare, so that a step is repeated or a second reviewer
comes in. Two rows of `reseller_bots` and two tokens let one bot be deleted and
its token registered again while the other runs. Two scans in a row reach the
threshold of two. `CHECK_DEADLOCK FALSE` is set everywhere: a shop with its
order ids, invoices or changes used up and no request running may stop.

## 4. Proofs

| Theorem | Says, for all constants |
|---|---|
| **OrderProofs** | |
| `TypeCorrect` | `[]TypeOK`: wallets and use counts never go below zero |
| `BooksKeep` | `[]NothingLost`: credit and code uses are in a table, in a request's hands, or were in those of an interrupted one |
| `OnlyTheseGifts` | `GiftsAreKnown`: no step makes more of a user's credit, except a deduction from a wallet another purchase emptied, a verdict on a rejected order, and the second refund of a custom config |
| `RejectionRefunds` | a rejected order paid from the wallet is refunded, or its rejection was interrupted |
| `ApprovedWasBuilt` | `BuildsAreKnown`: an approved panel order was built, is being built or was interrupted there; what is built twice had its verdict under way, and is no custom config where names are taken once |
| `SoldOnce` | one `Database` object sells a config to one order |
| `StockNotWasted` | a used config was handed over, is about to be, or was held by an interrupted request |
| `OneDatabaseSellsAtomically`, `OneDatabaseSellsForGood` | under `OneDatabase`: OrderHandlers implements AtomicSale, and what is sold stays sold |
| `WhatIsDeliveredIsListed` | under `OneDatabase` and `BotOrMini`: what is delivered is listed to its buyer, or its listing failed |
| `VerdictsStand` | under `MiniOnly`: an order is decided once |
| `CodeCapHolds` | under `OnOneLoop`: the code is used `MaxUses` times at most |
| `BooksAreExact` | under `OnOneLoop` and `NoGifts`: the books are exact |
| **PaymentProofs** | |
| `OnceGranted` | an AbanGateway or Plisio invoice counts as newly paid once, and only when paid |
| `NeverReopened` | no step reopens a completed Plisio invoice |
| `GivenAsDue` | an approved top-up is credited or was interrupted on the way, and nothing is delivered that was not paid or approved |
| `NoCreditUnbacked` | a top-up is credited once at most for each paid invoice and each approval |
| **ReferralProofs** | |
| `PaidExactly` | a first purchase is paid for once, or the paying thread was interrupted |
| `CappedAlways` | commissions stay within the largest limit |
| `OneFreeConfig` | the free config is given once |
| **BotProofs** | |
| `BotsTyped` | `[]BotsTypeOK`: ids and tokens are unique, who starts or stops a bot has its row, no counter of tasks goes below zero |
| `OnlyOverlapsStray` | `StraysAreKnown`: only two callers of `start_bot` that overlap on a token leave a task that its entry does not know |
| `AloneNoStrays` | with no administrator at work inside the bot, there is no such task |
| **ResellerProofs** | |
| `RequestsTyped`, `PanelsTyped` | the types of the two modules, with the bounds: grants and handlers entitled to one are no more than the calls begun; a listed config carries the number of a job that was begun |
| `GrantsAreBackedAlways` | a grant of credit has a bot of its own and a receipt, and what is completed was granted |
| `ListedIsKnown` | no listed config is left behind by the deletion of its panel |
| `OverdrawnByRace` | the credit goes below zero only by a race or a correction |
| `LossIsForced` | a panel takes its configs along only when the force button was pressed |
| `PaysForWhatExists` | no more is charged than was built, no more listed than charged |
| **AccessProofs** | |
| `RolesTyped`, `AccessTyped` | the types: no more invalidations are due than there were writes; sessions and push subscriptions are of accounts that were made |
| `ChiefStays` | no dialog removes the owner of a bot or changes his role |
| `RemovedAreForgotten` | the removed are refused in bounded time, also by the process whose cache nobody invalidates |
| `OwnerIsKept` | the owner of a reseller's panel stays an active owner, and a link opened once there is one makes no other |
| **OfficeProofs** | |
| `SupportTyped`, `SettingsTyped` | the types: nothing unstored waits for a keeper, no answer is to a ticket that does not exist; a save writes no key of another screen |
| `OneVoiceAlways`, `NoneIsMissed` | one administrator of the mini app answers a ticket; no message is skipped but by a restart of the notifier |
| `OutagesToldOnce`, `RemindsOnce` | an outage is told once, a buyer reminded once |
| `StoredStaysReadable`, `SwitchesStayBacked` | what is stored can be read, unless the page of settings posted it; what is switched on has what it needs, whatever dialogs and switches overlap |
| `OfficeTyped` | `[]OfficeTypeOK`: whichever part works, its state stays of its type |
| `OfficeIsItsParts` | the composition implements each of the eight parts |
| `OfficeIsSafe` | all properties of the run `office`, of the composition itself |

`FiniteSums` holds the lemmas the counting proofs cite: a sum over a finite set does
not depend on the order in which the community modules' fold takes the elements, so it
changes with one term by what that term changes (`SumChange`); likewise for the number
of elements with some trait (`CountChange`). The prover cannot use the library's
induction theorems. The sums are therefore treated by a least counterexample: of the
sets on which the law fails one has the smallest cardinality (`SmallestOne`, from the
well-foundedness of the naturals), and taking an element away gives a smaller one.

**Orders.** `TypeOK` is not inductive alone: a handler in the middle of a request
must carry an order or a request (`Carries`), so the invariant is
`TypeInv == TypeOK /\ Carries`. `SoldOnce` needs two more facts: a handler between
SELECT and commit holds the lock of its instance (`LockInv`), and a config that is
still free, or that is selected by such a handler, was not marked by that instance
for another order (`UnsoldInv`). Their conjunction with the property is `SaleInv`.
For the refinement, one instance means one handler between SELECT and UPDATE, so
the rows it selected are still free unless it is the one to mark them
(`SelectedFree`); every step then maps to Sell, Add, Remove or a stutter.
`StrandedStep` and `RefundStep` show two other properties inductive together
with `TypeInv`. `ApprovedWasBuilt` rests on `HandlerOK`: whoever approves what a panel
makes has built it, except the bot's buyer of a custom config, who approves first and
builds afterwards; and on `BuiltIsDue`: what was built has its verdict, or a request that
is about to write it, or one that was interrupted there.

*The books.* `BooksKeep` needs no hypothesis: every interleaving of the three processes
is allowed. What a handler holds for a user (`InFlight`) and what the live orders hold
(`Spent`) are sums, and each step moves an amount from one place to another; a handler
past the entry of a code was asked for one (`CodeAsked`). A race can only add credit, by the clamp at
zero, so the inequality is what holds everywhere. The equality, `BooksAreExact`, holds
where it is meant to hold: while a request of the mini app is between two calls, all
others are idle or wait for a panel (lemma `Alone`), so the wallet still covers what was
read (`Affords`). `NoGifts` leaves out the two ways in which credit is given away by the
code: the double refund of a custom config (section 5), and an admin who takes
credit back, from another process, after a purchase has read the wallet, which then is
clamped at zero.

*Gifts.* `OnlyTheseGifts` is the complement for all processes: it names the steps that
are not exact. Every other step moves an amount between wallet, order and hands without
changing the sum (`InexactSteps`), and the second refund of a bank or automatic order is
never reached (`AgainStep`). "Leaves its label" (`pc'[h] # pc[h]`) ties the gift to
the handler that gives it.

*Verdicts and the code.* `VerdictInv` says why the mini app decides once: a buyer
fulfils or rejects a covered order that is pending and his own (`OwnOrders`), gateways
approve orders that are not covered, and nobody rejects those. `CapInv` adds that a
purchase about to use the code is alone since its look at `used_count`, and that this
count is exactly the uses held. With bot and web panel both are false (section 5).

*Delivery.* `ListInv`: the rows a request approves are the ones it marked, and sold rows
keep their buyer (from `OneDatabaseSellsForGood`'s invariant); what a panel built is
listed, or its listing has failed, before the order is approved. `BotOrMini` is needed because the web panel does not
list automatic configs.

These hypotheses are assumptions of the theorems, not of the modules; the runs
`orders_database` (`OneDatabase`, `BotOrMini`) and `orders_loop` (all of them) are
instances that satisfy them, and `orders_unique` and
`orders_refund` show what happens without.

**Payments.** `GrantedOnce` follows from `IInv`. The chain: the gateway answers "ok"
to one verification only; the request that holds this answer is the only one, and
nothing was granted before it (`VerifyInv`); what was granted for AbanGateway is
verified, so no further "ok" comes, and what was granted for Plisio has a row that is
completed or deleted, so its webhook does nothing more (`GrantInv`). A callback
"completed" was sent for a paid invoice (`NoticeInv`). `UnknownInv`, `CreatingInv`,
`WaitingInv` and `IdleInv` say what an unused invoice id, a request that is creating an
invoice, a waiting request and an idle one can look like. `NeverReopened` rests on
`WaitingInv`: a request that waits for an answer never works on a Plisio invoice.
`GivenAsDue` adds `DueInv`: a request that settles something was sent by a paid invoice
or by an admin (`WorkOf`), and both remain (`Kept`: a paid invoice stays paid and keeps
what it is for). So what it delivers is owed, and one that has written the approval
credits the wallet unless it is interrupted (`CreditStays`).
`NoCreditUnbacked` counts (`CreditInv`): the credits of a top-up, with the requests about
to give one, are no more than its paid invoices and approvals. A top-up still pending has
no credit; each request that serves it then has a paid invoice (`OnePerInvoice`) or an
approval (`ReviewsInv`) of its own. Webhook and return page of an admin's own
gateway both run in the mini app, whose loop keeps them apart (`OneOnLoop`).

**Referral.** A thread in the reward transaction holds the lock, so what it has read
there - not rewarded, by whom invited, no free config given - still is true when it
writes (`ThreadOK`). `PaidOnce` has the four forms a commission can have: not due, paid,
lost, or in the hands of exactly one thread. The limit holds as the count is taken in
the transaction that marks.

**Bots.** `BotsInv` says how table, entries, loop and handlers fit together: ids
are fresh, an entry that is alive has a polling task, `wait_all` waits for tasks of
entries, whoever has begun with a row has one. A task is *stray* when its entry is
gone or remembers another (`Strays` = tasks polling less the one known). `StraysStay`: no
step that does not start a bot adds one; a stop ends the task it knows, and the end of a
task marks the entry as ended, `wait_all` removes entries that ended, and a restart ends
all tasks. `StraysStart`: a start adds
one only where an entry is alive already, so another caller of `start_bot` was let in
between the test and the registration. With nobody inside the bot the loop is the only
caller, and what it is about to start does not run yet (`AloneInv`).

**Requests.** Grants of a request are counted against its bots: `BackedInv` says that
the grants, with the handlers between registration and grant, are no more than the
bots registered for it. A handler registers one bot and then is such a handler; it
grants once. `RowInv` and `WorkInv` carry the receipt along: what a handler has
read stays true, since receipts and grants are never taken back.

**Panels.** `ListedIsKnown` is inductive almost by itself: a config is listed only
while its panel is in the table, and a deletion takes the panel's configs along or is
refused by the foreign key. For `OverdrawnByRace`, `ReliedInv` says that unless a deduction has come
between (`raced`), a purchase past its look can still pay. That the default panel is
one of the table (`First`) needs the well-foundedness of the naturals. `LossIsForced` rests
on `ForcedInv`: only a forced deletion goes on after it has counted configs.
`PaysForWhatExists`: `PaidInv` bounds what all handlers together have built and not
charged, charged and not listed, by the two counters; the sums are those of FiniteSums.

**Roles.** `OwnerStays` rests on `SeenInv`: whatever a dialog looks at - table, rows a
reload has read, cache - has the owner in it, so no keyboard that would add him anew
was ever shown. `AgeInv` adds up the delays of a removal: a reload that has read the row
began before it (`ReadInv`), a cache that is not stale is at most its age behind such a
reload (`CopyInv`), and a check looks at a cache that was not stale when the check began,
or that it loaded itself (`LookInv`).

**Accounts.** `LateInv`: a request that opened its link when there was an owner still
finds one when it counts, as owners are never removed, and so never makes another.

**Support.** Handlers of the mini app answer one at a time (`AloneInv`). A ticket answered
there is claimed by the one who answered, by the owner or in the web panel, and whoever
is about to answer there finds no answer of another (`VoiceInv`). For the notifier, the
id in hand is never newer than the newest message (`NotesInv`), so all messages up to it
are among those read next; a start notes the newest one and counts what lies between as
skipped.

**Watch and reminders.** `WatchInv` ties what the task remembers to what was told last. `SentInv`:
a code that was sent is marked, or its row is the one in the hands of the round, and no
row the round still has to look at was reminded; the rows a round lists are unmarked.
Interruptions between message and mark are excused (section 6).

**Settings.** `StoredInv` keeps the table and every key still to be written readable.
`WholeInv`: a form that runs alone leaves its screen whole, and while none runs every
single key still to be written keeps the screen backed, whatever is written before it.

**Types of the office.** A type is inductive only with what bounds its counters.
`BoundsInv`: the grants of a request, with the handlers that may still give it one
(`DueTo`), are no more than the calls begun, since a handler grants once. The
panels count jobs by number, and a config carries the number of a job begun.
`LimitsInv` bounds tickets, answers and messages, `CapsInv` the ages of caches and checks
and the invalidations, `StreaksInv` the failures counted, `CodesInv` the codes told;
`KeysInv` keeps every key written within the screen that is saved. In `MCOffice` a step of one part leaves the variables of the
seven others as they are (`PartsStep`), so it is a step or a stutter of each of the eight
(`OfficeIsItsParts`), and what holds of a part alone holds of the composition
(`OfficeIsSafe`).

Each step lemma has one case per action. TLC checked the invariants of the chains on
small instances before they were proved. The assumptions are those of the modules, and
the code justifies them: bounds and times are naturals; `MaxServers` and
`MaxStreak` are at least one, as one panel is connected at the start and a threshold is
at least one scan; orders, invoices, users and
handlers are finite sets (counting needs it, and a database file and a process have
finitely many); ids that stand for "nobody" are not ids of somebody; web and Telegram
accounts differ; a setting starts with one of its values. No theorem bounds the number
of handlers, orders or interruptions.

**Model-checked only.** Liveness (`RequestsEnd`, `PaidIsSettled`, `CallsEnd`,
`Converges`, `BotsConverge`, `PurgesSettle`): fairness and ENABLED are beyond the
prover, as are RECURSIVE operators and induction over data, which no module with
theorems uses. The violations are found by TLC. Every other property of a passing run
is a theorem.

## 5. Where the code disagrees with what it says

- **A config for two buyers** (`orders_unique`). README.md:44 promises a unique
  config per user. `take_unused_configs` selects free rows and marks them by id
  without testing `is_used` again; bot and web panel can select the same row.
- **A refund given twice** (`orders_refund`). When a fully covered custom config
  fails in the mini app, `reject_order` refunds, and the caller refunds again
  (miniapp/server.py:608-610).
- **"Delivered" but not** (`payments_custom`). For a custom config the AbanGateway
  webhook uses up the verification and leaves the building to the check button,
  which then hears `already_delivered`.
- **A lock taken twice** (`referral_reads`). `get_setting` is said to end after a
  wait at most; called inside `reward_referrer_if_first_purchase` or
  `apply_referral_invite_rewards` with an expired copy, its thread waits for the
  lock it holds, and so does everybody after it.

Other behaviour met on the way has no run; the hazards of `PROJECT.json` name the
lines where there is one.

*Orders and payments.* Two purchases that overlap count the same credit twice (the
deduction is clamped at zero). Bot and web panel together can decide an order
twice, and exceed `max_uses`. A second approval builds a custom config again on
Hiddify, whose client makes a new UUID for every call and refuses no name
(`BuildsAreKnown` says when). The web panel does not list automatic configs to
their buyers; where they are listed, an exception of `add_custom_config` is passed over
and the order approved all the same (direct_panel_provision.py:76-83). Units built
before one that fails stay on the panel; nothing records them, and the error does not
name them as the docstring says (lines 30-31). A custom gateway's webhook and return page can build an automatic
order twice. Two /start messages of one user pay the invitation bonus twice.

*Bots.* `start_bot` may raise (`init_db`, `Bot(token)`), and only the handler around the
whole round catches it (bot_manager.py:315-317, 374-375): while one bot fails to start in
every round, the active bots after it are not started, and none is stopped or
purged. `BotsConverge` and `PurgesSettle` therefore assume that rounds are completed from
some time on. A main bot that fails to start stays down until the process is restarted.
`wait_all` waits for the tasks it captured at its start: a task started
since is noticed only in the next turn, later than the comment at
bot_manager.py:268 suggests. Two callers of `start_bot` (docstring lines 125-126)
may each create a polling task; the entry remembers one, nothing stops the other
(`StraysAreKnown`: this overlap is the only way to such a task).
A purge on the list survives a new registration of the same token and waits
for its next deletion. After the panel has changed the
token of a row, its old token can be registered anew: two rows then share the database
file that is named after the username. A wrong `miniapp_tenant_id` may stay for good. Deleting a
bot inside the bot races with the loop, which may create the file again.

*Requests and panels.* Writes of a status do not look at the row again: a request
can be granted twice, each time with a bot and a receipt. A deduction of credit
is not clamped, and two purchases that overlap overdraw it. Builds that break off
half-way, or whose answer is lost, stay uncharged. A new panel is active before it is
configured. Units a reseller's bot builds automatically are listed in its own file
with the panel id of the main file: the foreign key refuses them (database.py:295
and 652), the error is swallowed and they are never listed. The mini app's deletion
of a panel with dependents ends in an unhandled `ValueError` (2646-2654).

*Support and accounts.* A message of the user gives a conversation that a web
administrator holds to someone else; the web panel looks at no ticket claim. The
notifier starts at the newest id there is (admin_panel/server.py:163), and is stopped and
started by the supervisor: what comes meanwhile is never told of. It
tells twice of a message that arrives between its two reads, and never of a
ticket that is answered within one round. Two setup requests at once make two owners
(admin_panel/server.py:477-504). `is_admin` fails on a cache that is invalidated
between its reload and its look; nobody is let in. The watch repeats a push that
failed half-way and forgets outages when it restarts.

*Reminders and settings.* renewal_reminders.py:181 marks with the function for bank
rows whatever table the row is of, against the docstring (line 8): volume reminders
of configs built on a panel repeat. `isdigit` lets "²" into two limits of Referral, and
`nan` passes for gigabytes. The web panel writes `stock_alert_threshold`, which nobody
reads. The mini app stores a least amount above the greatest one. Two switches at once
can leave both menus off, and a form next to another save can leave a free config without
product or a required channel without name. The page of settings of the web panel posts its fields
one by one to `POST /api/settings`, which checks nothing (static/app.js:4860-4877,
server.py:2134-2138): a text as a limit makes `get_custom_config_settings` fail, and a
card number and a holder can be of two cards.

## 6. Abstractions, bounds and fairness

**Orders.** One product of each kind, at one price. Reads that only display are
left out; `get_product` and `get_order` belong to the step that uses them. The units
of an order are built in one step and listed in another, which may fail; a build that
fails half-way counts as failed. Whether a panel takes a name once (`OnceNamed`) is a
constant. The referral reward, low-stock alert, admin log
and notices after an approval are left out. `release_config` and
`take_unused_config` have no callers. An administrator who takes a random config for
himself (`admin_take_random_config`, database.py:1741) is left out: it marks
one config for no order, with the same two statements, and the properties speak of the
configs it leaves. Bounds: `MaxQty`, `MaxCredit`, `MaxFailures`
and the sets of ids.

**Payments.** Top-ups and orders are pending at the start. The code always treats
the row values "new" and "pending" alike: both are `open`. Every outcome of Plisio
other than paid or pending is `failed`. Configs of the bank are taken and handed
over in one step (OrderHandlers has the two). Expiry and deletion of rows happen
at any time; the purge of old rows is a deletion. Bounds: `MaxVerdicts`,
`MaxFailures`.

**Referral.** One process; other processes write settings only. The commission's
mark and count are one transaction of one object: two processes could still both
pay (the SELECT-then-UPDATE gap of section 1). Guests already have a row when
/start continues. `referral_free_config_enabled` and a product are part of
`threshold`, `referral_invite_bonus_enabled` of `bonus` (0 for off). In `referral`
the bonus is off, for no property is about it. Bounds: `MaxChanges`, `MaxFailures`.

**ResellerBots.** A registration that finds its name free, and the deletion of a row
with its entry in the list of purges, are one step each (the code has two
transactions for the latter). Database files are the set of names. Telegram's refusal
of a token is a choice, and so is every start that raises, between its first and its last
await; one that raises before the first has changed no more. A round also breaks where a file
cannot be removed or the purges cannot be listed. Errors that are passed over (the tenant
id, a menu button) are left out: no property is about them. Bounds: `MaxRows`, `MaxChanges`, `MaxMishaps`.

**Requests, panels, reseller.** One applicant and one reseller in the instances;
prices and months are left out; a config is a number of gigabytes, and an automatic
sale has up to two units. What the panel answers - built, refused, built but the answer
lost - is a choice. Handlers of requests are cut short anywhere. Bounds: `MaxRequests`, `MaxCalls`, `MaxServers`, `MaxJobs`,
`MaxCredit`, `MaxOrders`.

**Support, roles, accounts.** The notifier stops and starts at any time: the supervisor
cancels it, or the process ends. One user writes in the chat. Texts, attachments and
broadcasts are left out. A cookie is a member of a set: forging one is no subject
here. The age of an admin cache is counted in ticks and a check is finished within
`MaxCheckTime` of them, as a check has no await of its own. Bounds: `MaxTickets`,
`MaxAnswers`, `MaxMessages`, `MaxRoleWrites`, `MaxAccounts`, `MaxLinks`.

**Watch, reminders, settings.** The answer of a scan and of a panel is a choice.
`MaxStreak` stands for the largest threshold. A reminder that was sent and not marked
because of an error or a crash excuses its repetition. Keys no other key's check refers
to are left out of the screens. Bounds: `MaxMisfortunes`, `MaxHitches`, and `MaxSaves` for each screen: where switches and forms
meet it takes three saves for two of them to overlap after a first one has changed the
screen.

**Fairness.** `SF_vars(Step(h))`: a request that can go on again and again does. An
event loop takes its tasks in turn, the thread pool and the lock starve nobody,
and calls to panels and gateways have time-outs. Strong fairness is needed as the
lock and the loop are taken and freed by others in between. In Payments, moreover,
the buyer of a paid invoice keeps pressing the check button, and Plisio repeats a
callback until the mini app was free to hear it; lost answers are finitely many. In
Referral the settings are loaded again and again, by the refresh loop of the bot or
by the filters that read them for every message. No request is obliged to start.
`BotsFairness` is weak: the loop, `wait_all` and the handlers of administrators are
coroutines, and nothing but themselves disables their next step for good; calls to
Telegram end. A web front end that has created a row also writes its tenant id. Nobody is
obliged to change the table. `office` checks safety only and assumes no fairness.

## 7. Plan and limits

Left to do, most useful first:

| Subject | What |
|---|---|
| Bots | three tokens or two administrators at once in TLC (the state space of `bots` is the largest; the theorems hold for any number) |
| Payments | the receipt flow of a manual top-up |
| Panels | renewal and deletion of single users on a panel |
| Support | broadcasts |

**Not modelled**, with the reason:

- *Backup and restore.* The file is replaced under open connections and nothing in
  the code tells anybody; there is no promise it tries to keep.
- *Conversation state.* A key-value store with one row per chat. It is modelled with
  its clients: the purchase in OrderHandlers, the application in ResellerRequests, the
  dialog of a reseller in PanelServers.
- *Temporary messages, channel posts.* Due rows are popped in one transaction; there is
  no second actor.
- *Catalogue, prices, calendar, exchange rate.* Arithmetic and single statements, which
  unit tests reach. The same holds for the limits of trial configs and the wheel of
  fortune, whose check and mark race like the pairs modelled in OrderHandlers.
- *Clients of panels and gateways.* Outside services; their answers are choices.
- *Keyboards, texts, browser code, world map, IP scan.* No shared state.
- *Force join, blocked users, push transport.* Wrappers over one call.
- *Hashes, signatures, cookies.* Computations on strings.
- *Installation scripts.* Run once by an operator.
