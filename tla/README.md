# AI API Toll Booth: specifications, model checking and proofs

This directory specifies the parts of the toll booth that decide who pays what and who
gets access. The TLA+ modules are translated from the source; TLC checks them on small
instances and TLAPS proves the central theorems for all instances.

## The system

| component | state | operations | talks to |
|---|---|---|---|
| **Payment gateway** (`apps/api/src`: `app.controller`, `payment/*`, `receipt-registry`) | per process: the challenges `Map`, the verifier's `usedTransactions`, the registry's `receipts`; shared: `PaymentChallenge` and `PaymentReceipt` rows | `GET /api/protected` (receipt check, quote, 402), `POST /api/payments/verify` (get, verify, consume, record) | PostgreSQL, Horizon, catalogue, settings |
| **Catalogue** (`catalog/*`) | products and plans in PostgreSQL | `list`, `activity`, `bySlug`, all reads | gateway, web |
| **Wallet authentication** (`auth/*`) | per process: challenges `Map`; shared: `WalletIdentity`, `AuthChallenge`, `UserSession` rows | `issue`, `verify` | PostgreSQL, the wallet |
| **Stellar settings** (`config/stellar.config.ts`, web `stellar-network.ts`) | read once per process or build | `readStellarSettings`, `stellarProfile` | gateway, authentication, web |
| **Seed** (`apps/api/scripts/seed.js`) | none; rewrites products at every deploy | upserts, one after another | PostgreSQL |
| **Soroban registry** (`contracts/api_marketplace_registry`) | platform config (instance), providers and APIs (persistent), each with a time to live | initialize, register, update, pause, upgrade | web client, Soroban |
| **Web client** (`apps/web`: `api-console`, `stellar-payment`) | per click: quote, transaction, receipt, all lost by a reload; the browser keeps a wallet address | request, pay, verify, retry | gateway, wallet, Horizon |
| **Site pages** (`apps/web`: `catalog-list`, `product-detail`, `recent-activity`, `lib/catalog`) | what a component shows and the request it waits for | open, follow a link, render an answer | catalogue |
| **Agent client** (`apps/agent-client`) | none | request, pay, retry | gateway |
| Wallet button, provider registration, bindings, bootstrap, headers, CI, migrations, tables no code uses | | | |

How a paid call goes: the client asks for `/api/protected`; the gateway prices the product
from its cheapest published plan, remembers a challenge, stores it and answers 402; the
client pays on the ledger and submits the transaction hash; the gateway looks the
challenge up, asks Horizon, compares the payment, consumes the challenge and inserts the
receipt in one transaction; the client asks again with the hash as its receipt.

### What is hard, and what makes each component correct

* **Gateway.** Every handler awaits the database or Horizon several times, handlers of one
  process interleave at each await, and several processes (a rolling deploy, replicas)
  share the tables but not their memory. A memory is lost at a restart, possibly with new
  settings. The check on `usedTransactions` and the insertion into it have an await
  between them. A commit may succeed while its answer is lost. Correct means: a payment
  buys one challenge and a challenge is bought once; a receipt stands for a settled
  payment of exactly the quoted terms; a quote is honoured by every process; memory is
  never ahead of the database; access, once given by right, stays.
* **Authentication.** A challenge is marked used in memory before the database transaction,
  and processes race on the row. Correct means at most one session per challenge, for the
  wallet that signed, before the deadline.
* **Registry.** Sequential, but its storage expires entry by entry. Correct means: one
  owner per API for ever, prices within bounds, nothing changes while paused except the
  pause, rejected calls leave no trace.
* **Clients.** A payment may settle although the submission got no hash; a challenge may
  expire while its payment is under way; two clicks in one second build one transaction
  for two quotes; a reload forgets a payment that was made; the gateway may have moved to
  another network than the build's. Correct means: what is paid is exactly what was quoted;
  the gateway refuses no payment whose quote lives; a client whose payment is confirmed
  gets its answer; no server that went away leaves a purchase waiting.
* **Pages.** Answers arrive late and in any order, while operators and the seed write and
  the API restarts with other settings. Correct means: a page shows, and its console buys,
  the product of its address, at the price the gateway asks, and the seed takes nothing off
  sale.
* **Amounts.** Integers as text, compared in two places, written with seven decimals and
  read back; all must agree.

`PROJECT.json` lists every hazard at its line with the properties that would catch it.

## Modules

| module | contents | source |
|---|---|---|
| `ReceiptBook` | the promise: offers, settled payments, receipts, access; no processes, clock or failures | - |
| `PaymentGateway` | the gateway over several processes | `apps/api/src/app.controller.ts`, `payment/*`, `receipt-registry.ts`, `catalog.service.ts` (`bySlug`) |
| `MCPaymentGateway` | small instances for TLC | - |
| `PaymentGatewayProofs` | its theorems and their proofs | - |
| `SignIn` | the promise of signing in: messages shown, signed, and one session for each | - |
| `WalletAuth` | signing in, over several processes | `apps/api/src/auth/*`, `components/wallet-button.tsx` (`Sign`) |
| `MCWalletAuth` | small instances for TLC | - |
| `WalletAuthProofs` | its theorems and their proofs | - |
| `Accumulate` | going through a sequence once with a value: a reader of events, a reader of digits | - |
| `AccumulateProofs` | what that computes, for every sequence | - |
| `MarketplaceRegistry` | the Soroban contract and the lifetimes of its entries | `contracts/api_marketplace_registry/src/lib.rs` |
| `MCMarketplaceRegistry` | small instances for TLC | - |
| `MarketplaceRegistryProofs` | its theorems and their proofs | - |
| `Purchases` | the promise of buying: offers, orders, payments, redeemed orders, answers | - |
| `Checkout` | buying a call, from the console and from the agent; extends `PaymentGateway` | `apps/web/components/api-console.tsx`, `lib/stellar-payment.ts`, `lib/stellar-network.ts` (`BuildNetwork`), `apps/agent-client/src` |
| `MCCheckout` | a small instance for TLC | - |
| `CheckoutProofs` | its theorems and their proofs | - |
| `CheckoutRefinement` | the proof that it implements `Purchases` and keeps `ReceiptBook` | - |
| `Amounts` | amounts as text: digits, decimals, reading back | web `lib/catalog.ts`, `payment-verifier.service.ts` |
| `AmountsProofs` | the round trip through text, for every amount | - |
| `Storefront` | the site's pages, the catalogue API, its tables, the settings, the seed; extends `Amounts` | `apps/web/lib/catalog.ts`, `components/*`, `apps/api/src/catalog/*`, `config/stellar.config.ts`, `scripts/seed.js` |
| `MCStorefront` | a small instance for TLC | - |
| `StorefrontProofs` | its theorems and their proofs | - |

Definitions whose comment begins "A slip of" are wrong variants of the definition they
name. No specification uses them: each is there to show that a property would notice.

### PaymentGateway

State. `catalog`, `rows` and `receipts` are the PostgreSQL tables (`rows[c].consumedAt` is
`None` exactly when the status is `PENDING`, since the only update sets both). `cached`,
`usedTx`, `known` and `settings` are a process's memory. `handler[r]` is a request in
flight: the await it is at, the process that runs it and what it carries over the await.
`ledger` is Stellar. `quoted` and `granted` record what answers told clients.

Actions. One action is the answer of an awaited call and the code up to the next await:

| action | code |
|---|---|
| `Request`, `FindReceipt` | `protectedApi` to the receipt check; `ReceiptRegistry.has` |
| `Issue`, `Refuse` | `bySlug`, `entryPlan`, the id, deadline and Map entry of `issue`; or 400 |
| `CheckPlan`, `CreateRow`, `Reply402` | the second plan check, the insert, the 402 answer |
| `Submit` | `get`, and the verifier's checks before Horizon |
| `Verify` | Horizon's answer, the comparisons, `usedTransactions.add` |
| `Consume`, `Commit`, `Record` | `consume`: second `get`, the transaction, the updates of memory |
| `Throws`, `Unacked` | an awaited call rejects; a write is done but its answer, or ours, is lost |
| `Restart`, `Tick`, `Publish`, `Settle` | crash or redeploy; clock; an operator or `seed.js`; the ledger |

A database read and the code after it are one step although the code runs later. This
loses nothing: what that code checks (not expired, not used, not yet verified by this
process) can only turn from true to false within a life of the process, so a step that
passes late would also have passed at the time of the read; payments and receipts never
vanish. A refused submission changes nothing and is a stutter. The transaction is one
step: the conditional update locks the row and the unique columns decide.

Assumed: identifiers never collide; a transaction hash names one transaction, written one
way; clocks of processes agree; the database is serialisable for these two statements;
Horizon answers for the network a process is configured for (`readStellarSettings` rejects
any other). The first payment operation of a transaction is the payment. `consume` without
a database or without a verification result, which only unit tests use, is left out.

### WalletAuth

State. `users`, `rows` and `sessions` are the tables `WalletIdentity`, `AuthChallenge` and
`UserSession` (`sessions[c][w]` counts the sessions opened for `w` with challenge `c`; no
code reads, revokes or expires them). `cached` is a process's `Map`, `handler` a request at
an await, `signed` the messages a wallet's owner signed. A signature is the message it was
made over: it verifies for exactly that message and the address in it.

| action | code |
|---|---|
| `Issue`, `UpsertIdentity`, `CreateRow`, `Deliver` | `issue` up to each await, and its answer |
| `VerifyCached` | `verify` for a challenge in the `Map`: no await before the transaction |
| `VerifyUnknown`, `Find` | `verify` for any other: the lookup, the message rebuilt, the checks |
| `Commit` | the transaction: conditional update, wallet, session; or none of them |
| `Throws`, `Restart`, `Tick`, `Sign` | a rejected call; a restart into any network; clock; wallet |

`SignIn` is what this promises to clients and to the database: `ImplementsSignIn` reads the
delivered messages as those shown and leaves out processes, Maps, rows and the clock.

A refused request is a stutter. Without a database, which only unit tests use, `verify`
ends after `VerifyCached`; that is left out.

### MarketplaceRegistry

State. `config`, `providers` and `apis` are the values under the three kinds of `DataKey`;
`until[k]` is the last ledger the entry can be used in; `events` is what was published;
`signer` is who authorised the last invocation. `wasm` names the code that runs: after
`upgrade_contract` it is other code and the model stops, so deadlock is not checked.

An action is a successful invocation of one entry point (`SetPaused` is the three pause
functions, `SetApiStatus`, `GetApi` and `GetProvider` two each). An invocation that returns
an error or lacks an authorisation is rolled back by the host and is a stutter. `version`
is a constant and `admin`, `payment_asset` and `paused` return a field: left out.

`EventsTell` compares the storage with what a reader of the events makes of them: `Apply`
takes one event into account, and `Accumulate` goes through all of them from `EmptyView`.

Assumed of
Soroban, which is not in this repository: a new entry lives `MinLife` ledgers;
`extend_ttl` acts when at most `Threshold` are left; an entry past its life is archived,
still exists, and makes an invocation that uses it fail until it is restored.

### Checkout

`Checkout` is the composition: it extends `PaymentGateway`, and a step of a client's
request is the gateway's own action, conjoined with what the client does when it hears
the answer. Flow `f` (one run of `call()`, or of `requestPaidApi`) has its request in slot
`f` of `handler`.

State. `flow[f]` is where the client is and what it holds: the call, the quote, the payer,
the transaction. `sequence[a]` is the ledger's number for account `a`; `signed` are the
pairs of a quote and a transaction a wallet signed for it; `bought` the pairs answered
200; `troubled` the quotes whose flow ended without a definite answer: a submission without a
hash, a failed or unanswered call, a reload, a gateway on another network. The last two
are history: no guard reads them.

| action | code |
|---|---|
| `AskFromConsole`, `AskFromAgent` | the first request, without a receipt |
| `Hear402` | 402: the stored wallet address, the asset and network checks of `payChallenge` |
| `ReadAccount`, `Unfunded` | Horizon's answer to `/accounts` and `buildPaymentXdr`; no such account, or a failed call |
| `Sign`, `Decline` | the wallet signs and the transaction is submitted; or it refuses |
| `Apply` | the ledger: numbers in order and once, within the time bounds; a payment may fail |
| `Confirmed`, `Unconfirmed` | Horizon's answer to the submission: a hash; or none, whatever became of the transaction |
| `PostVerify`, `PostRefused`, `HearReceipt` | `/api/payments/verify` and its answer |
| `Retry`, `HearGranted` | the call again with the receipt, and 200 |
| `HearRefusal`, `HearFailure`, `Redeploy` | the gateway refuses; fails or its answer is lost; its process restarts |
| `Reload`, `Elsewhere` | the page or the agent goes away; clock, operators |

Transactions are identified by what they say (`Content`), so two flows that read the same
sequence number in the same second for equal terms build one transaction, as they do in
the code. The stroops become a decimal and are read back (`ToDecimal`, `ToStroops`).

Assumed: Horizon's reads are not stale (an answer with a hash is about a transaction that
settled, and a number read is the account's last); what the verifier is given is the transaction's own
payment (`PaymentOf`); the agent's `signPayment`, which its caller supplies, pays and
verifies as the console does; which wallet the browser's storage holds is any choice of
`Payers`. A flow whose page is gone may still be answered by the gateway: nobody hears it.

`Purchases` is the promise: `ImplementsPurchases` reads a challenge's row as an offer, a
signature as an order, `ledger`, `receipts` and `bought` as what settled, was redeemed and
was answered. An order carries its offer's price, only what was ordered settles, and an
answer to a buyer who paid is for a redeemed order of its own.

### Storefront and Amounts

State. `settings` is what the API started with, `None` when it refused to start;
`products`, `approved` and `receipts` are tables; `seeding` is how many writes the running
seed has done. `tab` is the page in the browser; `fetches[m]` is the request of the m-th view that was
opened, with its answer when there is one. `touched` is history: the catalogue was written
since the view was opened.

| action | code |
|---|---|
| `Visit`, `Follow` | a page is loaded; a link is followed, which may keep the component and what it shows |
| `Serve` | `list`, `bySlug` or `activity` on the tables of that moment, or a failure |
| `Deliver` | the answer in the component's effect, dropped unless its view is still open |
| `Deploy` | `readStellarSettings` on some environment |
| `Write`, `Review`, `Confirm` | operators; a payment confirmed by the gateway |
| `SeedProvider`, `SeedProduct`, `SeedPlan`, `SeedEnds` | the seed's upserts one by one, its end or its death |

Amounts travel as text, so `Amounts` models the conversions by what they do: `Digits` and
`Number` (through `Accumulate`, a digit at a time) for `BigInt` to text and back, padding, `DecimalText` for what is shown and
signed, `AtomicUnits` for what the verifier reads. The entry plan is defined twice, as it
is in the code (`EntryPlans` of the API, `ShownPlans` of the site). Of two cheapest plans
either may come first. A card of the list shows the entry plan (`ProductPrices`), a product's
own page every plan (`DetailPrices`), and `AskedPlans` is what the gateway may ask of the
rows as they are, or nothing when it refuses. Assumed: no two receipts are confirmed at one moment.

## Runs

| run | asks | result |
|---|---|---|
| `gateway_one_payment` | two challenges, one payment, two processes, every fault: the gateway implements `ReceiptBook`, tables and memories agree | holds |
| `gateway_one_challenge` | one challenge, two payments, two processes, every fault | holds |
| `gateway_pricing` | prices, publication, settings and payments vary | holds |
| `gateway_liveness` | progress without failures | holds |
| `gateway_bound_receipt` | `docs/data-flow.md`: a receipt is bound to its request | violated |
| `gateway_late_confirm` | `docs/user-guide.md`: an expired challenge grants nothing | violated |
| `gateway_retry` | `docs/security/security-audit.md`: verification is safe to retry | violated |
| `auth_races` | two challenges, two processes, two wallets, every fault: one session per challenge, and sign-in implements `SignIn` | holds |
| `auth_networks` | processes on one or two networks, two origins, without failures: one message, and progress | holds |
| `registry_calls` | every sequence of calls of two addresses with up to four events, entries expiring and restored in between | holds |
| `checkout_purchases` | a page and an agent buy at once from one wallet, with two quotes and four transactions, from a gateway on the build's network or the other, with failing calls, unclear answers, restarts and reloads: together they implement `Purchases`, what settles pays its quote, the gateway refuses no payment whose quote lives, a confirmed one is served or excused, no purchase hangs on a server | holds |
| `storefront_pages` | two views of one tab while operators write, the seed runs or dies and the API restarts with other settings: no late answer on the wrong page, cards and product pages agree with the gateway, the seed takes nothing off sale, an activity mixes no networks, no page loads for ever | holds |

Bounds of the gateway. Two processes, two requests in flight, two challenges or two
payments: a conflict is between two of each, and the tables see at most one commit at a time. Lifetime 1 and a
clock up to 1 or 2 let a challenge expire at every await. `Challenge` bounds the ids: a
request that finds none fresh is given up (`IdsExhausted`). Processes, requests, challenges
and transactions are symmetric; liveness is run without symmetry.

Bounds of the others. Sign-in has two requests in flight for two challenges, one of them
from each of two processes or both from one; a process restarted into another network is, to
a challenge, another process with an empty `Map`, so `auth_networks` needs no restarts. The
registry has two addresses, each of which may be admin, provider and recipient, and one API
id, which is what two of them can contend for; prices are 0, 1, `MaxPrice` and one more.
`MaxEvents` bounds histories: with four events an API is registered and then repriced,
switched or frozen by a pause. A new entry lives for its ledger and an extension adds one, so
that entries expire within the three ledgers of the run between any two calls.

A purchase has two flows, since two of them contend for a transaction, an account or a
quote; one account with two numbers; one process, because the gateway's own runs cover
several (the theorems below cover any number). It starts on the network of the web build
or on the other, and a restart may change that. The four transactions are those a flow can
build: two numbers, two moments. A transaction may settle for 180 seconds and a challenge
lives 300; both are one tick, so that a payment can settle before, at and after the
deadline of its quote. One unit is 2 stroops and the price is 3, which has a whole part
and a fraction.

The storefront has three slugs, two of them the seed's and one without a page; two views,
the least that can overtake each other; two events behind them, each of which may be a
whole seed. `Base` is 10 and `Places` 2 instead of 7. The written plans cost 120 and 30,
whose order as text is the other one, and -5 and 0, which are the edges of what is sold;
there is one receipt more than `Take` shows.

Fairness. `FairSpec` (gateway and sign-in) asks only that an awaited call is answered (`WF`
of a handler's next step): the database, Horizon and the event loop answer or reject. No client, ledger, clock
or operator is fair, and nothing is asked of a process that restarts. `FairCheckout` asks of
each flow that what it waits for comes (`Awaited`): the gateway or Horizon, for the account
as for the submission, answers or fails, and a client that holds an answer goes on, as the
code after an `await` does. Users, wallets, the ledger and the clock are not fair, so
`FlowsEnd` lets a flow wait for its wallet and for nothing else: a transaction the ledger
never decides is one Horizon answers without a hash.
`FairStorefront` asks that a request is answered or fails, and that the answer reaches the
page.

Deadlock is checked except in `registry_calls` (above) and in `storefront_pages`, where a
tab whose user is idle and a deployment nobody touches have nothing to do.

The three violated properties are statements of the documents; each is listed in
`PROJECT.json` with the line it quotes.

## Proofs

`PaymentGatewayProofs` proves, for any number of processes, requests, challenges,
transactions, products and any settings and faults, that `IInv` is inductive, and from it
type correctness, `NoDoubleSpend`, `ReceiptPaysQuote`, `ConfirmedIffReceipt`,
`MemoryNeverAhead`, `UsedTransactionsPaid`, `GrantsBacked`, `EveryProcessHonoursQuote`,
`AccessNeverRevoked` and that the gateway implements `ReceiptBook`.

The safety properties are not inductive alone. That a receipt pays its quote needs what a
handler knows between Horizon's answer and the commit (`HandlersConsistent`); that a quote
is honoured needs all copies of a challenge to agree (`CopiesAgree`); that a row is created
once needs each identifier to belong to one handler until then (`OwnIdentifiers`). The
proof has a lemma per action; `HandlerKeeps` says what an untouched request keeps and
`HandlerStep` disposes of every step that only moves one request on. Assumptions:
`DataAssumption` (the constants have their types) and `NoneAssumption` (`None` is no value).

`MarketplaceRegistryProofs` proves, for any addresses, APIs, prices and lifetimes, that
`TypeOK /\ ApisSound` is inductive and that every step satisfies `NothingReassigned`,
`ChangesAuthorised`, `PauseFreezes` and `WritesOutlive`. The argument divides the actions:
governing ones touch no provider and no API (`GovernStep`), a provider's touch only its own
profile or its own API (`ProvideStep`, one lemma per entry point), reads and the network
touch only lifetimes (`Changes`). That the events tell the state (`EventsSuffice`) is
inductive because a reader who has read all so far need not begin again
(`AccumulateProofs`, `AfterAppend`): every call that changes the view publishes one event
whose `Apply` is that change, and every other call publishes nothing a reader acts on.
Assumptions: `RegistryAssumption`, of which
`Threshold < ExtendTo` is the one that matters, and `RegistryNoneAssumption`.

`WalletAuthProofs` proves, for any processes, requests, challenges, wallets, origins and
networks, that its `IInv` is inductive, and from it type correctness,
`OneSessionPerChallenge`, `ConsumedIffSession`, `SessionSigned` and `OneMessage`. One
session per challenge rests on `ConsumedIffSession`, because the update asks for an
unconsumed row; that the row created is new rests on `OwnIdentifiers`; that the signer is
the session's wallet rests on `OnlyDeliveredSigned`, `OneCopy` and `CopiesAgree`, which
make the message checked, the one stored and the one signed the same. `RequestStep` disposes of every step
that only moves one request on. `Refinement` maps every step to one of `SignIn` or to a
stutter: an answer to `issue` shows a message whose id was never shown, a transaction that
finds its row unconsumed opens the first session of a signed message, and every other step
leaves the three variables alone. Assumptions: `AuthAssumption`, `AuthNoneAssumption`.

`CheckoutProofs` proves, for any number of clients, processes, quotes, transactions and
accounts and any faults, that `CInv` is inductive, and from it type correctness,
`AnswersOnOwnReceipt`, `PaymentsPayQuotes`, `LossHasCause` and `PaidFlowsServed`. A step of
`Checkout` is a step of the gateway or leaves it alone (`Composition`), so the gateway's
`IInv` is there from the start. What is added: a client and its request are at matching
places (`FlowHolds`); a quote is in the hands of one flow (`OwnQuotes`), because a page that
lost a flow has no copy of its quote; what was signed carries its quote's terms and is all
that is ever verified (`SignedConsistent`); and every transaction that was signed or marked
used is recorded, in somebody's hands, or has a cause (`Accounted`), which is what makes
`LossHasCause` inductive: a gateway on the quote's network that refuses a client must find the
quote expired, redeemed or the transaction used, and each of these is accounted for.
Assumption: `CheckoutAssumption`.

`CheckoutRefinement` proves that the whole implements `Purchases` (`ShopRefinement`). The
gateway's steps come from its own refinement of `ReceiptBook`: a row that is created is an
offer, a transaction that commits redeems the order it was sent, which `CInv` says was
signed. A wallet's signature is an order at the row's terms, because the quote in its
hands is the row's. A client that serves an answer after paying holds its own receipt
(`AnswersOnOwnReceipt`). And because a step with clients is a step of the gateway or
leaves it alone, the whole still implements `ReceiptBook` (`BookKept`).

`StorefrontProofs` proves, for any catalogue, settings, histories and number of views, that
`SInv` is inductive, and from it type correctness, `PageShowsItsUrl`,
`ActivityOnOneLedger`, that the seed takes nothing off sale (`SeedIsGentle`), that the two
entry plans are the same choice (`OneEntryPlan`) and that the price shown is the price asked
of the current rows (`PriceAgreed`). The last rests on `PageIsCurrent`: until the catalogue
is written, what a view shows, or the answer on its way to it, is what the API would answer
now. It adds `RoundTrip`: an amount written as a decimal is read back as it was.
An answer in flight must fit the view it was asked for (`AnswersFit`), the seed must write
plans only of products that are there (`SeedHasProduct`), and at most `Take` receipts have
fewer than `Take` newer ones (`FewAreNewest`), which needs moments that differ. The steps
of the pages leave the tables alone (`PageStep`), the others the pages (`BehindStep`).
Assumption: `StorefrontAssumption`.

`AccumulateProofs` and `AmountsProofs` are the induction over data. The library's induction
theorems take an operator as a parameter, which none of the provers used here can
instantiate, so each induction is stated over a set instead (`Induction`): if some number
were missing from the set there would be a least one (`LeastNumber`, from the library's
theorem that finite sets do not shrink for ever), and it has a predecessor that is not
missing. With it the recursive function of `Accumulate` is shown to exist and to be unique
(`UptoExists`, `UptoUnique`) and to go on from a prefix (`AfterAppend`). In `AmountsProofs`,
a prefix of the digits of `n` reads as `n` without its last digits, so all of them read as
`n` (`DigitsRead`), and zeros before a number do not change it (`ZerosBefore`), for every
`Base` above 1 and any `Places`. Both modules are used through `INSTANCE`, with the step
and the start that the reader of events, of digits and of powers each have. Assumption:
`AmountsAssumption`.

Only model-checked: liveness under fairness, which is out of the prover's reach
(`VerifiedPaymentConfirmed`, `EveryRequestAnswered`, `AcceptedOpensSession`, `FlowsEnd`,
`PageSettles`). `IInv`, `TypeOK` and every other property of a run is a theorem.

## Noted on the way

Besides the three violated properties, which have runs:

* `apps/web/app/page.tsx:11` says "Pay only when the API answers." The payment precedes the
  answer: `LossHasCause` names the causes (a quote that expired under way, a flow that got
  no definite answer) for which a settled payment gets none, and with neither there is always
  a receipt or a client that still holds the payment.
* `lib/stellar-payment.ts:80-81` has one answer for every submission without a hash, a 504
  too: "Stellar rejected the payment", although that transaction may still settle. The model
  does the same (`Unconfirmed`). Such a payment, and one whose page was reloaded, is lost to
  the client, because nothing is kept of it; no property excludes that.
* Two clicks within a second pay once for two quotes, and one of the two is refused
  (`Excused`); no money is lost by it.
* When two cheapest plans cost the same in different assets, the site and the API may pick
  different ones; `PriceShownIsPriceAsked` therefore compares amounts only.
* The seed makes products active again that an operator withdrew, first at the price they had,
  and approves its own provider again. `SeedSpares` is only about the other direction.
* The links of the recent activity to a ledger explorer follow the network of the web build
  (`recent-activity.tsx:14,24,26`), the rows that of the API. The two are not compared.
* The home page shows prices from `apps/web/lib/apis.ts`, which are text of their own and
  follow neither the database nor the seed.

## Not modelled

* The wallet button and the registration form: what they send is in the environment of
  `WalletAuth` (any signature at any time) and `MarketplaceRegistry` (any call), and what
  the button leaves in the browser is `Payers`. They hold no other state than a text.
* `packages/stellar`, which is generated from the contract and has no control of its own.
* Bootstrap, security headers, static pages, CI: configuration and rendering.
* `migrate.js` and `dev.js`, which run other programs.
* The tables `PaymentSession`, `ApiRequest`, `UsageRecord`, `Feedback`, `AuditLog` and
  `AdminAction`: no code reads or writes them.
* Growth of the challenge `Map`s, which are never pruned: nothing in a finite model is wrong
  because of it.
* The proxying of a paid request to the provider's own API: the code answers 200 itself.

## Plan

All steps of the plan are done: 1. `ReceiptBook` and `PaymentGateway` with the refinement;
2. `WalletAuth`; 3. `MarketplaceRegistry`; 4. `Amounts`; 5. `Checkout` composed with
`PaymentGateway`; 6. and 7. the settings and the catalogue, which became one module,
`Storefront`, because the pages, the API's settings and the seed meet there; 8. the proofs of all
five components; 9. the promises of signing in and of buying, `SignIn` and `Purchases`, with
the proofs that they are kept; 10. the induction that the events and the amounts needed.
What would come next: the promise of the storefront as a specification of its own, and
`Amounts` in place of `Checkout`'s whole and fraction.
