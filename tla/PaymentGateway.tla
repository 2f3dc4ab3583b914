--------------------------- MODULE PaymentGateway ---------------------------
(***************************************************************************)
(* The payment gateway of apps/api: the protected route that quotes a      *)
(* price with HTTP 402, the challenges it issues, the verification of a    *)
(* Stellar payment against a challenge, and the receipts that open the     *)
(* route.  Several API processes share one PostgreSQL database and one     *)
(* ledger; each process has a memory of its own, lost when it restarts.    *)
(*                                                                         *)
(* A request handler runs to its next await in one step: an action is the  *)
(* answer of the awaited call together with the code up to the next await. *)
(***************************************************************************)
EXTENDS Integers

CONSTANTS Proc,           \* API processes
          Req,            \* slots for requests in flight
          Challenge,      \* challenge identifiers (randomUUID)
          Tx,             \* transaction hashes
          Api, Hash,      \* product slugs and request hashes
          Network, Recipient, Asset,
          Listings,       \* what the catalogue may say of a product
          Payments,       \* the payments that may settle on the ledger
          Configs,        \* the settings a process may be started with
          Faults,         \* which failures happen
          Lifetime,       \* how long a challenge can be paid
          MaxNow,         \* bound on the clock
          None

Plan == [asset : Asset, amount : Int]
Listing == [active : BOOLEAN, approved : BOOLEAN, plans : SUBSET Plan]
Payment == [network : Network, successful : BOOLEAN, asset : Asset,
            recipient : Recipient, amount : Nat]
Settings == [network : Network, recipient : Recipient]
Call == [api : Api, hash : Hash]
Requirement == [api : Api, hash : Hash, network : Network, asset : Asset,
                recipient : Recipient, amount : Nat]
Quote == [req : Requirement, expiresAt : Nat]
CacheEntry == [req : Requirement, expiresAt : Nat, used : BOOLEAN]
Row == [req : Requirement, expiresAt : Nat, consumedAt : Nat \union {None}]

ASSUME DataAssumption == /\ Listings \subseteq Listing
                         /\ Payments \subseteq Payment
                         /\ Configs \subseteq Settings
                         /\ Faults \subseteq {"throw", "unacked", "restart"}
                         /\ Lifetime \in Nat \ {0}
                         /\ MaxNow \in Nat

ASSUME NoneAssumption == /\ None \notin Proc \union Challenge \union Tx
                         /\ None \notin Requirement
                         /\ None \notin Call \union Payment
                         /\ None \notin Quote \union CacheEntry \union Row
                         /\ None \notin Nat

VARIABLES now,            \* the clock all processes read
          ledger,         \* ledger[t]: the payment settled as t, or None
          catalog,        \* DB: catalog[a], the ApiProduct with its plans
          rows,           \* DB: rows[c], the PaymentChallenge row, or None
          receipts,       \* DB: the PaymentReceipt rows
          cached,         \* cached[p][c]: the challenges Map of process p
          usedTx,         \* usedTx[p]: the verifier's usedTransactions
          known,          \* known[p]: the ReceiptRegistry's receipts
          settings,       \* settings[p]: what process p was started with
          handler,        \* handler[r]: the request in slot r
          quoted,         \* quoted[c]: the terms a 402 answer carried, or None
          granted         \* the calls answered 200, with the receipt shown

memory == <<cached, usedTx, known, settings>>
database == <<catalog, rows, receipts>>
world == <<now, ledger, quoted, granted>>
vars == <<now, ledger, catalog, rows, receipts, cached, usedTx, known,
          settings, handler, quoted, granted>>
-----------------------------------------------------------------------------
(* Handlers *)

Pc == {"idle", "has", "price", "plan", "create", "reply",
       "lookup", "consume", "commit", "record"}

Idle == [pc |-> "idle", at |-> None, call |-> None, tx |-> None,
         id |-> None, req |-> None]

Begin(r, h) == handler[r] = Idle /\ handler' = [handler EXCEPT ![r] = h]

Goto(r, pc) == handler' = [handler EXCEPT ![r].pc = pc]

End(r) == handler' = [handler EXCEPT ![r] = Idle]

-----------------------------------------------------------------------------
(* What the handlers read *)

\* A slip of Priced: the filter on the amount is dropped.
PricedEvenBelowZero(api) == catalog[api].plans

Priced(api) == {plan \in catalog[api].plans : plan.amount >= 0}

\* The plans a request for api may be quoted: published, and cheapest.
EntryPlans(api) ==
    {plan \in Priced(api) : /\ catalog[api].active
                            /\ catalog[api].approved
                            /\ \A q \in Priced(api) : plan.amount <= q.amount}

\* The row check made again before the challenge is stored.
PlanStillActive(req) ==
    /\ catalog[req.api].active
    /\ [asset |-> req.asset, amount |-> req.amount] \in catalog[req.api].plans

\* randomUUID: an identifier no process and no row holds.
Fresh(c) == rows[c] = None /\ \A p \in Proc : cached[p][c] = None

\* Bound: only Challenge identifiers exist.
IdsExhausted == ~ \E c \in Challenge : Fresh(c)

Redeemed(c) == \E receipt \in receipts : receipt.challenge = c

\* The challenge rebuilt from its row and the receipt joined to it.
Stored(c) == IF rows[c] = None THEN None
             ELSE [req |-> rows[c].req, expiresAt |-> rows[c].expiresAt,
                   used |-> Redeemed(c)]

\* A slip of Loaded: a challenge that is not in the Map is not looked for.
LoadedFromMap(p, c) == cached[p][c]

\* The Map's entry if there is one, else what the row says.
Loaded(p, c) == IF cached[p][c] # None THEN cached[p][c] ELSE Stored(c)

\* PaymentChallengeService.get returns instead of throwing.
Live(p, c) == /\ Loaded(p, c) # None
              /\ ~ Loaded(p, c).used
              /\ now < Loaded(p, c).expiresAt

\* A slip of Pays: the amount is not compared.
PaysAnyAmount(payment, req) ==
    /\ payment.successful
    /\ payment.recipient = req.recipient
    /\ payment.asset = req.asset

\* The verifier's checks on the payment Horizon returned.
Pays(payment, req) == /\ payment.successful
                      /\ payment.recipient = req.recipient
                      /\ payment.asset = req.asset
                      /\ payment.amount = req.amount

\* What the verifier finds on Horizon for the network p is configured with.
Visible(p, t) == ledger[t] # None /\ ledger[t].network = settings[p].network

\* A slip of Recorded: the receipts in memory are taken for all receipts.
RecordedInMemory(t) == \E p \in Proc : t \in known[p]

\* The lookup of a PaymentReceipt row by its transaction hash.
Recorded(t) == \E receipt \in receipts : receipt.tx = t

\* The verifier's usedTransactions.
SeenByVerifier(p, t) == t \in usedTx[p]

\* The registry's own set of receipts.
Remembered(p, t) == t \in known[p]

\* ReceiptRegistry.has would answer true at process p.
Accepts(p, t) == Remembered(p, t) \/ Recorded(t)
-----------------------------------------------------------------------------
(* GET /api/protected: AppController.protectedApi *)

\* A request arrives at process p, showing transaction t as its receipt.
Request(r, p, call, t) ==
    IF t # None /\ Remembered(p, t)
    THEN /\ handler[r] = Idle
         /\ granted' = granted \union {[tx |-> t, call |-> call]}
         /\ UNCHANGED <<now, ledger, quoted, database, memory, handler>>
    ELSE /\ Begin(r, [Idle EXCEPT !.pc = IF t = None THEN "price" ELSE "has",
                                  !.at = p, !.call = call, !.tx = t])
         /\ UNCHANGED <<world, database, memory>>

\* The registry's row lookup: access, or on to the price.
FindReceipt(r) ==
    /\ handler[r].pc = "has"
    /\ IF Recorded(handler[r].tx)
       THEN /\ granted' = granted \union
                          {[tx |-> handler[r].tx, call |-> handler[r].call]}
            /\ End(r)
       ELSE /\ handler' = [handler EXCEPT ![r].pc = "price", ![r].tx = None]
            /\ UNCHANGED granted
    /\ UNCHANGED <<now, ledger, quoted, database, memory>>

\* The product is read and priced; the challenge enters the Map at once.
Issue(r) ==
    /\ handler[r].pc = "price"
    /\ \E c \in Challenge, plan \in EntryPlans(handler[r].call.api) :
          LET p == handler[r].at
              req == [api |-> handler[r].call.api,
                      hash |-> handler[r].call.hash,
                      network |-> settings[p].network,
                      recipient |-> settings[p].recipient,
                      asset |-> plan.asset,
                      amount |-> plan.amount]
          IN /\ Fresh(c)
             /\ cached' = [cached EXCEPT ![p][c] =
                             [req |-> req, expiresAt |-> now + Lifetime,
                              used |-> FALSE]]
             /\ handler' = [handler EXCEPT ![r] =
                              [Idle EXCEPT !.pc = "plan", !.at = p,
                                           !.id = c, !.req = req]]
    /\ UNCHANGED <<usedTx, known, settings, database, world>>

\* A slip of Refuse: an unpublished product is not answered.
RefuseWhenExhausted(r) == /\ handler[r].pc = "price"
                          /\ IdsExhausted
                          /\ End(r)
                          /\ UNCHANGED <<world, database, memory>>

\* No published plan: 400.  Out of identifiers (the bound): given up too.
Refuse(r) == /\ handler[r].pc = "price"
             /\ EntryPlans(handler[r].call.api) = {} \/ IdsExhausted
             /\ End(r)
             /\ UNCHANGED <<world, database, memory>>

\* The plan may have changed since it was priced; the Map entry stays.
CheckPlan(r) == /\ handler[r].pc = "plan"
                /\ IF PlanStillActive(handler[r].req)
                   THEN Goto(r, "create")
                   ELSE End(r)
                /\ UNCHANGED <<world, database, memory>>

\* A slip of CreateRow: the answer does not wait for the row.
CreateRowLater(r) == /\ handler[r].pc = "create"
                     /\ Goto(r, "reply")
                     /\ UNCHANGED <<world, database, memory>>

\* The challenge is stored as a PENDING row.
CreateRow(r) ==
    /\ handler[r].pc = "create"
    /\ LET c == handler[r].id
           challenge == cached[handler[r].at][c]
       IN rows' = [rows EXCEPT ![c] = [req |-> challenge.req,
                                       expiresAt |-> challenge.expiresAt,
                                       consumedAt |-> None]]
    /\ Goto(r, "reply")
    /\ UNCHANGED <<catalog, receipts, world, memory>>

\* 402, with the challenge in the body.
Reply402(r) ==
    /\ handler[r].pc = "reply"
    /\ LET c == handler[r].id
       IN quoted' = [quoted EXCEPT ![c] =
                       [req |-> handler[r].req,
                        expiresAt |-> cached[handler[r].at][c].expiresAt]]
    /\ End(r)
    /\ UNCHANGED <<now, ledger, granted, database, memory>>
-----------------------------------------------------------------------------
(* POST /api/payments/verify: PaymentController.verify *)

\* A client submits transaction t for a challenge it was quoted.  The checks
\* made before Horizon is asked; a submission refused here changes nothing.
Submit(r, p, c, t) ==
    /\ quoted[c] # None
    /\ Live(p, c)
    /\ ~ SeenByVerifier(p, t)
    /\ Loaded(p, c).req.network = settings[p].network
    /\ Begin(r, [Idle EXCEPT !.pc = "lookup", !.at = p, !.tx = t, !.id = c,
                             !.req = Loaded(p, c).req])
    /\ UNCHANGED <<world, database, memory>>

\* A slip of Verify: the transaction is claimed before it is checked.
VerifyClaimingFirst(r) ==
    LET p == handler[r].at
        t == handler[r].tx
    IN /\ handler[r].pc = "lookup"
       /\ usedTx' = [usedTx EXCEPT ![p] = @ \union {t}]
       /\ IF Visible(p, t) /\ Pays(ledger[t], handler[r].req)
          THEN Goto(r, "consume")
          ELSE End(r)
       /\ UNCHANGED <<cached, known, settings, database, world>>

\* Horizon answers.  Only a payment that is accepted is remembered as used.
Verify(r) ==
    LET p == handler[r].at
        t == handler[r].tx
    IN /\ handler[r].pc = "lookup"
       /\ IF Visible(p, t) /\ Pays(ledger[t], handler[r].req)
          THEN /\ usedTx' = [usedTx EXCEPT ![p] = @ \union {t}]
               /\ Goto(r, "consume")
          ELSE End(r) /\ UNCHANGED usedTx
       /\ UNCHANGED <<cached, known, settings, database, world>>

\* A slip of Consume: the Map's challenge is marked before the commit.
ConsumeMarkingFirst(r) ==
    LET p == handler[r].at
        c == handler[r].id
    IN /\ handler[r].pc = "consume"
       /\ IF Live(p, c)
          THEN /\ Goto(r, "commit")
               /\ IF cached[p][c] = None
                  THEN UNCHANGED cached
                  ELSE cached' = [cached EXCEPT ![p][c].used = TRUE]
          ELSE End(r) /\ UNCHANGED cached
       /\ UNCHANGED <<usedTx, known, settings, database, world>>

\* A slip of Consume: the verifier is asked again whether the transaction is used.
ConsumeCheckingUsedAgain(r) ==
    /\ handler[r].pc = "consume"
    /\ IF Live(handler[r].at, handler[r].id)
          /\ ~ SeenByVerifier(handler[r].at, handler[r].tx)
       THEN Goto(r, "commit")
       ELSE End(r)
    /\ UNCHANGED <<world, database, memory>>

\* The challenge is read a second time.
Consume(r) == /\ handler[r].pc = "consume"
              /\ IF Live(handler[r].at, handler[r].id)
                 THEN Goto(r, "commit")
                 ELSE End(r)
              /\ UNCHANGED <<world, database, memory>>

\* Slips of Unspent: one of the two sides is not checked.
UnspentChallenge(c, t) == rows[c].consumedAt = None /\ ~ Redeemed(c)

UnspentPayment(c, t) == ~ Recorded(t)

\* The update hits one row, and neither unique index refuses the receipt.
Unspent(c, t) == /\ rows[c].consumedAt = None
                 /\ ~ Redeemed(c)
                 /\ ~ Recorded(t)

\* A slip of Commit: the update stands although the receipt is refused.
CommitInTwoSteps(r) ==
    LET c == handler[r].id
        t == handler[r].tx
    IN /\ handler[r].pc = "commit"
       /\ IF rows[c].consumedAt = None
          THEN /\ rows' = [rows EXCEPT ![c].consumedAt = now]
               /\ IF Recorded(t)
                  THEN End(r) /\ UNCHANGED receipts
                  ELSE /\ receipts' = receipts \union
                                        {[challenge |-> c, tx |-> t]}
                       /\ Goto(r, "record")
          ELSE End(r) /\ UNCHANGED <<rows, receipts>>
       /\ UNCHANGED <<catalog, memory, world>>

\* The transaction: both writes, or a throw that rolls both back.
Commit(r) ==
    LET c == handler[r].id
        t == handler[r].tx
    IN /\ handler[r].pc = "commit"
       /\ IF Unspent(c, t)
          THEN /\ rows' = [rows EXCEPT ![c].consumedAt = now]
               /\ receipts' = receipts \union {[challenge |-> c, tx |-> t]}
               /\ Goto(r, "record")
          ELSE End(r) /\ UNCHANGED <<rows, receipts>>
       /\ UNCHANGED <<catalog, memory, world>>

\* The commit is known: the Map's challenge, if it came from the Map, and the
\* receipt registry are brought up to date, and the receipt is answered.
Record(r) ==
    LET p == handler[r].at
        c == handler[r].id
    IN /\ handler[r].pc = "record"
       /\ IF cached[p][c] = None
          THEN UNCHANGED cached
          ELSE cached' = [cached EXCEPT ![p][c].used = TRUE]
       /\ known' = [known EXCEPT ![p] = @ \union {handler[r].tx}]
       /\ End(r)
       /\ UNCHANGED <<usedTx, settings, database, world>>
-----------------------------------------------------------------------------
(* Failures and the outside world *)

\* An awaited call rejects: the handler answers 4xx or 5xx.
Throws(r) == /\ "throw" \in Faults
             /\ handler[r].pc \in Pc \ {"idle", "reply", "record"}
             /\ End(r)
             /\ UNCHANGED <<world, database, memory>>

\* The database did the write but its answer, or ours, is lost.
Unacked(r) == /\ "unacked" \in Faults
              /\ handler[r].pc \in {"reply", "record"}
              /\ End(r)
              /\ UNCHANGED <<world, database, memory>>

\* A crash, a restart or a redeploy, possibly with other settings.
Restart(p) ==
    /\ "restart" \in Faults
    /\ cached' = [cached EXCEPT ![p] = [c \in Challenge |-> None]]
    /\ usedTx' = [usedTx EXCEPT ![p] = {}]
    /\ known' = [known EXCEPT ![p] = {}]
    /\ \E config \in Configs : settings' = [settings EXCEPT ![p] = config]
    /\ handler' = [r \in Req |-> IF handler[r].at = p THEN Idle ELSE handler[r]]
    /\ UNCHANGED <<database, world>>

Tick == /\ now < MaxNow
        /\ now' = now + 1
        /\ UNCHANGED <<ledger, quoted, granted, database, memory, handler>>

\* An operator, or the seed script of a deploy, rewrites a product.
Publish(api) ==
    /\ \E listing \in Listings : catalog' = [catalog EXCEPT ![api] = listing]
    /\ UNCHANGED <<rows, receipts, world, memory, handler>>

\* A transaction settles on the Stellar ledger.
Settle(t) ==
    /\ ledger[t] = None
    /\ \E payment \in Payments : ledger' = [ledger EXCEPT ![t] = payment]
    /\ UNCHANGED <<now, quoted, granted, database, memory, handler>>
-----------------------------------------------------------------------------
Init == /\ now = 0
        /\ ledger = [t \in Tx |-> None]
        /\ catalog \in [Api -> Listings]
        /\ rows = [c \in Challenge |-> None]
        /\ receipts = {}
        /\ cached = [p \in Proc |-> [c \in Challenge |-> None]]
        /\ usedTx = [p \in Proc |-> {}]
        /\ known = [p \in Proc |-> {}]
        /\ settings \in [Proc -> Configs]
        /\ handler = [r \in Req |-> Idle]
        /\ quoted = [c \in Challenge |-> None]
        /\ granted = {}

Answer(r) == \/ FindReceipt(r) \/ Issue(r) \/ Refuse(r)
             \/ CheckPlan(r) \/ CreateRow(r) \/ Reply402(r)
             \/ Verify(r) \/ Consume(r) \/ Commit(r) \/ Record(r)

Arrive(r, p) == \/ \E call \in Call, t \in Tx \union {None} :
                      Request(r, p, call, t)
                \/ \E c \in Challenge, t \in Tx : Submit(r, p, c, t)

Next == \/ \E r \in Req : Answer(r)
        \/ \E r \in Req, p \in Proc : Arrive(r, p)
        \/ \E r \in Req : Throws(r) \/ Unacked(r)
        \/ \E p \in Proc : Restart(p)
        \/ Tick
        \/ \E api \in Api : Publish(api)
        \/ \E t \in Tx : Settle(t)

Spec == Init /\ [][Next]_vars

\* Awaited calls are answered sooner or later.
FairSpec == Spec /\ \A r \in Req : WF_vars(Answer(r))
-----------------------------------------------------------------------------
(* Safety *)

\* What a receipt stands for: a successful payment of these very terms.
PaysExactly(payment, req) == /\ payment.successful
                             /\ payment.network = req.network
                             /\ payment.recipient = req.recipient
                             /\ payment.asset = req.asset
                             /\ payment.amount = req.amount

Handler == [pc : Pc, at : Proc \union {None}, call : Call \union {None},
            tx : Tx \union {None}, id : Challenge \union {None},
            req : Requirement \union {None}]

\* Every variable has its type; in particular no quote asks for an amount
\* below zero, which BigInt columns allow and entryPlan filters out.
TypeOK == /\ now \in Nat
          /\ ledger \in [Tx -> Payments \union {None}]
          /\ catalog \in [Api -> Listings]
          /\ rows \in [Challenge -> Row \union {None}]
          /\ receipts \subseteq [challenge : Challenge, tx : Tx]
          /\ cached \in [Proc -> [Challenge -> CacheEntry \union {None}]]
          /\ usedTx \in [Proc -> SUBSET Tx]
          /\ known \in [Proc -> SUBSET Tx]
          /\ settings \in [Proc -> Configs]
          /\ handler \in [Req -> Handler]
          /\ quoted \in [Challenge -> Quote \union {None}]
          /\ granted \subseteq [tx : Tx, call : Call]

\* A transaction pays for one challenge and a challenge is paid for once, over
\* every interleaving of verifications in several processes and every restart
\* (consume's conditional update and the unique columns of PaymentReceipt).
NoDoubleSpend == \A a, b \in receipts : a.challenge = b.challenge <=> a.tx = b.tx

\* A receipt always stands for a settled payment of exactly what the client
\* was quoted, on the network it was quoted for, although the catalogue, the
\* settings and the process may have changed between the quote and the receipt.
ReceiptPaysQuote ==
    \A receipt \in receipts :
       /\ quoted[receipt.challenge] # None
       /\ ledger[receipt.tx] # None
       /\ PaysExactly(ledger[receipt.tx], quoted[receipt.challenge].req)

\* A challenge row is CONFIRMED exactly when its receipt exists, at every
\* moment another process, or a restarted one, may read the two tables.
ConfirmedIffReceipt ==
    \A c \in Challenge : rows[c] # None =>
       (rows[c].consumedAt # None <=> Redeemed(c))

\* Once a 402 answer left, every process, restarted or not, resolves that
\* challenge to the terms and the deadline the client was given.
EveryProcessHonoursQuote ==
    \A c \in Challenge, p \in Proc : quoted[c] # None =>
       /\ Loaded(p, c) # None
       /\ Loaded(p, c).req = quoted[c].req
       /\ Loaded(p, c).expiresAt = quoted[c].expiresAt

\* A process's memory may lag behind the database but is never ahead of it:
\* a challenge it takes for used, or a receipt it accepts, is committed.
MemoryNeverAhead ==
    \A p \in Proc :
       /\ \A c \in Challenge : cached[p][c] # None =>
             (cached[p][c].used => Redeemed(c))
       /\ \A t \in known[p] : Recorded(t)

\* A transaction is marked as used only if it settled and pays, exactly, for
\* some quoted challenge: asking too early, or for the wrong challenge, never
\* makes the gateway refuse a good payment later.
UsedTransactionsPaid ==
    \A p \in Proc : \A t \in usedTx[p] :
       /\ ledger[t] # None
       /\ \E c \in Challenge : /\ quoted[c] # None
                               /\ PaysExactly(ledger[t], quoted[c].req)

\* Every 200 answer was given for a committed receipt.
GrantsBacked == \A grant \in granted : Recorded(grant.tx)

\* A receipt one process accepts is accepted by it for good, and by every
\* process once it is committed, through crashes and restarts.
AccessNeverRevoked ==
    [][\A p \in Proc, t \in Tx : Accepts(p, t) =>
          \A q \in Proc : Accepts(q, t)']_vars

-----------------------------------------------------------------------------
(* The inductive invariant *)

\* What a handler knows at each await.
HandlerHolds(h) ==
    /\ h.pc # "idle" => h.at \in Proc
    /\ h.pc \in {"has", "price"} => h.call \in Call
    /\ h.pc = "has" => h.tx \in Tx
    /\ h.pc \in {"plan", "create", "reply"} =>
          /\ h.id \in Challenge
          /\ cached[h.at][h.id] # None
          /\ cached[h.at][h.id].req = h.req
    /\ h.pc \in {"plan", "create"} =>
          /\ rows[h.id] = None
          /\ \A p \in Proc \ {h.at} : cached[p][h.id] = None
    /\ h.pc = "reply" => rows[h.id] # None
    /\ h.pc \in {"lookup", "consume", "commit", "record"} =>
          /\ h.id \in Challenge /\ h.tx \in Tx
          /\ quoted[h.id] # None
          /\ h.req = quoted[h.id].req
          /\ h.req.network = settings[h.at].network
    /\ h.pc \in {"consume", "commit", "record"} =>
          ledger[h.tx] # None /\ PaysExactly(ledger[h.tx], h.req)
    /\ h.pc = "record" =>
          \E receipt \in receipts : receipt.challenge = h.id /\ receipt.tx = h.tx

HandlersConsistent == \A r \in Req : HandlerHolds(handler[r])

\* Two requests never carry the same identifier before its row exists.
OwnIdentifiers == \A r, s \in Req :
    (/\ handler[r].pc \in {"plan", "create"}
     /\ handler[s].pc \in {"plan", "create"}
     /\ handler[r].id = handler[s].id) => r = s

\* A challenge has one set of terms and one deadline, wherever it is kept.
CopiesAgree ==
    \A c \in Challenge :
       /\ quoted[c] # None => rows[c] # None
       /\ quoted[c] # None => /\ rows[c].req = quoted[c].req
                              /\ rows[c].expiresAt = quoted[c].expiresAt
       /\ \A p \in Proc : (rows[c] # None /\ cached[p][c] # None) =>
             /\ cached[p][c].req = rows[c].req
             /\ cached[p][c].expiresAt = rows[c].expiresAt

\* The invariant every step preserves: the safety properties above, with the
\* facts about requests in flight and copies of a challenge they depend on.
IInv == /\ TypeOK
        /\ HandlersConsistent
        /\ OwnIdentifiers
        /\ CopiesAgree
        /\ NoDoubleSpend
        /\ ReceiptPaysQuote
        /\ ConfirmedIffReceipt
        /\ MemoryNeverAhead
        /\ UsedTransactionsPaid
        /\ GrantsBacked

-----------------------------------------------------------------------------
(* Progress *)

Expired(c) == rows[c] # None /\ now >= rows[c].expiresAt

\* When nothing fails, a payment that is being verified against a challenge it
\* pays ends in a receipt for that challenge or for that transaction, unless
\* the challenge expires first.
VerifiedPaymentConfirmed ==
    \A r \in Req, c \in Challenge, t \in Tx :
       (/\ handler[r].pc = "lookup" /\ handler[r].id = c /\ handler[r].tx = t
        /\ Visible(handler[r].at, t) /\ Pays(ledger[t], handler[r].req))
       ~> (Redeemed(c) \/ Recorded(t) \/ Expired(c))

\* Every request in flight is answered: no handler waits for ever.
EveryRequestAnswered ==
    \A r \in Req : handler[r].pc # "idle" ~> handler[r].pc = "idle"

-----------------------------------------------------------------------------
(* The gateway implements ReceiptBook *)

Book == INSTANCE ReceiptBook WITH
          Terms <- Requirement,
          Pays <- PaysExactly,
          offers <- [c \in Challenge |-> IF rows[c] = None THEN None
                                         ELSE rows[c].req],
          settled <- ledger,
          book <- receipts,
          served <- {grant.tx : grant \in granted}

\* Whatever the processes, caches, restarts and interleavings do, the database
\* and the answers behave as the book of offers, payments and receipts.
ImplementsReceiptBook == Book!Spec

-----------------------------------------------------------------------------
(* What the repository's documents say, and the code does not do *)

\* docs/data-flow.md:7: the receipt is bound to the original request.
ReceiptBoundToRequest ==
    \A grant \in granted : \E receipt \in receipts :
       /\ receipt.tx = grant.tx
       /\ rows[receipt.challenge].req.api = grant.call.api
       /\ rows[receipt.challenge].req.hash = grant.call.hash

\* docs/user-guide.md:10: an expired challenge does not grant access.
NotConfirmedAfterExpiry ==
    \A c \in Challenge : (rows[c] # None /\ rows[c].consumedAt # None) =>
       rows[c].consumedAt < rows[c].expiresAt

\* docs/security/security-audit.md:49: verification is safe to retry.  A
\* transaction the verifier refuses as used has a receipt, or will get one
\* from the verification still in flight.
UnspentPaymentCanRetry ==
    \A p \in Proc : \A t \in usedTx[p] :
       \/ Recorded(t)
       \/ \E r \in Req : /\ handler[r].at = p
                         /\ handler[r].tx = t
                         /\ handler[r].pc \in {"consume", "commit"}
=============================================================================
