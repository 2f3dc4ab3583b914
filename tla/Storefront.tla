----------------------------- MODULE Storefront -----------------------------
(***************************************************************************)
(* The site's pages and what they read: a tab of the static web build, the *)
(* catalogue API it fetches from, the tables behind it, the deployment's   *)
(* Stellar settings, and the seed script that writes the catalogue.        *)
(***************************************************************************)
EXTENDS Amounts, FiniteSets

CONSTANTS Slug,           \* product slugs
          Catalogue,      \* the seed's products: a sequence of slugs and amounts
          Name,           \* plan names
          PerRequest,     \* the name of the seed's plans
          Provider, Labs, \* providers; the seed's own
          Asset, Native,
          Host,           \* hosts a Horizon address may name
          Horizon,        \* the official host of each network
          Offers,         \* the products an operator may write
          Moment,         \* when receipts are confirmed
          Histories,      \* the receipts the table may hold at first
          Take,           \* how many receipts the activity shows
          MaxMounts,      \* bound on the views opened
          MaxEvents,      \* bound on what happens behind the pages
          None

Network == {"PUBLIC", "TESTNET"}
Pages == {Catalogue[i].slug : i \in DOMAIN Catalogue}
Plan == [asset : Asset, amount : Int]
Product == [provider : Provider, active : BOOLEAN,
            plans : [Name -> Plan \union {None}]]
Listed == [slug : Slug, plans : SUBSET [name : Name, plan : Plan]]
Receipt == [network : Network, at : Moment]
Settings == [network : Network, horizon : Host]
Env == [network : {"TESTNET", "other", "unset"}, horizon : Host \union {None},
        recipient : BOOLEAN]
View == {"list", "activity", "lost"} \union Slug
Mount == 1..MaxMounts
Shown == [listed : SUBSET Listed, product : Listed \union {None},
          items : SUBSET Receipt]
Reply == [ok : BOOLEAN, shown : Shown]
Tab == [view : View, mount : 0..MaxMounts, shown : Shown,
        status : {"loading", "ready", "failed"}]
Fetch == [target : View, reply : Reply \union {None}]

\* No two receipts are confirmed at one moment.
Chronological(rows) == /\ IsFiniteSet(rows)
                       /\ \A r, q \in rows : r.at = q.at => r = q

ASSUME StorefrontAssumption ==
    /\ Catalogue \in Seq([slug : Slug, amount : Nat])
    /\ PerRequest \in Name /\ Labs \in Provider /\ Native \in Asset
    /\ Horizon \in [Network -> Host]
    /\ Horizon["PUBLIC"] # Horizon["TESTNET"]
    /\ Offers \subseteq Product
    /\ Moment \subseteq Nat /\ Histories \subseteq SUBSET Receipt
    /\ \A past \in Histories : Chronological(past)
    /\ Take \in Nat \ {0} /\ MaxMounts \in Nat \ {0} /\ MaxEvents \in Nat
    /\ None \notin Product \union Listed \union Settings \union Reply
    /\ None \notin Fetch \union Plan \union Host
    /\ Slug \intersect {"list", "activity", "lost"} = {}

VARIABLES settings,       \* the API's settings, or None when it did not start
          products,       \* DB: products[s], the ApiProduct with its plans
          approved,       \* DB: the providers whose status is APPROVED
          receipts,       \* DB: PaymentReceipt rows with their challenge's network
          seeding,        \* how many writes the running seed has done, or None
          tab,            \* the page in the browser
          fetches,        \* fetches[m]: the request of the m-th view, or None
          events,         \* how much happened behind the pages
          touched         \* the catalogue was written since the view was opened

tables == <<products, approved, receipts>>
server == <<settings, tables, seeding, events>>
storefront == <<settings, tables, seeding, tab, fetches, events, touched>>
-----------------------------------------------------------------------------
(* What the API reads *)

\* readStellarSettings: only TESTNET is the test network, an unset address is
\* the official one, and an address or a recipient that does not fit throws.
ReadStellarSettings(env) ==
    LET network == IF env.network = "TESTNET" THEN "TESTNET" ELSE "PUBLIC"
        horizon == IF env.horizon = None THEN Horizon[network] ELSE env.horizon
    IN IF horizon = Horizon[network] /\ env.recipient
       THEN [network |-> network, horizon |-> horizon]
       ELSE None

Published(s) == /\ products[s] # None
                /\ products[s].active
                /\ products[s].provider \in approved

\* A published product as the API answers it.
Answered(s) ==
    [slug |-> s,
     plans |-> {[name |-> n, plan |-> products[s].plans[n]] :
                  n \in {n \in Name : products[s].plans[n] # None}}]

\* A slip of Activity: the receipts of every network are taken.
ActivityEverywhere ==
    {r \in receipts : Cardinality({q \in receipts : q.at > r.at}) < Take}

\* The newest receipts of the network the API is on.
Activity ==
    LET here == {r \in receipts : r.network = settings.network}
    IN {r \in here : Cardinality({q \in here : q.at > r.at}) < Take}

\* The API's entryPlan.  Of two cheapest plans the sort may leave either first.
EntryPlans(plans) ==
    LET priced == {p \in plans : p.plan.amount >= 0}
    IN {p \in priced : \A q \in priced : p.plan.amount <= q.plan.amount}

\* The plans the gateway may ask for a call to s now; it refuses a product that
\* is not published or has no plan with a price.
AskedPlans(s) == IF Published(s) THEN EntryPlans(Answered(s).plans) ELSE {}

OnSale(s) == /\ Published(s)
             /\ \E p \in Answered(s).plans : p.plan.amount >= 0
-----------------------------------------------------------------------------
(* What the pages show *)

\* A slip of the site's entry plan: amounts are compared as text.
TextualEntryPlans(plans) ==
    LET priced == {p \in plans : p.plan.amount >= 0}
        Text(p) == Digits(p.plan.amount)
        Before(a, b) == \E i \in 1..Len(a) :
                           /\ \A j \in 1..(i - 1) : j <= Len(b) /\ a[j] = b[j]
                           /\ i <= Len(b) /\ a[i] < b[i]
    IN {p \in priced : ~ \E q \in priced : Before(Text(q), Text(p))}

\* entryPlan of the site, which is written a second time.
ShownPlans(plans) ==
    LET priced == {p \in plans : p.plan.amount >= 0}
    IN {p \in priced : ~ \E q \in priced : q.plan.amount < p.plan.amount}

\* formatAmount: the amount's text with the asset, or a dash.
FormatAmount(plan) == [amount |-> IF plan.amount >= 0
                                  THEN DecimalText(plan.amount) ELSE None,
                       asset |-> plan.asset]

\* productPrice, in a card of the list: {} when it says that the price is on
\* request.
ProductPrices(product) == {FormatAmount(p.plan) : p \in ShownPlans(product.plans)}

\* A product's own page shows every plan it has.
DetailPrices(product) == {FormatAmount(p.plan) : p \in product.plans}

Blank == [listed |-> {}, product |-> None, items |-> {}]

\* The state a component begins with; the activity begins with no items.
Fresh(view, mount) ==
    [view |-> view, mount |-> mount, shown |-> Blank,
     status |-> IF view \in {"activity", "lost"} THEN "ready" ELSE "loading"]

\* A slip of Rendered: the body of an error is taken for a product.
RenderedUnchecked(reply) ==
    [tab EXCEPT !.shown = IF reply.ok THEN reply.shown
                          ELSE [Blank EXCEPT !.product = [slug |-> None, plans |-> {}]],
                !.status = "ready"]

\* A slip of Rendered: nobody catches a failed request.
RenderedAnswersOnly(reply) ==
    IF reply.ok THEN [tab EXCEPT !.shown = reply.shown, !.status = "ready"] ELSE tab

\* The state after an answer; the activity shows no items for a failure.
Rendered(reply) ==
    [tab EXCEPT !.shown = reply.shown,
                !.status = IF reply.ok \/ tab.view = "activity"
                           THEN "ready" ELSE "failed"]
-----------------------------------------------------------------------------
(* Pages *)

\* The effect of a view that was just opened.
Sent(view) == IF view = "lost" THEN None ELSE [target |-> view, reply |-> None]

\* A page is built for the seed's slugs and for no other.
Page(view) == IF view \in Slug \ Pages THEN "lost" ELSE view

\* A page is loaded: earlier fetches are gone.
Visit(view) ==
    /\ tab.mount < MaxMounts
    /\ LET m == tab.mount + 1
       IN /\ tab' = Fresh(Page(view), m)
          /\ fetches' = [n \in Mount |-> IF n = m THEN Sent(Page(view)) ELSE None]
    /\ touched' = FALSE
    /\ UNCHANGED server

\* A link is followed.  From one product to another the component may be kept,
\* and then shows its old product until the new one arrives.
Follow(view) ==
    /\ tab.mount < MaxMounts
    /\ LET m == tab.mount + 1
       IN /\ \/ tab' = Fresh(Page(view), m)
             \/ /\ tab.view \in Slug /\ Page(view) \in Slug
                /\ tab' = [tab EXCEPT !.view = view, !.mount = m]
          /\ fetches' = [fetches EXCEPT ![m] = Sent(Page(view))]
    /\ touched' = FALSE
    /\ UNCHANGED server

\* What the API answers on each of its three routes.
Response(target) ==
    CASE target = "list" ->
           [Blank EXCEPT !.listed = {Answered(s) : s \in {s \in Slug : Published(s)}}]
      [] target = "activity" -> [Blank EXCEPT !.items = Activity]
      [] target \in Slug -> [Blank EXCEPT !.product = Answered(target)]

\* The API answers what the tables say now, or the request fails: the API is
\* down, the product is not published, or something breaks on the way.
Serve(m) ==
    /\ fetches[m] # None
    /\ fetches[m].reply = None
    /\ LET target == fetches[m].target
       IN \/ fetches' = [fetches EXCEPT ![m].reply = [ok |-> FALSE, shown |-> Blank]]
          \/ /\ settings # None
             /\ target \in Slug => Published(target)
             /\ fetches' = [fetches EXCEPT ![m].reply =
                              [ok |-> TRUE, shown |-> Response(target)]]
    /\ UNCHANGED <<server, tab, touched>>

Arrived(m) == fetches[m] # None /\ fetches[m].reply # None

\* A slip of Deliver: the flag that the effect's cleanup clears is not read.
DeliverAlways(m) ==
    /\ Arrived(m)
    /\ fetches' = [fetches EXCEPT ![m] = None]
    /\ tab' = IF m = tab.mount \/ {fetches[m].target, tab.view} \subseteq Slug
              THEN Rendered(fetches[m].reply) ELSE tab
    /\ UNCHANGED <<server, touched>>

\* An answer arrives; it is dropped unless its view is still the open one.
Deliver(m) ==
    /\ Arrived(m)
    /\ fetches' = [fetches EXCEPT ![m] = None]
    /\ tab' = IF m = tab.mount THEN Rendered(fetches[m].reply) ELSE tab
    /\ UNCHANGED <<server, touched>>
-----------------------------------------------------------------------------
(* Behind the pages *)

Event == events < MaxEvents /\ events' = events + 1

\* The API is started with other settings; if they do not fit it is down.
Deploy == /\ Event
          /\ \E env \in Env : settings' = ReadStellarSettings(env)
          /\ UNCHANGED <<tables, seeding, tab, fetches, touched>>

\* An operator writes a product, or approves and suspends providers.
Write(s) == /\ Event
            /\ \E offer \in Offers : products' = [products EXCEPT ![s] = offer]
            /\ touched' = TRUE
            /\ UNCHANGED <<settings, approved, receipts, seeding, tab, fetches>>

Review == /\ Event
          /\ approved' \in SUBSET Provider
          /\ touched' = TRUE
          /\ UNCHANGED <<settings, products, receipts, seeding, tab, fetches>>

\* A payment is confirmed on the network the API is on.
Confirm == /\ Event
           /\ settings # None
           /\ \E at \in Moment :
                 /\ \A r \in receipts : r.at # at
                 /\ receipts' = receipts \union {[network |-> settings.network,
                                                  at |-> at]}
           /\ UNCHANGED <<settings, products, approved, seeding, tab, fetches, touched>>

\* The seed begins: its own provider is approved.
SeedProvider == /\ Event
                /\ seeding = None
                /\ approved' = approved \union {Labs}
                /\ seeding' = 0
                /\ touched' = TRUE
                /\ UNCHANGED <<settings, products, receipts, tab, fetches>>

Unpriced == [n \in Name |-> None]

\* A slip of SeedProduct: the product is made anew every time.
SeedProductAnew ==
    /\ seeding # None /\ seeding < 2 * Len(Catalogue) /\ seeding % 2 = 0
    /\ LET s == Catalogue[seeding \div 2 + 1].slug
       IN products' = [products EXCEPT ![s] =
            [provider |-> Labs, active |-> TRUE, plans |-> Unpriced]]
    /\ seeding' = seeding + 1
    /\ touched' = TRUE
    /\ UNCHANGED <<settings, approved, receipts, tab, fetches, events>>

\* Its next product is made active, or made; the provider it has is kept.
SeedProduct ==
    /\ seeding # None /\ seeding < 2 * Len(Catalogue) /\ seeding % 2 = 0
    /\ LET s == Catalogue[seeding \div 2 + 1].slug
       IN products' = [products EXCEPT ![s] =
            IF @ = None THEN [provider |-> Labs, active |-> TRUE, plans |-> Unpriced]
            ELSE [@ EXCEPT !.active = TRUE]]
    /\ seeding' = seeding + 1
    /\ touched' = TRUE
    /\ UNCHANGED <<settings, approved, receipts, tab, fetches, events>>

\* Then that product's plan is written.
SeedPlan ==
    /\ seeding # None /\ seeding % 2 = 1
    /\ LET seed == Catalogue[seeding \div 2 + 1]
       IN products' = [products EXCEPT ![seed.slug].plans[PerRequest] =
                         [asset |-> Native, amount |-> seed.amount]]
    /\ seeding' = seeding + 1
    /\ touched' = TRUE
    /\ UNCHANGED <<settings, approved, receipts, tab, fetches, events>>

\* The seed is through, or dies between two writes.
SeedEnds == /\ seeding # None
            /\ seeding' = None
            /\ UNCHANGED <<settings, tables, tab, fetches, events, touched>>
-----------------------------------------------------------------------------
StorefrontInit ==
    /\ settings \in {ReadStellarSettings(env) : env \in Env} \ {None}
    /\ products = [s \in Slug |-> None]
    /\ approved = {}
    /\ receipts \in Histories
    /\ seeding = None
    /\ tab = Fresh("lost", 0)
    /\ fetches = [m \in Mount |-> None]
    /\ events = 0
    /\ touched = FALSE

StorefrontNext ==
    \/ \E view \in View \ {"lost"} : Visit(view) \/ Follow(view)
    \/ \E m \in Mount : Serve(m) \/ Deliver(m)
    \/ Deploy \/ Review \/ Confirm \/ \E s \in Slug : Write(s)
    \/ SeedProvider \/ SeedProduct \/ SeedPlan \/ SeedEnds

StorefrontSpec == StorefrontInit /\ [][StorefrontNext]_storefront

\* A request is answered or fails, and its answer reaches the page.
FairStorefront ==
    /\ StorefrontSpec
    /\ \A m \in Mount : WF_storefront(Serve(m)) /\ WF_storefront(Deliver(m))
-----------------------------------------------------------------------------
(* Properties *)

\* Every variable has its type.
StorefrontTypeOK ==
    /\ settings \in Settings \union {None}
    /\ products \in [Slug -> Product \union {None}]
    /\ approved \subseteq Provider
    /\ receipts \subseteq Receipt
    /\ seeding \in 0..(2 * Len(Catalogue)) \union {None}
    /\ tab \in Tab
    /\ fetches \in [Mount -> Fetch \union {None}]
    /\ events \in 0..MaxEvents
    /\ touched \in BOOLEAN

\* In whatever order answers arrive, a page that waits for nothing shows, and
\* its console buys, the product its address and its title name.
PageShowsItsUrl ==
    (tab.shown.product # None /\ fetches[tab.mount] = None)
       => tab.shown.product.slug = tab.view

\* A card agrees with the gateway: it shows the price asked, or says that the
\* price is on request when the gateway refuses.
CardAgrees(product) ==
    LET asked == AskedPlans(product.slug)
    IN /\ ProductPrices(product) = {} <=> asked = {}
       /\ \A price \in ProductPrices(product), p \in asked :
             AtomicUnits(price.amount) = p.plan.amount

\* A product's page agrees with the gateway: among the prices it shows is the
\* one asked, which reads back as that amount, and none is lower.
DetailAgrees(product) ==
    LET legible == {price \in DetailPrices(product) : price.amount # None}
    IN /\ ~ OnSale(product.slug) => legible = {}
       /\ \A p \in AskedPlans(product.slug) :
             /\ FormatAmount(p.plan) \in DetailPrices(product)
             /\ AtomicUnits(FormatAmount(p.plan).amount) = p.plan.amount
             /\ \A price \in legible : AtomicUnits(price.amount) >= p.plan.amount

\* What a page shows, the gateway asks of the rows as they are now: in the list
\* and on a product's page, once their answer has come and until the catalogue
\* is next written, wherever the operators, or a seed that died, left it.  The
\* cheapest plan is chosen twice, in the site and in the API, from amounts
\* written as text in one and read in the other.
PriceShownIsPriceAsked ==
    (~ touched /\ tab.mount \in Mount /\ fetches[tab.mount] = None) =>
       /\ \A product \in tab.shown.listed : CardAgrees(product)
       /\ tab.shown.product # None => DetailAgrees(tab.shown.product)

\* The seed can be run again over a live catalogue and die anywhere: none of its
\* writes takes a product off sale, between two of them included, or from the
\* provider that owns it.
SeedSpares ==
    [][seeding' # seeding => \A s \in Slug :
          /\ OnSale(s) => OnSale(s)'
          /\ products[s] # None => /\ products'[s] # None
                                   /\ products'[s].provider = products[s].provider]_storefront

\* Recent receipts of one ledger.
Coherent(items) == /\ items \subseteq receipts
                   /\ Cardinality(items) <= Take
                   /\ \A a, b \in items : a.network = b.network

\* The activity is never a mix of two ledgers, although the API was moved from
\* one to the other and the table holds receipts of both.
ActivityOnOneLedger == Coherent(tab.shown.items)

\* No page loads for ever.
PageSettles ==
    \A m \in Mount : (tab.status = "loading" /\ tab.mount = m)
                        ~> (tab.status # "loading" \/ tab.mount # m)
-----------------------------------------------------------------------------
(* The inductive invariant *)

\* What the answer to a view's request may carry.
Fits(view, shown) == /\ shown.product # None => shown.product.slug = view
                     /\ Coherent(shown.items)

\* Requests and answers belong to the views that were opened, and the last
\* one to the page in the browser.
AnswersFit ==
    \A m \in Mount : fetches[m] # None =>
       /\ m <= tab.mount
       /\ m = tab.mount => fetches[m].target = tab.view
       /\ fetches[m].target # "lost"
       /\ fetches[m].reply # None => Fits(fetches[m].target, fetches[m].reply.shown)

\* The products shown are the published ones, as they are answered now.
Current(shown) ==
    \A product \in shown.listed \union ({shown.product} \ {None}) :
       /\ product.slug \in Slug
       /\ Published(product.slug)
       /\ product = Answered(product.slug)

\* What a view shows or is about to show is current until the catalogue is
\* written.
PageIsCurrent ==
    (~ touched /\ tab.mount \in Mount) =>
       LET fetch == fetches[tab.mount]
       IN IF fetch = None THEN Current(tab.shown)
          ELSE fetch.reply # None => Current(fetch.reply.shown)

\* The seed writes the plan of a product that is there.
SeedHasProduct ==
    (seeding # None /\ seeding % 2 = 1)
       => products[Catalogue[seeding \div 2 + 1].slug] # None

SInv == /\ StorefrontTypeOK
        /\ PageShowsItsUrl
        /\ ActivityOnOneLedger
        /\ AnswersFit
        /\ PageIsCurrent
        /\ Chronological(receipts)
        /\ SeedHasProduct
=============================================================================
