-------------------------- MODULE StorefrontProofs --------------------------
(***************************************************************************)
(* Storefront keeps its safety properties for any catalogue, settings,     *)
(* histories and number of views.  SInv is inductive: the pages' steps     *)
(* leave the tables alone (PageStep), and what happens behind the pages    *)
(* leaves the pages alone (BehindStep).                                    *)
(***************************************************************************)
EXTENDS Storefront, AmountsProofs, FiniteSetTheorems

LEMMA PageTyped ==
    ASSUME NEW view \in View \ {"lost"}
    PROVE  /\ Page(view) \in View
           /\ Page(view) # "lost" => Page(view) \in Slug \union {"list", "activity"}
BY StorefrontAssumption DEF Page, View

LEMMA BlankTyped == Blank \in Shown
BY DEF Blank, Shown

LEMMA SentTyped ==
    ASSUME NEW view \in View
    PROVE  Sent(view) \in Fetch \union {None}
BY DEF Sent, Fetch

\* What the settings reader lets through.
LEMMA SettingsRead ==
    ASSUME NEW env \in Env
    PROVE  ReadStellarSettings(env) \in Settings \union {None}
<1> DEFINE network == IF env.network = "TESTNET" THEN "TESTNET" ELSE "PUBLIC"
           horizon == IF env.horizon = None THEN Horizon[network] ELSE env.horizon
<1>1. network \in Network
      BY DEF Network
<1>2. [network |-> network, horizon |-> Horizon[network]] \in Settings
      BY <1>1, StorefrontAssumption DEF Settings
<1>3. ReadStellarSettings(env) = IF horizon = Horizon[network] /\ env.recipient
                                 THEN [network |-> network, horizon |-> Horizon[network]]
                                 ELSE None
      BY DEF ReadStellarSettings
<1> HIDE DEF network, horizon
<1>. QED BY <1>2, <1>3
-----------------------------------------------------------------------------
(* The recent activity *)

\* Of receipts confirmed at different moments, at most Take have fewer than
\* Take newer ones: the number of newer ones tells them apart.
LEMMA FewAreNewest ==
    ASSUME NEW rows \in SUBSET Receipt, Chronological(rows)
    PROVE  LET newest == {r \in rows : Cardinality({q \in rows : q.at > r.at}) < Take}
           IN Cardinality(newest) <= Take
<1> DEFINE newer == [r \in rows |-> {q \in rows : q.at > r.at}]
           count == [r \in rows |-> Cardinality(newer[r])]
           newest == {r \in rows : count[r] < Take}
           rank == [r \in newest |-> count[r]]
<1>1. IsFiniteSet(rows) /\ \A r \in rows : r.at \in Int
  <2>1. Moment \subseteq Int
        BY StorefrontAssumption
  <2>. QED BY <2>1 DEF Chronological, Receipt
<1>2. \A r \in rows : newer[r] = {q \in rows : q.at > r.at}
      OBVIOUS
<1>3. \A r \in rows : count[r] = Cardinality(newer[r])
      OBVIOUS
<1> HIDE DEF newer, count
<1>4. ASSUME NEW r \in rows
      PROVE  IsFiniteSet(newer[r]) /\ count[r] \in Nat
  <2>1. newer[r] \in SUBSET rows
        BY <1>2
  <2>2. IsFiniteSet(newer[r])
        BY <1>1, <2>1, FS_Subset
  <2>. QED BY <1>3, <2>2, FS_CardinalityType
<1>5. ASSUME NEW r \in rows, NEW q \in rows, r.at < q.at
      PROVE  count[q] < count[r]
  <2>1. newer[q] \in SUBSET newer[r]
        BY <1>1, <1>2, <1>5
  <2>2. q \in newer[r] /\ q \notin newer[q]
        BY <1>1, <1>2, <1>5
  <2>3. newer[q] # newer[r]
        BY <2>2
  <2>4. /\ Cardinality(newer[q]) <= Cardinality(newer[r])
        /\ Cardinality(newer[r]) = Cardinality(newer[q]) => newer[r] = newer[q]
        BY <1>4, <2>1, FS_Subset
  <2>. QED BY <1>3, <1>4, <2>3, <2>4
<1>6. rank \in [newest -> 0..(Take - 1)]
  <2>1. ASSUME NEW r \in newest
        PROVE  count[r] \in 0..(Take - 1)
    <3>1. count[r] \in Nat /\ count[r] < Take
          BY <1>4
    <3>. QED BY <3>1, StorefrontAssumption
  <2>. QED BY <2>1
<1>7. ASSUME NEW r \in newest, NEW q \in newest, rank[r] = rank[q]
      PROVE  r = q
  <2>1. r \in rows /\ q \in rows /\ count[r] = count[q]
        BY <1>7
  <2>2. ~ (r.at < q.at) /\ ~ (q.at < r.at)
        BY <1>4, <1>5, <2>1
  <2>3. r.at = q.at
        BY <1>1, <2>1, <2>2
  <2>. QED BY <2>1, <2>3 DEF Chronological
<1> HIDE DEF rank
<1>8. rank \in Injection(newest, 0..(Take - 1))
      BY <1>6, <1>7 DEF Injection, IsInjective
<1>9. /\ IsFiniteSet(0..(Take - 1))
      /\ Cardinality(0..(Take - 1)) = Take
      BY FS_Interval, StorefrontAssumption
<1>10. Cardinality(newest) <= Take
       BY <1>8, <1>9, FS_Injection
<1>11. newest = {r \in rows : Cardinality({q \in rows : q.at > r.at}) < Take}
       BY <1>2, <1>3
<1>. QED BY <1>10, <1>11

\* What the API answers for the activity is a coherent piece of the table.
LEMMA ActivityCoherent ==
    ASSUME StorefrontTypeOK, Chronological(receipts), settings # None
    PROVE  Activity \in SUBSET Receipt /\ Coherent(Activity)
<1> DEFINE here == {r \in receipts : r.network = settings.network}
<1>1. here \in SUBSET Receipt /\ here \in SUBSET receipts
      BY DEF StorefrontTypeOK
<1>2. Chronological(here)
      BY <1>1, FS_Subset DEF Chronological
<1>3. Activity = {r \in here : Cardinality({q \in here : q.at > r.at}) < Take}
      BY DEF Activity
<1>4. Cardinality(Activity) <= Take
      BY <1>1, <1>2, <1>3, FewAreNewest
<1>5. \A a, b \in Activity : a.network = b.network
      BY <1>3
<1>. QED BY <1>1, <1>3, <1>4, <1>5 DEF Coherent
-----------------------------------------------------------------------------
(* What the API answers *)

LEMMA BlankFits ==
    ASSUME NEW view
    PROVE  Fits(view, Blank)
<1>1. Cardinality({}) = 0
      BY FS_EmptySet
<1>. QED BY <1>1, StorefrontAssumption DEF Blank, Fits, Coherent

LEMMA AnsweredTyped ==
    ASSUME StorefrontTypeOK, NEW s \in Slug, products[s] # None
    PROVE  Answered(s) \in Listed /\ Answered(s).slug = s
<1> DEFINE plans == {[name |-> n, plan |-> products[s].plans[n]] :
                       n \in {n \in Name : products[s].plans[n] # None}}
<1>1. products[s].plans \in [Name -> Plan \union {None}]
      BY DEF StorefrontTypeOK, Product
<1>2. \A n \in Name : products[s].plans[n] # None
                        => products[s].plans[n] \in Plan
      BY <1>1
<1>3. plans \in SUBSET [name : Name, plan : Plan]
      BY <1>2
<1> HIDE DEF plans
<1>4. [slug |-> s, plans |-> plans] \in Listed
      BY <1>3 DEF Listed
<1>5. Answered(s) = [slug |-> s, plans |-> plans]
      BY DEF Answered, plans
<1>. QED BY <1>4, <1>5

LEMMA ResponseSound ==
    ASSUME SInv, settings # None, NEW target \in Slug \union {"list", "activity"},
           target \in Slug => Published(target)
    PROVE  Response(target) \in Shown /\ Fits(target, Response(target))
<1>1. StorefrontTypeOK
      BY DEF SInv
<1>2. CASE target = "list"
  <2>0. target \notin Slug
        BY <1>2, StorefrontAssumption
  <2> DEFINE listed == {Answered(s) : s \in {s \in Slug : Published(s)}}
  <2>1. listed \in SUBSET Listed
        BY <1>1, AnsweredTyped DEF Published
  <2>2. Response(target) = [Blank EXCEPT !.listed = listed]
        BY <1>2, <2>0 DEF Response
  <2> HIDE DEF listed
  <2>3. Response(target) \in Shown
        BY <2>1, <2>2, BlankTyped DEF Shown
  <2>4. /\ Response(target).product = Blank.product
        /\ Response(target).items = Blank.items
        BY <2>2 DEF Blank
  <2>. QED BY <2>3, <2>4, BlankFits DEF Fits
<1>3. CASE target = "activity"
  <2>0. target \notin Slug
        BY <1>3, StorefrontAssumption
  <2>1. Activity \in SUBSET Receipt /\ Coherent(Activity)
        BY <1>1, ActivityCoherent DEF SInv
  <2>2. Response(target) = [Blank EXCEPT !.items = Activity]
        BY <1>3, <2>0 DEF Response
  <2>3. Response(target) \in Shown
        BY <2>1, <2>2, BlankTyped DEF Shown
  <2>. QED BY <2>1, <2>2, <2>3 DEF Blank, Fits
<1>4. CASE target \in Slug
  <2>1. target \notin {"list", "activity"}
        BY <1>4, StorefrontAssumption
  <2>2. Answered(target) \in Listed /\ Answered(target).slug = target
        BY <1>1, <1>4, AnsweredTyped DEF Published
  <2>3. Response(target) = [Blank EXCEPT !.product = Answered(target)]
        BY <1>4, <2>1 DEF Response
  <2>4. Response(target) \in Shown
        BY <2>2, <2>3, BlankTyped DEF Shown
  <2>5. /\ Response(target).product = Answered(target)
        /\ Response(target).items = Blank.items
        BY <2>3 DEF Blank
  <2>. QED BY <2>2, <2>4, <2>5, BlankFits DEF Fits
<1>. QED BY <1>2, <1>3, <1>4

LEMMA BlankCurrent == Current(Blank)
BY DEF Blank, Current

\* What the API answers is what is published.
LEMMA ResponseCurrent ==
    ASSUME SInv, NEW target \in Slug \union {"list", "activity"},
           target \in Slug => Published(target)
    PROVE  Current(Response(target))
<1>1. \A s \in Slug : Published(s) => Answered(s) \in Listed /\ Answered(s).slug = s
      BY AnsweredTyped DEF SInv, Published
<1>2. CASE target \notin Slug
  <2>1. /\ Response(target).product = None
        /\ \/ Response(target).listed = {Answered(s) : s \in {s \in Slug : Published(s)}}
           \/ Response(target).listed = {}
        BY <1>2 DEF Response, Blank
  <2>. QED BY <1>1, <2>1 DEF Current
<1>3. CASE target \in Slug
  <2>1. target \notin {"list", "activity"}
        BY <1>3, StorefrontAssumption
  <2>2. Response(target).product = Answered(target) /\ Response(target).listed = {}
        BY <1>3, <2>1 DEF Response, Blank
  <2>. QED BY <1>1, <1>3, <2>2 DEF Current
<1>. QED BY <1>2, <1>3
-----------------------------------------------------------------------------
(* The pages' steps *)

\* A step of a page leaves everything behind it as it is.
LEMMA PageStep ==
    ASSUME SInv, UNCHANGED server,
           tab' \in Tab,
           fetches' \in [Mount -> Fetch \union {None}],
           touched' \in BOOLEAN,
           Coherent(tab'.shown.items), AnswersFit', PageShowsItsUrl', PageIsCurrent'
    PROVE  SInv'
<1>1. StorefrontTypeOK'
      BY DEF SInv, StorefrontTypeOK, server, tables
<1>2. ActivityOnOneLedger'
      BY DEF ActivityOnOneLedger, Coherent, server, tables
<1>3. Chronological(receipts)' /\ SeedHasProduct'
      BY DEF SInv, SeedHasProduct, Chronological, server, tables
<1>. QED BY <1>1, <1>2, <1>3 DEF SInv

\* The catalogue is as it was, so what was current is current.
LEMMA StaysCurrent ==
    ASSUME NEW shown, Current(shown), UNCHANGED <<products, approved>>
    PROVE  Current(shown)'
BY DEF Current, Published, Answered

LEMMA FreshTyped ==
    ASSUME NEW view \in View, NEW mount \in 0..MaxMounts
    PROVE  Fresh(view, mount) \in Tab
BY BlankTyped DEF Fresh, Tab

LEMMA VisitKeeps ==
    ASSUME SInv, NEW view \in View \ {"lost"}, Visit(view)
    PROVE  SInv'
<1> DEFINE m == tab.mount + 1
<1>1. m \in Mount /\ m \in 0..MaxMounts
      BY StorefrontAssumption DEF SInv, StorefrontTypeOK, Tab, Visit, Mount
<1>2. tab' = Fresh(Page(view), m)
      BY DEF Visit
<1>3. fetches' = [n \in Mount |-> IF n = m THEN Sent(Page(view)) ELSE None]
      BY DEF Visit
<1> HIDE DEF m
<1>4. tab' \in Tab
      BY <1>1, <1>2, PageTyped, FreshTyped
<1>5. fetches' \in [Mount -> Fetch \union {None}]
      BY <1>3, PageTyped, SentTyped
<1>6. tab'.shown = Blank /\ tab'.mount = m /\ tab'.view = Page(view)
      BY <1>2 DEF Fresh
<1>7. Coherent(tab'.shown.items)
      BY <1>6, BlankFits DEF Fits
<1>8. PageShowsItsUrl'
      BY <1>6 DEF PageShowsItsUrl, Blank
<1>9. AnswersFit'
      BY <1>1, <1>3, <1>6 DEF AnswersFit, Sent, Mount
<1>10. PageIsCurrent'
  <2>1. fetches'[m] = Sent(Page(view))
        BY <1>1, <1>3
  <2>2. Sent(Page(view)) # None => Sent(Page(view)).reply = None
        BY DEF Sent
  <2>3. Current(Blank)'
        BY DEF Blank, Current
  <2>. QED BY <1>6, <2>1, <2>2, <2>3 DEF PageIsCurrent
<1>. QED BY <1>4, <1>5, <1>7, <1>8, <1>9, <1>10, PageStep DEF Visit

LEMMA FollowKeeps ==
    ASSUME SInv, NEW view \in View \ {"lost"}, Follow(view)
    PROVE  SInv'
<1> DEFINE m == tab.mount + 1
<1>1. m \in Mount /\ m \in 0..MaxMounts /\ tab.mount < m /\ tab \in Tab
      BY StorefrontAssumption DEF SInv, StorefrontTypeOK, Tab, Follow, Mount
<1>2. \/ tab' = Fresh(Page(view), m)
      \/ /\ Page(view) \in Slug
         /\ tab' = [tab EXCEPT !.view = Page(view), !.mount = m]
  <2>1. Page(view) \in Slug => Page(view) = view
        BY StorefrontAssumption DEF Page
  <2>. QED BY <2>1 DEF Follow
<1>3. fetches' = [fetches EXCEPT ![m] = Sent(Page(view))]
      BY DEF Follow
<1> HIDE DEF m
<1>4. tab' \in Tab
  <2>1. CASE tab' = Fresh(Page(view), m)
        BY <1>1, <2>1, PageTyped, FreshTyped
  <2>2. CASE tab' = [tab EXCEPT !.view = Page(view), !.mount = m]
        BY <1>1, <2>2, PageTyped DEF Tab
  <2>. QED BY <1>2, <2>1, <2>2
<1>5. fetches' \in [Mount -> Fetch \union {None}]
      BY <1>3, PageTyped, SentTyped DEF SInv, StorefrontTypeOK
<1>6. /\ tab'.mount = m /\ tab'.view = Page(view)
      /\ \/ tab'.shown = Blank
         \/ Page(view) \in Slug /\ tab'.shown = tab.shown
  <2>1. CASE tab' = Fresh(Page(view), m)
        BY <2>1 DEF Fresh
  <2>2. CASE /\ Page(view) \in Slug
             /\ tab' = [tab EXCEPT !.view = Page(view), !.mount = m]
        BY <1>1, <2>2 DEF Tab
  <2>. QED BY <1>2, <2>1, <2>2
<1>7. Coherent(tab'.shown.items)
      BY <1>6, BlankFits DEF Fits, SInv, ActivityOnOneLedger
<1>8. fetches'[m] = Sent(Page(view))
      BY <1>1, <1>3 DEF SInv, StorefrontTypeOK
<1>9. PageShowsItsUrl'
  <2>1. CASE tab'.shown = Blank
        BY <2>1 DEF PageShowsItsUrl, Blank
  <2>2. CASE Page(view) \in Slug
    <3>1. Sent(Page(view)) \in Fetch /\ Sent(Page(view)) # None
          BY <2>2, PageTyped, StorefrontAssumption DEF Sent, Fetch
    <3>. QED BY <1>6, <1>8, <3>1 DEF PageShowsItsUrl
  <2>. QED BY <1>6, <2>1, <2>2
<1>10. AnswersFit'
  <2>1. SUFFICES ASSUME NEW n \in Mount, fetches'[n] # None
                 PROVE  /\ n <= tab'.mount
                        /\ n = tab'.mount => fetches'[n].target = tab'.view
                        /\ fetches'[n].target # "lost"
                        /\ fetches'[n].reply # None =>
                              Fits(fetches[n].target, fetches[n].reply.shown)'
        BY DEF AnswersFit
  <2>2. CASE n = m
        BY <1>1, <1>6, <1>8, <2>1, <2>2 DEF Sent, Mount
  <2>3. CASE n # m
    <3>1. fetches'[n] = fetches[n] /\ fetches[n] # None
          BY <1>3, <2>1, <2>3 DEF SInv, StorefrontTypeOK
    <3>2. n < m
          BY <1>1, <3>1 DEF SInv, AnswersFit, StorefrontTypeOK, Tab, Mount
    <3>3. receipts' = receipts
          BY DEF Follow, server, tables
    <3>4. /\ fetches[n].target # "lost"
          /\ fetches[n].reply # None => Fits(fetches[n].target, fetches[n].reply.shown)
          BY <3>1 DEF SInv, AnswersFit
    <3>5. fetches[n].reply # None => Fits(fetches[n].target, fetches[n].reply.shown)'
          BY <3>1, <3>3, <3>4 DEF Fits, Coherent
    <3>6. n <= tab'.mount /\ n # tab'.mount
          BY <1>1, <1>6, <3>2 DEF Mount
    <3>. QED BY <3>1, <3>4, <3>5, <3>6
  <2>. QED BY <2>2, <2>3
<1>11. PageIsCurrent'
  <2>1. Sent(Page(view)) # None => Sent(Page(view)).reply = None
        BY DEF Sent
  <2>2. ASSUME Sent(Page(view)) = None PROVE tab'.shown = Blank
    <3>1. Page(view) \notin Slug
          BY <2>2, PageTyped, StorefrontAssumption DEF Sent, Fetch
    <3>. QED BY <1>6, <3>1
  <2>3. Current(Blank)'
        BY DEF Blank, Current
  <2>. QED BY <1>6, <1>8, <2>1, <2>2, <2>3 DEF PageIsCurrent
<1>. QED BY <1>4, <1>5, <1>7, <1>9, <1>10, <1>11, PageStep DEF Follow

\* Requests of views are untouched by a step on another one.
LEMMA OthersFit ==
    ASSUME SInv, NEW m \in Mount, NEW n \in Mount, n # m, fetches'[n] = fetches[n],
           fetches'[n] # None, UNCHANGED server,
           tab'.mount = tab.mount, tab'.view = tab.view
    PROVE  /\ n <= tab'.mount
           /\ n = tab'.mount => fetches'[n].target = tab'.view
           /\ fetches'[n].target # "lost"
           /\ fetches'[n].reply # None => Fits(fetches[n].target, fetches[n].reply.shown)'
<1>1. /\ n <= tab.mount
      /\ n = tab.mount => fetches[n].target = tab.view
      /\ fetches[n].target # "lost"
      /\ fetches[n].reply # None => Fits(fetches[n].target, fetches[n].reply.shown)
      BY DEF SInv, AnswersFit
<1>2. fetches[n].reply # None => Fits(fetches[n].target, fetches[n].reply.shown)'
      BY <1>1 DEF Fits, Coherent, server, tables
<1>. QED BY <1>1, <1>2

LEMMA ServeKeeps ==
    ASSUME SInv, NEW m \in Mount, Serve(m)
    PROVE  SInv'
<1> DEFINE target == fetches[m].target
           Wanted(reply) == /\ reply \in Reply
                            /\ Fits(target, reply.shown)
                            /\ Current(reply.shown)
<1>1. fetches[m] \in Fetch /\ fetches[m] # None
      BY DEF Serve, SInv, StorefrontTypeOK
<1>2. /\ m <= tab.mount
      /\ m = tab.mount => target = tab.view
      /\ target # "lost"
      BY <1>1 DEF SInv, AnswersFit
<1>3. target \in Slug \union {"list", "activity"}
      BY <1>1, <1>2 DEF Fetch, View
<1>4. PICK reply : Wanted(reply) /\ fetches' = [fetches EXCEPT ![m].reply = reply]
  <2>1. CASE fetches' = [fetches EXCEPT ![m].reply = [ok |-> FALSE, shown |-> Blank]]
    <3>1. Wanted([ok |-> FALSE, shown |-> Blank])
          BY BlankTyped, BlankFits, BlankCurrent DEF Reply
    <3>. QED BY <2>1, <3>1
  <2>2. CASE /\ settings # None
             /\ target \in Slug => Published(target)
             /\ fetches' = [fetches EXCEPT ![m].reply =
                              [ok |-> TRUE, shown |-> Response(target)]]
    <3>1. /\ Response(target) \in Shown /\ Fits(target, Response(target))
          /\ Current(Response(target))
          BY <1>3, <2>2, ResponseSound, ResponseCurrent
    <3>2. Wanted([ok |-> TRUE, shown |-> Response(target)])
          BY <3>1 DEF Reply
    <3>. QED BY <2>2, <3>2
  <2>. QED BY <2>1, <2>2 DEF Serve
<1>5. [fetches[m] EXCEPT !.reply = reply] \in Fetch
      BY <1>1, <1>4 DEF Fetch
<1>6. fetches' = [fetches EXCEPT ![m] = [fetches[m] EXCEPT !.reply = reply]]
      BY <1>4
<1>7. fetches' \in [Mount -> Fetch \union {None}]
      BY <1>5, <1>6 DEF SInv, StorefrontTypeOK
<1>8. /\ fetches'[m] \in Fetch /\ fetches'[m].reply = reply
      /\ fetches'[m].target = target
      /\ \A n \in Mount : n # m => fetches'[n] = fetches[n]
      BY <1>1, <1>5, <1>6 DEF SInv, StorefrontTypeOK, Fetch
<1>9. tab' = tab /\ touched' = touched /\ UNCHANGED server
      BY DEF Serve
<1>10. fetches'[m] # None
       BY <1>8, StorefrontAssumption
<1>11. tab.mount \in Mount
       BY <1>2 DEF SInv, StorefrontTypeOK, Tab, Mount
<1>12. PageShowsItsUrl'
       BY <1>8, <1>9, <1>10, <1>11 DEF SInv, PageShowsItsUrl
<1>13. AnswersFit'
  <2>1. SUFFICES ASSUME NEW n \in Mount, fetches'[n] # None
                 PROVE  /\ n <= tab'.mount
                        /\ n = tab'.mount => fetches'[n].target = tab'.view
                        /\ fetches'[n].target # "lost"
                        /\ fetches'[n].reply # None =>
                              Fits(fetches[n].target, fetches[n].reply.shown)'
        BY DEF AnswersFit
  <2>2. CASE n = m
    <3>1. Fits(target, reply.shown)
          BY <1>4
    <3>2. Fits(fetches[m].target, fetches[m].reply.shown)'
          BY <1>8, <1>9, <3>1 DEF Fits, Coherent, server, tables
    <3>. QED BY <1>2, <1>8, <1>9, <2>2, <3>2
  <2>3. CASE n # m
        BY <1>8, <1>9, <2>1, <2>3, OthersFit
  <2>. QED BY <2>2, <2>3
<1>14. Coherent(tab'.shown.items)
       BY <1>9 DEF SInv, ActivityOnOneLedger
<1>15. tab' \in Tab
       BY <1>9 DEF SInv, StorefrontTypeOK
<1>16. PageIsCurrent'
  <2>1. UNCHANGED <<products, approved>>
        BY <1>9 DEF server, tables
  <2>2. CASE m = tab.mount
    <3>1. Current(reply.shown)'
          BY <1>4, <2>1, StaysCurrent
    <3>. QED BY <1>8, <1>9, <1>10, <2>2, <3>1 DEF PageIsCurrent
  <2>3. CASE m # tab.mount
    <3>1. fetches'[tab.mount] = fetches[tab.mount]
          BY <1>8, <1>11, <2>3
    <3>. QED BY <1>9, <2>1, <3>1, StaysCurrent DEF PageIsCurrent, SInv
  <2>. QED BY <2>2, <2>3
<1>17. touched' \in BOOLEAN
       BY <1>9 DEF SInv, StorefrontTypeOK
<1>. QED BY <1>7, <1>9, <1>12, <1>13, <1>14, <1>15, <1>16, <1>17, PageStep

LEMMA DeliverKeeps ==
    ASSUME SInv, NEW m \in Mount, Deliver(m)
    PROVE  SInv'
<1> DEFINE reply == fetches[m].reply
<1>1. /\ fetches[m] \in Fetch /\ fetches[m] # None
      /\ reply \in Reply /\ reply # None
      BY DEF Deliver, Arrived, SInv, StorefrontTypeOK, Fetch
<1>2. /\ m <= tab.mount
      /\ m = tab.mount => fetches[m].target = tab.view
      /\ Fits(fetches[m].target, reply.shown)
      BY <1>1 DEF SInv, AnswersFit
<1>3. /\ fetches' = [fetches EXCEPT ![m] = None]
      /\ tab' = IF m = tab.mount THEN Rendered(reply) ELSE tab
      /\ touched' = touched /\ UNCHANGED server
      BY DEF Deliver
<1>4. tab \in Tab
      BY DEF SInv, StorefrontTypeOK
<1>5. reply.shown \in Shown
      BY <1>1 DEF Reply
<1>6. /\ Rendered(reply) \in Tab
      /\ Rendered(reply).mount = tab.mount /\ Rendered(reply).view = tab.view
      /\ Rendered(reply).shown = reply.shown
      BY <1>4, <1>5 DEF Rendered, Tab
<1>7. tab' \in Tab /\ tab'.mount = tab.mount /\ tab'.view = tab.view
      BY <1>3, <1>4, <1>6
<1>8. /\ fetches' \in [Mount -> Fetch \union {None}]
      /\ fetches'[m] = None
      /\ \A n \in Mount : n # m => fetches'[n] = fetches[n]
      BY <1>3 DEF SInv, StorefrontTypeOK
<1>9. Coherent(tab'.shown.items)
      BY <1>2, <1>3, <1>6 DEF SInv, ActivityOnOneLedger, Fits
<1>10. PageShowsItsUrl'
  <2>1. CASE m = tab.mount
        BY <1>2, <1>3, <1>6, <1>7, <2>1 DEF PageShowsItsUrl, Fits
  <2>2. CASE m # tab.mount
    <3>1. tab.mount \in Mount
          BY <1>2 DEF SInv, StorefrontTypeOK, Tab, Mount
    <3>. QED BY <1>3, <1>8, <2>2, <3>1 DEF SInv, PageShowsItsUrl
  <2>. QED BY <2>1, <2>2
<1>11. AnswersFit'
  <2>1. SUFFICES ASSUME NEW n \in Mount, fetches'[n] # None
                 PROVE  /\ n <= tab'.mount
                        /\ n = tab'.mount => fetches'[n].target = tab'.view
                        /\ fetches'[n].target # "lost"
                        /\ fetches'[n].reply # None =>
                              Fits(fetches[n].target, fetches[n].reply.shown)'
        BY DEF AnswersFit
  <2>. QED BY <1>3, <1>7, <1>8, <2>1, OthersFit
<1>12. PageIsCurrent'
  <2>1. UNCHANGED <<products, approved>>
        BY <1>3 DEF server, tables
  <2>2. CASE m = tab.mount
    <3>1. tab'.shown = reply.shown /\ fetches'[tab'.mount] = None
          BY <1>3, <1>6, <1>7, <1>8, <2>2
    <3>2. ~ touched => Current(reply.shown)
          BY <1>1, <2>2 DEF SInv, PageIsCurrent
    <3>. QED BY <1>3, <2>1, <3>1, <3>2, StaysCurrent DEF PageIsCurrent
  <2>3. CASE m # tab.mount
    <3>1. tab.mount \in Mount
          BY <1>2 DEF SInv, StorefrontTypeOK, Tab, Mount
    <3>2. tab' = tab /\ fetches'[tab.mount] = fetches[tab.mount]
          BY <1>3, <1>8, <2>3, <3>1
    <3>. QED BY <1>3, <2>1, <3>2, StaysCurrent DEF PageIsCurrent, SInv
  <2>. QED BY <2>2, <2>3
<1>13. touched' \in BOOLEAN
       BY <1>3 DEF SInv, StorefrontTypeOK
<1>. QED BY <1>3, <1>7, <1>8, <1>9, <1>10, <1>11, <1>12, <1>13, PageStep
-----------------------------------------------------------------------------
(* What happens behind the pages *)

\* A step behind the pages leaves the pages alone, and receipts stay.
LEMMA BehindStep ==
    ASSUME SInv, tab' = tab, fetches' = fetches,
           receipts \subseteq receipts', receipts' \subseteq Receipt,
           settings' \in Settings \union {None},
           products' \in [Slug -> Product \union {None}],
           approved' \subseteq Provider,
           seeding' \in 0..(2 * Len(Catalogue)) \union {None},
           events' \in 0..MaxEvents,
           touched' = TRUE \/ UNCHANGED <<touched, products, approved>>,
           Chronological(receipts)', SeedHasProduct'
    PROVE  SInv'
<1>1. StorefrontTypeOK'
      BY DEF SInv, StorefrontTypeOK
<1>2. PageShowsItsUrl'
      BY DEF SInv, PageShowsItsUrl
<1>4. ActivityOnOneLedger'
      BY DEF SInv, ActivityOnOneLedger, Coherent
<1>5. AnswersFit'
  <2>1. SUFFICES ASSUME NEW n \in Mount, fetches[n] # None
                 PROVE  /\ n <= tab.mount
                        /\ n = tab.mount => fetches[n].target = tab.view
                        /\ fetches[n].target # "lost"
                        /\ fetches[n].reply # None =>
                              Fits(fetches[n].target, fetches[n].reply.shown)'
        BY DEF AnswersFit, Fits, Coherent
  <2>2. fetches[n].reply # None => Fits(fetches[n].target, fetches[n].reply.shown)
        BY <2>1 DEF SInv, AnswersFit
  <2>3. fetches[n].reply # None => Fits(fetches[n].target, fetches[n].reply.shown)'
        BY <2>2 DEF Fits, Coherent
  <2>. QED BY <2>1, <2>3 DEF SInv, AnswersFit
<1>6. PageIsCurrent'
      BY StaysCurrent DEF SInv, PageIsCurrent
<1>. QED BY <1>1, <1>2, <1>4, <1>5, <1>6 DEF SInv

LEMMA SeedRow ==
    ASSUME NEW i \in 1..Len(Catalogue)
    PROVE  Catalogue[i].slug \in Slug /\ Catalogue[i].amount \in Nat
<1> DEFINE Row == [slug : Slug, amount : Nat]
<1>1. Catalogue \in Seq(Row)
      BY StorefrontAssumption
<1> HIDE DEF Row
<1>2. Catalogue[i] \in Row
      BY <1>1
<1>. QED BY <1>2 DEF Row

LEMMA EventCounted ==
    ASSUME SInv, Event
    PROVE  events' \in 0..MaxEvents
BY StorefrontAssumption DEF Event, SInv, StorefrontTypeOK

LEMMA DeployKeeps ==
    ASSUME SInv, Deploy
    PROVE  SInv'
<1>1. PICK env \in Env : settings' = ReadStellarSettings(env)
      BY DEF Deploy
<1>2. settings' \in Settings \union {None}
      BY <1>1, SettingsRead
<1>3. Chronological(receipts)' /\ SeedHasProduct'
      BY DEF Deploy, SInv, Chronological, SeedHasProduct, tables
<1>. QED BY <1>2, <1>3, EventCounted, BehindStep
         DEF Deploy, SInv, StorefrontTypeOK, tables

LEMMA WriteKeeps ==
    ASSUME SInv, NEW s \in Slug, Write(s)
    PROVE  SInv'
<1>1. PICK offer \in Offers : products' = [products EXCEPT ![s] = offer]
      BY DEF Write
<1>2. offer \in Product /\ offer # None
      BY StorefrontAssumption
<1>3. products' \in [Slug -> Product \union {None}]
      BY <1>1, <1>2 DEF SInv, StorefrontTypeOK
<1>4. \A t : products[t] # None /\ t \in Slug => products'[t] # None
      BY <1>1, <1>2 DEF SInv, StorefrontTypeOK
<1>5. SeedHasProduct'
  <2>1. SUFFICES ASSUME seeding # None, seeding % 2 = 1
                 PROVE  products'[Catalogue[seeding \div 2 + 1].slug] # None
        BY DEF SeedHasProduct, Write
  <2>2. seeding \div 2 + 1 \in 1..Len(Catalogue)
        BY <2>1, StorefrontAssumption DEF SInv, StorefrontTypeOK
  <2>3. Catalogue[seeding \div 2 + 1].slug \in Slug
        BY <2>2, SeedRow
  <2>. QED BY <1>4, <2>1, <2>3 DEF SInv, SeedHasProduct
<1>6. Chronological(receipts)'
      BY DEF Write, SInv, Chronological
<1>. QED BY <1>3, <1>5, <1>6, EventCounted, BehindStep DEF Write, SInv, StorefrontTypeOK

LEMMA ReviewKeeps ==
    ASSUME SInv, Review
    PROVE  SInv'
<1>1. Chronological(receipts)' /\ SeedHasProduct'
      BY DEF Review, SInv, Chronological, SeedHasProduct
<1>. QED BY <1>1, EventCounted, BehindStep DEF Review, SInv, StorefrontTypeOK

LEMMA ConfirmKeeps ==
    ASSUME SInv, Confirm
    PROVE  SInv'
<1>1. PICK at \in Moment :
         /\ \A r \in receipts : r.at # at
         /\ receipts' = receipts \union {[network |-> settings.network, at |-> at]}
      BY DEF Confirm
<1>2. [network |-> settings.network, at |-> at] \in Receipt
      BY DEF Confirm, SInv, StorefrontTypeOK, Settings, Receipt
<1>3. receipts' \subseteq Receipt /\ receipts \subseteq receipts'
      BY <1>1, <1>2 DEF SInv, StorefrontTypeOK
<1>4. IsFiniteSet(receipts')
      BY <1>1, FS_AddElement DEF SInv, Chronological
<1>5. \A r, q \in receipts' : r.at = q.at => r = q
      BY <1>1 DEF SInv, Chronological
<1>6. Chronological(receipts)' /\ SeedHasProduct'
      BY <1>4, <1>5 DEF Confirm, SInv, Chronological, SeedHasProduct
<1>. QED BY <1>3, <1>6, EventCounted, BehindStep DEF Confirm, SInv, StorefrontTypeOK
-----------------------------------------------------------------------------
(* The seed *)

LEMMA SeedProviderKeeps ==
    ASSUME SInv, SeedProvider
    PROVE  SInv'
<1>1. approved' \subseteq Provider
      BY StorefrontAssumption DEF SeedProvider, SInv, StorefrontTypeOK
<1>2. 0 \in 0..(2 * Len(Catalogue))
      BY StorefrontAssumption
<1>3. Chronological(receipts)' /\ SeedHasProduct'
      BY DEF SeedProvider, SInv, Chronological, SeedHasProduct
<1>. QED BY <1>1, <1>2, <1>3, EventCounted, BehindStep
         DEF SeedProvider, SInv, StorefrontTypeOK

LEMMA SeedProductKeeps ==
    ASSUME SInv, SeedProduct
    PROVE  SInv'
<1> DEFINE s == Catalogue[seeding \div 2 + 1].slug
           made == IF products[s] = None
                   THEN [provider |-> Labs, active |-> TRUE, plans |-> Unpriced]
                   ELSE [products[s] EXCEPT !.active = TRUE]
<1>1. /\ seeding \in 0..(2 * Len(Catalogue)) /\ seeding < 2 * Len(Catalogue)
      /\ seeding % 2 = 0 /\ seeding' = seeding + 1
      /\ Len(Catalogue) \in Nat
      BY StorefrontAssumption DEF SeedProduct, SInv, StorefrontTypeOK
<1>2. /\ seeding \div 2 + 1 \in 1..Len(Catalogue)
      /\ seeding' \div 2 = seeding \div 2
      /\ seeding' \in 0..(2 * Len(Catalogue))
      BY <1>1
<1>3. s \in Slug
      BY <1>2, SeedRow
<1>4. products' = [products EXCEPT ![s] = made]
      BY DEF SeedProduct
<1>5. made \in Product
  <2>1. [provider |-> Labs, active |-> TRUE, plans |-> Unpriced] \in Product
        BY StorefrontAssumption DEF Product, Unpriced
  <2>2. products[s] # None => [products[s] EXCEPT !.active = TRUE] \in Product
        BY <1>3 DEF SInv, StorefrontTypeOK, Product
  <2>. QED BY <2>1, <2>2
<1> HIDE DEF made
<1>6. products' \in [Slug -> Product \union {None}] /\ products'[s] # None
      BY <1>3, <1>4, <1>5, StorefrontAssumption DEF SInv, StorefrontTypeOK
<1>7. SeedHasProduct'
      BY <1>2, <1>6 DEF SeedHasProduct
<1>8. Chronological(receipts)'
      BY DEF SeedProduct, SInv, Chronological
<1>. QED BY <1>2, <1>6, <1>7, <1>8, BehindStep DEF SeedProduct, SInv, StorefrontTypeOK

LEMMA SeedPlanKeeps ==
    ASSUME SInv, SeedPlan
    PROVE  SInv'
<1> DEFINE row == Catalogue[seeding \div 2 + 1]
           plan == [asset |-> Native, amount |-> row.amount]
           product == products[row.slug]
<1>1. /\ seeding \in 0..(2 * Len(Catalogue))
      /\ seeding % 2 = 1 /\ seeding' = seeding + 1
      /\ Len(Catalogue) \in Nat
      BY StorefrontAssumption DEF SeedPlan, SInv, StorefrontTypeOK
<1>2. /\ seeding \div 2 + 1 \in 1..Len(Catalogue)
      /\ seeding' \in 0..(2 * Len(Catalogue)) /\ ~ (seeding' % 2 = 1)
      BY <1>1
<1>3. row.slug \in Slug /\ row.amount \in Nat
      BY <1>2, SeedRow
<1>4. product # None
      BY DEF SeedPlan, SInv, SeedHasProduct
<1>5. product \in Product
      BY <1>3, <1>4 DEF SInv, StorefrontTypeOK
<1>6. plan \in Plan
      BY <1>3, StorefrontAssumption DEF Plan
<1>7. products' = [products EXCEPT ![row.slug].plans[PerRequest] = plan]
      BY DEF SeedPlan
<1> HIDE DEF plan, row
<1>8. [product EXCEPT !.plans = [product.plans EXCEPT ![PerRequest] = plan]] \in Product
      BY <1>5, <1>6 DEF Product
<1>9. products' = [products EXCEPT ![row.slug] =
                     [product EXCEPT !.plans = [product.plans EXCEPT ![PerRequest] = plan]]]
      BY <1>7
<1>10. products' \in [Slug -> Product \union {None}]
       BY <1>3, <1>8, <1>9 DEF SInv, StorefrontTypeOK
<1>11. SeedHasProduct'
       BY <1>2 DEF SeedHasProduct
<1>12. Chronological(receipts)'
       BY DEF SeedPlan, SInv, Chronological
<1>. QED BY <1>2, <1>10, <1>11, <1>12, BehindStep DEF SeedPlan, SInv, StorefrontTypeOK

LEMMA SeedEndsKeeps ==
    ASSUME SInv, SeedEnds
    PROVE  SInv'
<1>1. Chronological(receipts)' /\ SeedHasProduct'
      BY DEF SeedEnds, SInv, Chronological, SeedHasProduct, tables
<1>. QED BY <1>1, BehindStep DEF SeedEnds, SInv, StorefrontTypeOK, tables
-----------------------------------------------------------------------------
(* The theorems *)

LEMMA InitHolds == StorefrontInit => SInv
<1> SUFFICES ASSUME StorefrontInit
             PROVE  SInv
    OBVIOUS
<1>1. PICK env \in Env : settings = ReadStellarSettings(env)
      BY DEF StorefrontInit
<1>2. settings \in Settings \union {None}
      BY <1>1, SettingsRead
<1>3. tab = Fresh("lost", 0)
      BY DEF StorefrontInit
<1>4. "lost" \in View /\ 0 \in 0..MaxMounts /\ 0 \in 0..MaxEvents
      BY StorefrontAssumption DEF View
<1>5. /\ tab \in Tab
      /\ tab.shown = Blank
      BY <1>3, <1>4, FreshTyped DEF Fresh
<1>6. StorefrontTypeOK
      BY <1>2, <1>4, <1>5, StorefrontAssumption DEF StorefrontInit, StorefrontTypeOK
<1>7. PageShowsItsUrl /\ ActivityOnOneLedger
      BY <1>5, BlankFits DEF PageShowsItsUrl, ActivityOnOneLedger, Fits, Blank
<1>8. AnswersFit
      BY DEF StorefrontInit, AnswersFit
<1>9. Chronological(receipts)
      BY StorefrontAssumption DEF StorefrontInit
<1>10. SeedHasProduct
       BY DEF StorefrontInit, SeedHasProduct
<1>11. PageIsCurrent
       BY <1>3 DEF PageIsCurrent, Fresh, Mount
<1>. QED BY <1>6, <1>7, <1>8, <1>9, <1>10, <1>11 DEF SInv

LEMMA StutterKeeps ==
    ASSUME SInv, UNCHANGED storefront
    PROVE  SInv'
<1>1. Chronological(receipts)' /\ SeedHasProduct'
      BY DEF SInv, Chronological, SeedHasProduct, storefront, tables
<1>. QED BY <1>1, BehindStep DEF SInv, StorefrontTypeOK, storefront, tables

LEMMA NextKeeps == SInv /\ [StorefrontNext]_storefront => SInv'
<1> SUFFICES ASSUME SInv, [StorefrontNext]_storefront
             PROVE  SInv'
    OBVIOUS
<1>1. CASE \E view \in View \ {"lost"} : Visit(view) \/ Follow(view)
      BY <1>1, VisitKeeps, FollowKeeps
<1>2. CASE \E m \in Mount : Serve(m) \/ Deliver(m)
      BY <1>2, ServeKeeps, DeliverKeeps
<1>3. CASE Deploy \/ Review \/ Confirm
      BY <1>3, DeployKeeps, ReviewKeeps, ConfirmKeeps
<1>4. CASE \E s \in Slug : Write(s)
      BY <1>4, WriteKeeps
<1>5. CASE SeedProvider \/ SeedProduct \/ SeedPlan \/ SeedEnds
      BY <1>5, SeedProviderKeeps, SeedProductKeeps, SeedPlanKeeps, SeedEndsKeeps
<1>6. CASE UNCHANGED storefront
      BY <1>6, StutterKeeps
<1>. QED BY <1>1, <1>2, <1>3, <1>4, <1>5, <1>6 DEF StorefrontNext

\* SInv holds in every state of the site, whatever it sells and whoever
\* writes, redeploys, reseeds or browses.
THEOREM StorefrontInvariant == StorefrontSpec => []SInv
<1>. QED BY InitHolds, NextKeeps, PTL DEF StorefrontSpec

\* Every variable of the site, its API and its tables keeps its type.
THEOREM StorefrontTypeCorrect == StorefrontSpec => []StorefrontTypeOK
<1>1. SInv => StorefrontTypeOK
      BY DEF SInv
<1>. QED BY <1>1, StorefrontInvariant, PTL

\* A page that waits for nothing shows the product of its address, however
\* many pages were opened and in whatever order their answers came.
THEOREM PageMatchesAddress == StorefrontSpec => []PageShowsItsUrl
<1>1. SInv => PageShowsItsUrl
      BY DEF SInv
<1>. QED BY <1>1, StorefrontInvariant, PTL

\* The activity shows at most Take receipts, all of one ledger and all real.
THEOREM ActivityIsCoherent == StorefrontSpec => []ActivityOnOneLedger
<1>1. SInv => ActivityOnOneLedger
      BY DEF SInv
<1>. QED BY <1>1, StorefrontInvariant, PTL

\* entryPlan is written once for the site and once for the API: both choose
\* the cheapest plans that are not below zero.
LEMMA EntryPlanTwice ==
    ASSUME NEW plans \in SUBSET [name : Name, plan : Plan]
    PROVE  /\ ShownPlans(plans) = EntryPlans(plans)
           /\ \A p \in EntryPlans(plans) : p.plan.amount \in Nat
           /\ \A p, q \in EntryPlans(plans) : p.plan.amount = q.plan.amount
<1>1. \A p \in plans : p.plan.amount \in Int
      BY DEF Plan
<1>. QED BY <1>1 DEF ShownPlans, EntryPlans

\* The products on the page.
OnPage == tab.shown.listed \union ({tab.shown.product} \ {None})

LEMMA PlansOnPage ==
    ASSUME SInv, NEW product \in OnPage
    PROVE  product.plans \in SUBSET [name : Name, plan : Plan]
<1>1. OnPage \subseteq Listed
      BY DEF SInv, StorefrontTypeOK, Tab, OnPage, Shown
<1>. QED BY <1>1 DEF Listed

\* The site and the API choose the same plans from every product that can be
\* on a page.
THEOREM OneEntryPlan == StorefrontSpec =>
    [](\A product \in OnPage : ShownPlans(product.plans) = EntryPlans(product.plans))
<1>1. SInv => \A product \in OnPage :
                ShownPlans(product.plans) = EntryPlans(product.plans)
      BY PlansOnPage, EntryPlanTwice
<1>. QED BY <1>1, StorefrontInvariant, PTL

\* A published product shown as it is answered agrees with the gateway, on a
\* card and on its own page.
LEMMA AnsweredAgrees ==
    ASSUME SInv, NEW s \in Slug, Published(s)
    PROVE  CardAgrees(Answered(s)) /\ DetailAgrees(Answered(s))
<1> DEFINE product == Answered(s)
           asked == EntryPlans(product.plans)
           legible == {price \in DetailPrices(product) : price.amount # None}
<1>1. /\ product \in Listed /\ product.slug = s
      /\ product.plans \in SUBSET [name : Name, plan : Plan]
  <2>1. product \in Listed /\ product.slug = s
        BY AnsweredTyped DEF SInv, Published
  <2>. QED BY <2>1 DEF Listed
<1>2. AskedPlans(product.slug) = asked
      BY <1>1 DEF AskedPlans
<1>3. OnSale(product.slug) <=> \E p \in product.plans : p.plan.amount >= 0
      BY <1>1 DEF OnSale
<1> HIDE DEF product
<1>4. /\ ShownPlans(product.plans) = asked
      /\ \A p \in asked : p.plan.amount \in Nat
      /\ \A p, q \in asked : p.plan.amount = q.plan.amount
      BY <1>1, EntryPlanTwice
<1>5. /\ asked \subseteq product.plans
      /\ \A p \in asked, q \in product.plans :
            q.plan.amount >= 0 => p.plan.amount <= q.plan.amount
      BY DEF EntryPlans
<1>6. \A q \in product.plans : q.plan.amount \in Int
      BY <1>1 DEF Plan
<1> HIDE DEF asked
<1>7. ASSUME NEW q \in product.plans, q.plan.amount >= 0
      PROVE  AtomicUnits(FormatAmount(q.plan).amount) = q.plan.amount
  <2>1. q.plan.amount \in Nat
        BY <1>6, <1>7
  <2>2. FormatAmount(q.plan).amount = DecimalText(q.plan.amount)
        BY <1>7 DEF FormatAmount
  <2>. QED BY <2>1, <2>2, RoundTrip
<1>8. CardAgrees(product)
  <2>1. ProductPrices(product) = {FormatAmount(p.plan) : p \in asked}
        BY <1>4 DEF ProductPrices
  <2>2. ASSUME NEW q \in asked, NEW p \in asked
        PROVE  AtomicUnits(FormatAmount(q.plan).amount) = p.plan.amount
    <3>1. q.plan.amount = p.plan.amount /\ q.plan.amount >= 0
          BY <1>4
    <3>. QED BY <1>5, <1>7, <3>1
  <2>. QED BY <1>2, <2>1, <2>2 DEF CardAgrees
<1>9. DetailAgrees(product)
  <2>1. ASSUME NEW price \in legible
        PROVE  \E q \in product.plans : q.plan.amount >= 0 /\ price = FormatAmount(q.plan)
    <3>1. PICK q \in product.plans : price = FormatAmount(q.plan)
          BY DEF DetailPrices
    <3>2. q.plan.amount >= 0
          BY <3>1, <2>1 DEF FormatAmount
    <3>. QED BY <3>1, <3>2
  <2>2. ~ OnSale(product.slug) => legible = {}
        BY <1>3, <2>1
  <2>3. ASSUME NEW p \in asked
        PROVE  /\ FormatAmount(p.plan) \in DetailPrices(product)
               /\ AtomicUnits(FormatAmount(p.plan).amount) = p.plan.amount
        BY <1>4, <1>5, <1>7 DEF DetailPrices
  <2>4. ASSUME NEW p \in asked, NEW price \in legible
        PROVE  AtomicUnits(price.amount) >= p.plan.amount
    <3>1. PICK q \in product.plans : q.plan.amount >= 0 /\ price = FormatAmount(q.plan)
          BY <2>1
    <3>2. AtomicUnits(price.amount) = q.plan.amount
          BY <1>7, <3>1
    <3>3. p.plan.amount <= q.plan.amount /\ p.plan.amount \in Int /\ q.plan.amount \in Int
          BY <1>4, <1>5, <1>6, <3>1
    <3>. QED BY <3>2, <3>3
  <2> HIDE DEF legible
  <2>5. legible = {price \in DetailPrices(product) : price.amount # None}
        BY DEF legible
  <2>. QED BY <1>2, <2>2, <2>3, <2>4, <2>5 DEF DetailAgrees
<1>. QED BY <1>8, <1>9 DEF product

\* Until the catalogue is written again, every price a page shows is what the
\* gateway asks of the tables as they are, and the decimal is read back as that
\* amount: for every catalogue, every amount and every number of places.
THEOREM PriceAgreed == StorefrontSpec => []PriceShownIsPriceAsked
<1>1. ASSUME SInv, ~ touched, tab.mount \in Mount, fetches[tab.mount] = None
      PROVE  /\ \A product \in tab.shown.listed : CardAgrees(product)
             /\ tab.shown.product # None => DetailAgrees(tab.shown.product)
  <2>1. Current(tab.shown)
        BY <1>1 DEF SInv, PageIsCurrent
  <2>2. \A product \in tab.shown.listed \union ({tab.shown.product} \ {None}) :
           CardAgrees(product) /\ DetailAgrees(product)
        BY <1>1, <2>1, AnsweredAgrees DEF Current
  <2>. QED BY <2>2
<1>2. SInv => PriceShownIsPriceAsked
      BY <1>1 DEF PriceShownIsPriceAsked
<1>. QED BY <1>2, StorefrontInvariant, PTL
-----------------------------------------------------------------------------
(* What the seed leaves alone *)

\* A product stays on sale if it stays published and keeps a plan with a price.
LEMMA StaysOnSale ==
    ASSUME NEW s \in Slug, OnSale(s), Published(s)',
           \E n \in Name : /\ products'[s].plans[n] # None
                           /\ products'[s].plans[n].amount >= 0
    PROVE  OnSale(s)'
<1>1. PICK n \in Name : /\ products'[s].plans[n] # None
                        /\ products'[s].plans[n].amount >= 0
      OBVIOUS
<1> DEFINE p == [name |-> n, plan |-> products'[s].plans[n]]
<1>2. Answered(s)'.plans = {[name |-> k, plan |-> products'[s].plans[k]] :
                              k \in {k \in Name : products'[s].plans[k] # None}}
      BY DEF Answered
<1>3. p \in Answered(s)'.plans /\ p.plan.amount >= 0
      BY <1>1, <1>2
<1>. QED BY <1>3 DEF OnSale

\* A product on sale has a plan with a price.
LEMMA OnSalePriced ==
    ASSUME NEW s \in Slug, OnSale(s)
    PROVE  \E n \in Name : /\ products[s].plans[n] # None
                           /\ products[s].plans[n].amount >= 0
BY DEF OnSale, Answered

\* What the seed must leave as it was.
Spared(s) == /\ OnSale(s) => OnSale(s)'
             /\ products[s] # None => /\ products'[s] # None
                                      /\ products'[s].provider = products[s].provider

LEMMA SeedProductSpares ==
    ASSUME SInv, SeedProduct, NEW s \in Slug
    PROVE  Spared(s)
<1> DEFINE t == Catalogue[seeding \div 2 + 1].slug
<1>1. /\ products' = [products EXCEPT ![t] =
             IF products[t] = None
             THEN [provider |-> Labs, active |-> TRUE, plans |-> Unpriced]
             ELSE [products[t] EXCEPT !.active = TRUE]]
      /\ approved' = approved
      /\ products \in [Slug -> Product \union {None}]
      BY DEF SeedProduct, SInv, StorefrontTypeOK
<1> HIDE DEF t
<1>2. CASE products[s] = None
      BY <1>2 DEF Spared, OnSale, Published
<1>3. CASE products[s] # None
  <2>1. products[s] \in Product
        BY <1>1, <1>3
  <2>2. products'[s] = products[s] \/ products'[s] = [products[s] EXCEPT !.active = TRUE]
        BY <1>1, <1>3
  <2>3. /\ products'[s] \in Product
        /\ products'[s].provider = products[s].provider
        /\ products'[s].plans = products[s].plans
        /\ products[s].active => products'[s].active
        BY <2>1, <2>2 DEF Product
  <2>4. products'[s] # None
        BY <2>3, StorefrontAssumption
  <2>5. OnSale(s) => Published(s)'
        BY <1>1, <2>3, <2>4 DEF OnSale, Published
  <2>. QED BY <2>3, <2>4, <2>5, OnSalePriced, StaysOnSale DEF Spared
<1>. QED BY <1>2, <1>3

LEMMA SeedPlanSpares ==
    ASSUME SInv, SeedPlan, NEW s \in Slug
    PROVE  Spared(s)
<1> DEFINE row == Catalogue[seeding \div 2 + 1]
           plan == [asset |-> Native, amount |-> row.amount]
<1>1. /\ seeding \in 0..(2 * Len(Catalogue)) /\ seeding % 2 = 1
      /\ Len(Catalogue) \in Nat
      BY StorefrontAssumption DEF SeedPlan, SInv, StorefrontTypeOK
<1>2. row.slug \in Slug /\ row.amount \in Nat
  <2>1. seeding \div 2 + 1 \in 1..Len(Catalogue)
        BY <1>1
  <2>. QED BY <2>1, SeedRow
<1>3. plan \in Plan /\ plan # None /\ plan.amount >= 0
  <2>1. plan \in Plan
        BY <1>2, StorefrontAssumption DEF Plan
  <2>. QED BY <1>2, <2>1, StorefrontAssumption
<1>4. /\ products' = [products EXCEPT ![row.slug].plans[PerRequest] = plan]
      /\ approved' = approved
      /\ products \in [Slug -> Product \union {None}]
      /\ products[row.slug] # None
      BY DEF SeedPlan, SInv, StorefrontTypeOK, SeedHasProduct
<1> HIDE DEF plan, row
<1>5. CASE s # row.slug
  <2>1. products'[s] = products[s]
        BY <1>4, <1>5
  <2>2. OnSale(s) => Published(s)'
        BY <1>4, <2>1 DEF OnSale, Published
  <2>. QED BY <2>1, <2>2, OnSalePriced, StaysOnSale DEF Spared
<1>6. CASE s = row.slug
  <2>1. products[s] \in Product
        BY <1>2, <1>4, <1>6
  <2>2. products'[s] = [products[s] EXCEPT !.plans = [products[s].plans EXCEPT ![PerRequest] = plan]]
        BY <1>2, <1>4, <1>6
  <2>3. /\ products'[s] \in Product
        /\ products'[s].provider = products[s].provider
        /\ products'[s].active = products[s].active
        /\ products'[s].plans[PerRequest] = plan
    <3>1. PerRequest \in Name
          BY StorefrontAssumption
    <3>2. products[s].plans \in [Name -> Plan \union {None}]
          BY <2>1 DEF Product
    <3>3. /\ [products[s].plans EXCEPT ![PerRequest] = plan] \in [Name -> Plan \union {None}]
          /\ [products[s].plans EXCEPT ![PerRequest] = plan][PerRequest] = plan
          BY <1>3, <3>1, <3>2
    <3>. QED BY <2>1, <2>2, <3>3 DEF Product
  <2>4. products'[s] # None
        BY <2>3, StorefrontAssumption
  <2>5. OnSale(s) => Published(s)'
        BY <1>4, <2>3, <2>4 DEF OnSale, Published
  <2>6. PerRequest \in Name
        BY StorefrontAssumption
  <2>. QED BY <1>3, <2>3, <2>4, <2>5, <2>6, StaysOnSale DEF Spared
<1>. QED BY <1>5, <1>6

LEMMA SeedProviderSpares ==
    ASSUME SInv, SeedProvider, NEW s \in Slug
    PROVE  Spared(s)
<1>1. products' = products /\ approved \subseteq approved'
      BY DEF SeedProvider
<1>2. OnSale(s) => Published(s)'
      BY <1>1 DEF OnSale, Published
<1>. QED BY <1>1, <1>2, OnSalePriced, StaysOnSale DEF Spared

LEMMA SeedEndsSpares ==
    ASSUME SeedEnds, NEW s \in Slug
    PROVE  Spared(s)
<1>1. UNCHANGED <<products, approved>>
      BY DEF SeedEnds, tables
<1>. QED BY <1>1 DEF Spared, OnSale, Published, Answered

\* Whatever the seed finds, and wherever it dies, it takes no product off sale
\* and from no owner.
THEOREM SeedIsGentle == StorefrontSpec => SeedSpares
<1>1. ASSUME SInv, [StorefrontNext]_storefront, seeding' # seeding, NEW s \in Slug
      PROVE  Spared(s)
  <2>1. SeedProvider \/ SeedProduct \/ SeedPlan \/ SeedEnds
        BY <1>1 DEF StorefrontNext, Visit, Follow, Serve, Deliver, Deploy, Review,
                    Confirm, Write, storefront, server
  <2>. QED BY <1>1, <2>1, SeedProviderSpares, SeedProductSpares, SeedPlanSpares,
              SeedEndsSpares
<1>2. SInv /\ [StorefrontNext]_storefront =>
         [seeding' # seeding => \A s \in Slug :
            /\ OnSale(s) => OnSale(s)'
            /\ products[s] # None => /\ products'[s] # None
                                     /\ products'[s].provider = products[s].provider]_storefront
      BY <1>1 DEF Spared
<1>. QED BY <1>2, StorefrontInvariant, PTL DEF StorefrontSpec, SeedSpares
=============================================================================
