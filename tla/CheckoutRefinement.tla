-------------------------- MODULE CheckoutRefinement --------------------------
(***************************************************************************)
(* Checkout implements Purchases.  An offer is a challenge's row and an    *)
(* order a signature; the gateway's own refinement of ReceiptBook gives    *)
(* the steps of the rows and the receipts, and CInv what the clients and   *)
(* the ledger add to them.                                                 *)
(***************************************************************************)
EXTENDS CheckoutProofs

\* A step that changes nothing the shop is made of is a stutter.
LEMMA ShopStutters ==
  ASSUME UNCHANGED <<rows, ledger, receipts, signed, bought>>
  PROVE  UNCHANGED Shop!vars
<1>1. offers' = offers
  BY DEF offers
<1>2. QED
  BY <1>1 DEF Shop!vars, offers

\* The gateway works on a request: it makes an offer, redeems the order of
\* the transaction it was sent, or does nothing the shop is made of.
LEMMA GatewayWorks ==
  ASSUME CInv, NEW f \in Req, Answer(f), UNCHANGED <<signed, bought>>
  PROVE  Shop!Next \/ UNCHANGED Shop!vars
<1> DEFINE c == handler[f].id
           t == handler[f].tx
<1>1. IInv
  BY DEF CInv
<1>2. CASE CreateRow(f)
  <2>1. PICK d \in Challenge : Book!Offer(d)
    BY <1>1, <1>2, CreateRowRefines
  <2>2. Shop!Offer(d)
    BY <2>1 DEF Book!Offer, Shop!Offer
  <2>3. QED
    BY <2>2 DEF Shop!Next
<1>3. CASE Commit(f) /\ Unspent(c, t)
  <2>1. c \in Challenge /\ t \in Tx /\ Book!Redeem(c, t)
    BY <1>1, <1>3, CommitRefines
  <2>2. [challenge |-> c, tx |-> t] \in signed
    BY <1>3 DEF CInv, SignedConsistent, Submitted, Commit
  <2> HIDE DEF c, t
  <2>3. Shop!Redeem(c, t)
    BY <2>1, <2>2 DEF Book!Redeem, Shop!Redeem, Shop!Pair
  <2>4. QED
    BY <2>1, <2>3 DEF Shop!Next
<1>4. CASE Commit(f) /\ ~ Unspent(c, t)
  BY <1>4, ShopStutters DEF Commit, world
<1>5. CASE ~ CreateRow(f) /\ ~ Commit(f)
  BY <1>5, ShopStutters DEF Answer, FindReceipt, Issue, Refuse, CheckPlan, Reply402,
     Verify, Consume, Record, database, world
<1>6. QED
  BY <1>2, <1>3, <1>4, <1>5

\* A client is answered: on a receipt of its own, or on none it holds.
LEMMA ServeAnswers ==
  ASSUME CInv, CInv', NEW f \in Req, Serve(f),
         UNCHANGED <<rows, ledger, receipts, signed>>
  PROVE  Shop!Next \/ UNCHANGED Shop!vars
<1> DEFINE c == flow[f].id
           t == flow[f].tx
<1>1. CASE flow[f].pc \in Paid
  <2>1. c \in Challenge /\ t \in Tx
    BY <1>1 DEF CInv, FlowsConsistent, FlowHolds, Quoted, Sent, Paid
  <2>2. bought' = bought \union {[challenge |-> c, tx |-> t]}
    BY <1>1 DEF Serve
  <2> HIDE DEF c, t
  <2>3. [challenge |-> c, tx |-> t] \in receipts
    BY <2>2 DEF CInv, AnswersOnOwnReceipt
  <2>4. offers' = offers
    BY DEF offers
  <2>5. Shop!Answer(c, t)
    BY <2>2, <2>3, <2>4 DEF Shop!Answer, Shop!Pair, offers
  <2>6. QED
    BY <2>1, <2>5 DEF Shop!Next
<1>2. CASE flow[f].pc \notin Paid
  BY <1>2, ShopStutters DEF Serve
<1>3. QED
  BY <1>1, <1>2

\* A wallet signs what carries the terms of the quote, which are the row's.
LEMMA SignOrders ==
  ASSUME CInv, NEW f \in Req, Sign(f)
  PROVE  Shop!Next
<1> DEFINE c == flow[f].id
           t == flow[f].tx
<1>1. /\ flow[f].pc = "sign" /\ FlowHolds(f)
      /\ signed' = signed \union {[challenge |-> c, tx |-> t]}
      /\ UNCHANGED <<rows, ledger, receipts, bought>>
  BY DEF Sign, CInv, FlowsConsistent, vars, outcomes
<1>2. /\ c \in Challenge /\ t \in Tx /\ quoted[c] # None
      /\ Carries(t, quoted[c].req)
  BY <1>1 DEF FlowHolds, Quoted, Carries
<1> HIDE DEF c, t
<1>3. rows[c] # None /\ rows[c].req = quoted[c].req
  BY <1>2 DEF CInv, IInv, CopiesAgree
<1>4. offers[c] = rows[c].req
  BY <1>2, <1>3 DEF offers
<1>5. rows[c].req \in Requirement
  BY <1>2, <1>3 DEF CInv, IInv, TypeOK, Row
<1>6. offers[c] # None
  BY <1>4, <1>5, NoneAssumption
<1>7. offers' = offers
  BY <1>1 DEF offers
<1>8. Shop!Order(c, t)
  BY <1>1, <1>2, <1>3, <1>4, <1>6, <1>7 DEF Shop!Order, Shop!Pair, offers
<1>9. QED
  BY <1>2, <1>8 DEF Shop!Next

\* The ledger applies what was signed, as what it carries or as a failure.
LEMMA ApplySettles ==
  ASSUME CInv, NEW t \in Tx, Apply(t)
  PROVE  Shop!Next
<1>1. PICK payment \in Payments : ledger' = [ledger EXCEPT ![t] = payment]
  BY DEF Apply, Settle
<1>2. ledger[t] = None /\ UNCHANGED <<rows, receipts, signed, bought>>
  BY DEF Apply, Settle, database, outcomes
<1>3. ledger'[t] = payment
  BY <1>1 DEF CInv, IInv, TypeOK
<1>4. ledger'[t] \in Outcomes(t)
  BY DEF Apply, Outcomes
<1>5. offers' = offers
  BY <1>2 DEF offers
<1>6. \E pair \in signed : pair.tx = t
  BY DEF Apply
<1>7. Shop!Settle(t)
  BY <1>1, <1>2, <1>3, <1>4, <1>5, <1>6 DEF Shop!Settle, offers
<1>8. QED
  BY <1>7 DEF Shop!Next

LEMMA CheckoutStep ==
  ASSUME CInv, CInv', [CheckoutNext]_checkout
  PROVE  Shop!Next \/ UNCHANGED Shop!vars
<1>1. ASSUME NEW f \in Req, Gateway(f)
      PROVE  Shop!Next \/ UNCHANGED Shop!vars
  <2>1. CASE HearGranted(f)
    BY <2>1, ServeAnswers DEF HearGranted, FindReceipt, database, wallets
  <2>2. CASE HearFailure(f)
    BY <2>2, ShopStutters DEF HearFailure, Throws, Unacked, database, world, wallets
  <2>3. CASE Work(f) \/ Hear402(f) \/ HearReceipt(f) \/ HearRefusal(f)
    <3>1. Answer(f) /\ UNCHANGED <<signed, bought>>
      BY <2>3 DEF Work, Hear402, HearReceipt, HearRefusal, Answer, wallets, outcomes
    <3>2. QED
      BY <3>1, GatewayWorks
  <2>4. QED
    BY <1>1, <2>1, <2>2, <2>3 DEF Gateway
<1>2. ASSUME NEW f \in Req, NEW p \in Proc, Continue(f, p)
      PROVE  Shop!Next \/ UNCHANGED Shop!vars
  <2>1. CASE PostVerify(f, p)
    BY <2>1, ShopStutters DEF PostVerify, Submit, database, world, wallets, outcomes
  <2>2. CASE PostRefused(f, p)
    BY <2>2, ShopStutters DEF PostRefused, vars, wallets
  <2>3. CASE Retry(f, p)
    <3>1. UNCHANGED <<rows, ledger, receipts, signed>>
      BY <2>3 DEF Retry, Request, database, world, wallets
    <3>2. Serve(f) \/ UNCHANGED bought
      BY <2>3 DEF Retry
    <3>3. QED
      BY <3>1, <3>2, ServeAnswers, ShopStutters
  <2>4. QED
    BY <1>2, <2>1, <2>2, <2>3 DEF Continue
<1>3. ASSUME NEW f \in Req, NEW p \in Proc,
             AskFromConsole(f, p) \/ AskFromAgent(f, p)
      PROVE  UNCHANGED Shop!vars
  <2>1. PICK call : Ask(f, p, call)
    BY <1>3 DEF AskFromConsole, AskFromAgent
  <2>2. QED
    BY <2>1, ShopStutters DEF Ask, Request, database, world, wallets, outcomes
<1>4. ASSUME NEW f \in Req, Sign(f) PROVE Shop!Next
  BY <1>4, SignOrders
<1>5. ASSUME NEW t \in Tx, Apply(t) PROVE Shop!Next
  BY <1>5, ApplySettles
<1>6. ASSUME NEW f \in Req, Horizon(f) \/ Decline(f) \/ Reload(f)
      PROVE  UNCHANGED Shop!vars
  BY <1>6, ShopStutters DEF Horizon, ReadAccount, Unfunded, Confirmed, Unconfirmed,
     Decline, Reload, vars, wallets, outcomes
<1>7. ASSUME NEW p \in Proc, Redeploy(p) PROVE UNCHANGED Shop!vars
  BY <1>7, ShopStutters DEF Redeploy, Restart, database, world, wallets
<1>8. CASE Elsewhere
  BY <1>8, ShopStutters DEF Elsewhere, Tick, Publish, database, world, wallets, outcomes
<1>9. CASE UNCHANGED checkout
  BY <1>9, ShopStutters DEF checkout, vars, wallets, outcomes
<1>10. QED
  BY <1>1, <1>2, <1>3, <1>4, <1>5, <1>6, <1>7, <1>8, <1>9 DEF CheckoutNext, Proceed

\* Consoles, agents, wallets, ledger and gateway together are a shop: a buyer
\* is answered on a receipt of its own order, and what settled was ordered,
\* whatever fails or is done twice between.
THEOREM ShopRefinement == CheckoutSpec => ImplementsPurchases
<1>1. CheckoutInit => Shop!Init
  <2> SUFFICES ASSUME CheckoutInit PROVE Shop!Init
    OBVIOUS
  <2>1. offers = [c \in Challenge |-> None]
    BY DEF CheckoutInit, Init, offers
  <2>2. QED
    BY <2>1 DEF CheckoutInit, Init, Shop!Init, offers
<1>2. CInv /\ CInv' /\ [CheckoutNext]_checkout => [Shop!Next]_(Shop!vars)
  BY CheckoutStep
<1>3. QED
  BY <1>1, <1>2, CheckoutInvariant, PTL DEF CheckoutSpec, ImplementsPurchases, Shop!Spec

\* The clients change nothing of what the gateway promises: with them it is
\* still a book in which a payment and an offer have one receipt.
THEOREM BookKept == CheckoutSpec => ImplementsReceiptBook
<1>1. QED
  BY Composition, Refinement, PTL
===============================================================================
