------------------------------ MODULE Checkout ------------------------------
(***************************************************************************)
(* Buying a call: the web console of apps/web and the agent client of      *)
(* apps/agent-client, each paying through a Stellar wallet, composed with  *)
(* the gateway of PaymentGateway and with the ledger they share.           *)
(*                                                                         *)
(* A flow is one run of the console's call(), or of requestPaidApi.  Flow  *)
(* f's request to the gateway is the handler in slot f; a step of that     *)
(* handler is a step of this module, and the one that ends it is also the  *)
(* moment the client hears the answer.                                     *)
(***************************************************************************)
EXTENDS PaymentGateway

CONSTANTS Content,        \* Content[t]: the body of the transaction with hash t
          Agent,          \* the flows that run in an agent, not in a page
          Account,        \* Stellar accounts
          AgentAccount,   \* the account agents pay from
          ConsoleHash,    \* the request hash the console sends
          Native,         \* the asset XLM
          BuildNetwork,   \* the network the web build is for
          Unit,           \* stroops in one XLM
          TimeBound       \* how long a built transaction may settle

Decimal == [whole : Nat, fraction : Nat]
Body == [payer : Account, seq : Nat, to : Recipient, amount : Decimal,
         until : Nat]
Pair == [challenge : Challenge, tx : Tx]

ASSUME CheckoutAssumption == /\ Content \in [Tx -> Body]
                             /\ Agent \subseteq Req
                             /\ AgentAccount \in Account
                             /\ ConsoleHash \in Hash
                             /\ Native \in Asset
                             /\ BuildNetwork \in Network
                             /\ Unit \in Nat \ {0}
                             /\ TimeBound \in Nat
                             /\ None \notin Account

VARIABLES flow,           \* flow[f]: where f's client is
          sequence,       \* sequence[a]: the ledger's number for account a
          signed,         \* the pairs of a quote and a transaction signed for it
          bought,         \* the pairs a client was answered 200 for
          troubled        \* quotes whose flow was cut off from an answer

wallets == <<sequence, signed>>
outcomes == <<bought, troubled>>
checkout == <<vars, flow, wallets, outcomes>>
-----------------------------------------------------------------------------
(* Clients *)

Ready == [pc |-> "ready", call |-> None, id |-> None, terms |-> None,
          payer |-> None, tx |-> None]

\* Waiting for the gateway.
Waiting == {"asked", "verifying", "retrying"}

\* Holding a transaction Horizon has confirmed.
Paid == {"confirmed", "verifying", "receipted", "retrying"}

Become(f, state) == flow' = [flow EXCEPT ![f] = state]

\* The answer to f's request reaches its client, unless the page is gone.
Hear(f, state) == Become(f, IF flow[f].pc \in Waiting THEN state ELSE flow[f])

\* Where f's client goes next, keeping what it knows.
Then(f, pc) == [flow[f] EXCEPT !.pc = pc]

\* The quotes of the flows in F that have paid and hold no answer yet.
CutOff(F) == {flow[f].id : f \in {g \in F : flow[g].pc \in Paid}}

\* Who may pay: an agent's own account, or whatever wallet the button of some
\* page last left in the browser's storage.
Payers(f) == IF f \in Agent THEN {AgentAccount} ELSE Account \union {None}

\* The quotes a client tries to pay.
Payable(terms) == terms.asset = Native /\ terms.network = BuildNetwork

\* Stroops as an amount with seven decimals.
ToDecimal(stroops) == [whole |-> stroops \div Unit,
                       fraction |-> stroops % Unit]

\* A slip of ToStroops: what stands behind the point is lost.
ToWholeUnits(decimal) == decimal.whole * Unit

\* An amount with seven decimals read back.
ToStroops(decimal) == decimal.whole * Unit + decimal.fraction

\* buildPaymentXdr.  Two flows that build the same body build one transaction.
PaymentBody(terms, payer, seq) ==
    [payer |-> payer, seq |-> seq + 1, to |-> terms.recipient,
     amount |-> ToDecimal(terms.amount), until |-> now + TimeBound]

\* The payment a transaction makes, or fails to make.
PaymentOf(t, successful) == [network |-> BuildNetwork,
                             successful |-> successful,
                             asset |-> Native,
                             recipient |-> Content[t].to,
                             amount |-> ToStroops(Content[t].amount)]

Settled(t) == ledger[t] # None /\ ledger[t].successful
-----------------------------------------------------------------------------
(* Asking and paying *)

\* A client asks without a receipt.
Ask(f, p, call) == /\ flow[f].pc = "ready"
                   /\ Request(f, p, call, None)
                   /\ Become(f, [Ready EXCEPT !.pc = "asked", !.call = call])
                   /\ UNCHANGED <<wallets, outcomes>>

AskFromConsole(f, p) ==
    /\ f \notin Agent
    /\ \E api \in Api : Ask(f, p, [api |-> api, hash |-> ConsoleHash])

AskFromAgent(f, p) == f \in Agent /\ \E call \in Call : Ask(f, p, call)

\* A slip of Hear402: a page goes on without a wallet.
Hear402WithoutWallet(f) ==
    LET c == handler[f].id
        terms == handler[f].req
    IN /\ Reply402(f)
       /\ \E payer \in Payers(f) :
             Hear(f, IF flow[f].pc = "asked" /\ Payable(terms)
                     THEN [flow[f] EXCEPT !.pc = "account", !.id = c,
                                          !.terms = terms, !.payer = payer]
                     ELSE Ready)
       /\ UNCHANGED <<wallets, outcomes>>

\* 402: the client goes on to pay, if it can; a 402 to the retry is shown.
Hear402(f) ==
    LET c == handler[f].id
        terms == handler[f].req
    IN /\ Reply402(f)
       /\ \E payer \in Payers(f) :
             Hear(f, IF /\ flow[f].pc = "asked"
                        /\ payer # None
                        /\ Payable(terms)
                     THEN [flow[f] EXCEPT !.pc = "account", !.id = c,
                                          !.terms = terms, !.payer = payer]
                     ELSE Ready)
       /\ UNCHANGED <<wallets, outcomes>>

\* Horizon answers the account's number and the transaction is built.  The SDK builds
\* no payment of nothing.  Bound: only transactions in Tx are built.
ReadAccount(f) ==
    /\ flow[f].pc = "account"
    /\ LET terms == flow[f].terms
           payer == flow[f].payer
           built == {t \in Tx : Content[t] = PaymentBody(terms, payer, sequence[payer])}
       IN IF terms.amount > 0 /\ built # {}
          THEN \E t \in built : Become(f, [flow[f] EXCEPT !.pc = "sign", !.tx = t])
          ELSE Become(f, Ready)
    /\ UNCHANGED <<vars, wallets, outcomes>>

\* Horizon knows no such account, or the call for it fails.
Unfunded(f) == /\ flow[f].pc = "account"
               /\ Become(f, Ready)
               /\ UNCHANGED <<vars, wallets, outcomes>>

\* The wallet signs and the transaction is on its way to Horizon.
Sign(f) ==
    /\ flow[f].pc = "sign"
    /\ signed' = signed \union {[challenge |-> flow[f].id, tx |-> flow[f].tx]}
    /\ Become(f, Then(f, "settling"))
    /\ UNCHANGED <<vars, sequence, outcomes>>

\* The wallet refuses.
Decline(f) == /\ flow[f].pc = "sign"
              /\ Become(f, Ready)
              /\ UNCHANGED <<vars, wallets, outcomes>>

\* The ledger applies a transaction that was sent: an account's numbers are
\* used in order and once; a payment the account cannot cover fails.
Apply(t) == /\ \E pair \in signed : pair.tx = t
            /\ Content[t].seq = sequence[Content[t].payer] + 1
            /\ now <= Content[t].until
            /\ Settle(t)
            /\ \E ok \in BOOLEAN : ledger'[t] = PaymentOf(t, ok)
            /\ sequence' = [sequence EXCEPT ![Content[t].payer] = @ + 1]
            /\ UNCHANGED <<flow, signed, outcomes>>

\* A slip of Confirmed: the answer's status is not looked at.
ConfirmedUnseen(f) ==
    /\ flow[f].pc = "settling"
    /\ Become(f, Then(f, "confirmed"))
    /\ UNCHANGED <<vars, wallets, outcomes>>

\* Horizon answers that the transaction settled.
Confirmed(f) ==
    /\ flow[f].pc = "settling"
    /\ Settled(flow[f].tx)
    /\ Become(f, Then(f, "confirmed"))
    /\ UNCHANGED <<vars, wallets, outcomes>>

\* A slip of Unconfirmed: an answer without a hash is not taken for an answer
\* until the ledger has decided.
UnconfirmedOnceDecided(f) ==
    /\ flow[f].pc = "settling"
    /\ ledger[flow[f].tx] # None
    /\ Become(f, Ready)
    /\ troubled' = troubled \union {flow[f].id}
    /\ UNCHANGED <<vars, wallets, bought>>

\* The submission fails, or its answer has no hash: the transaction failed, is
\* hopeless, or Horizon stopped waiting for one that may still settle.  The
\* client does not tell these apart and says that it was rejected.
Unconfirmed(f) ==
    /\ flow[f].pc = "settling"
    /\ Become(f, Ready)
    /\ troubled' = troubled \union {flow[f].id}
    /\ UNCHANGED <<vars, wallets, bought>>
-----------------------------------------------------------------------------
(* Verifying and asking again *)

\* The gateway takes f's transaction for its quote at process p.
Accepted(f, p) == /\ Live(p, flow[f].id)
                  /\ ~ SeenByVerifier(p, flow[f].tx)
                  /\ Loaded(p, flow[f].id).req.network = settings[p].network

\* The transaction hash is sent to the gateway.
PostVerify(f, p) == /\ flow[f].pc = "confirmed"
                    /\ Submit(f, p, flow[f].id, flow[f].tx)
                    /\ Become(f, Then(f, "verifying"))
                    /\ UNCHANGED <<wallets, outcomes>>

\* The gateway refuses it at once.  A gateway that was moved to another
\* network cuts the flow off.
PostRefused(f, p) ==
    /\ flow[f].pc = "confirmed"
    /\ ~ Accepted(f, p)
    /\ Become(f, Ready)
    /\ troubled' = IF flow[f].terms.network = settings[p].network
                   THEN troubled ELSE troubled \union {flow[f].id}
    /\ UNCHANGED <<vars, wallets, bought>>

\* The receipt is answered.
HearReceipt(f) == /\ Record(f)
                  /\ Hear(f, Then(f, "receipted"))
                  /\ UNCHANGED <<wallets, outcomes>>

\* 200: the client has what it paid for.
Serve(f) == bought' = IF flow[f].pc \in Paid
                      THEN bought \union {[challenge |-> flow[f].id,
                                           tx |-> flow[f].tx]}
                      ELSE bought

\* The same call again, now with the receipt; the process may know it already.
Retry(f, p) ==
    /\ flow[f].pc = "receipted"
    /\ Request(f, p, flow[f].call, flow[f].tx)
    /\ IF Remembered(p, flow[f].tx)
       THEN Become(f, Ready) /\ Serve(f)
       ELSE Become(f, Then(f, "retrying")) /\ UNCHANGED bought
    /\ UNCHANGED <<wallets, troubled>>

HearGranted(f) == /\ FindReceipt(f)
                  /\ Recorded(handler[f].tx)
                  /\ Hear(f, Ready)
                  /\ Serve(f)
                  /\ UNCHANGED <<wallets, troubled>>

\* A slip of HearRefusal: the console asks again although it has no receipt.
HearRefusalUnseen(f) ==
    /\ \/ Refuse(f) \/ CheckPlan(f) \/ Verify(f) \/ Consume(f) \/ Commit(f)
    /\ handler'[f] = Idle
    /\ Hear(f, IF flow[f].pc = "verifying" THEN Then(f, "receipted") ELSE Ready)
    /\ UNCHANGED <<wallets, outcomes>>

\* The gateway answers that it refuses.
HearRefusal(f) ==
    /\ \/ Refuse(f) \/ CheckPlan(f) \/ Verify(f) \/ Consume(f) \/ Commit(f)
    /\ handler'[f] = Idle
    /\ Hear(f, Ready)
    /\ UNCHANGED <<wallets, outcomes>>

\* The gateway goes on with f's request, which is not answered yet.
Work(f) == /\ Answer(f)
           /\ handler'[f] # Idle
           /\ UNCHANGED <<flow, wallets, outcomes>>
-----------------------------------------------------------------------------
(* What goes wrong, and the outside world *)

\* The gateway fails, or its answer is lost.
HearFailure(f) == /\ Throws(f) \/ Unacked(f)
                  /\ Hear(f, Ready)
                  /\ troubled' = troubled \union CutOff({f})
                  /\ UNCHANGED <<wallets, bought>>

\* A process restarts: its connections break.
Redeploy(p) ==
    /\ Restart(p)
    /\ LET hit == {f \in Req : handler[f].at = p}
       IN /\ flow' = [f \in Req |-> IF f \in hit /\ flow[f].pc \in Waiting
                                    THEN Ready ELSE flow[f]]
          /\ troubled' = troubled \union CutOff(hit)
    /\ UNCHANGED <<wallets, bought>>

\* The page is reloaded or closed, or the agent dies: nothing was kept.
Reload(f) == /\ flow[f].pc # "ready"
             /\ Become(f, Ready)
             /\ troubled' = troubled \union ({flow[f].id} \ {None})
             /\ UNCHANGED <<vars, wallets, bought>>

\* Time passes; an operator or a deploy rewrites a product.
Elsewhere == /\ Tick \/ \E api \in Api : Publish(api)
             /\ UNCHANGED <<flow, wallets, outcomes>>
-----------------------------------------------------------------------------
CheckoutInit == /\ Init
                /\ flow = [f \in Req |-> Ready]
                /\ sequence = [a \in Account |-> 0]
                /\ signed = {}
                /\ bought = {}
                /\ troubled = {}

Gateway(f) == Work(f) \/ Hear402(f) \/ HearReceipt(f) \/ HearGranted(f)
              \/ HearRefusal(f) \/ HearFailure(f)

Horizon(f) == ReadAccount(f) \/ Unfunded(f) \/ Confirmed(f) \/ Unconfirmed(f)

Continue(f, p) == PostVerify(f, p) \/ PostRefused(f, p) \/ Retry(f, p)

\* The steps that need no user; the gateway works on for a client that left.
Proceed(f) == Gateway(f) \/ Horizon(f) \/ \E p \in Proc : Continue(f, p)

\* What f's client waits for: at most one of the three is possible at a time.
Awaited(f) == \/ flow[f].pc \in Waiting /\ Gateway(f)
              \/ Horizon(f)
              \/ \E p \in Proc : Continue(f, p)

CheckoutNext ==
    \/ \E f \in Req, p \in Proc : AskFromConsole(f, p) \/ AskFromAgent(f, p)
    \/ \E f \in Req : Proceed(f)
    \/ \E f \in Req : Sign(f) \/ Decline(f) \/ Reload(f)
    \/ \E t \in Tx : Apply(t)
    \/ \E p \in Proc : Redeploy(p)
    \/ Elsewhere

CheckoutSpec == CheckoutInit /\ [][CheckoutNext]_checkout

\* A call that was sent, to the gateway or to Horizon, is answered or fails, and
\* a client that holds an answer goes on.  Users, wallets, the ledger and the
\* clock are not fair.
FairCheckout ==
    /\ CheckoutSpec
    /\ \A f \in Req : WF_checkout(Awaited(f))
-----------------------------------------------------------------------------
(* Properties *)

State == [pc : {"ready", "account", "sign", "settling"} \union Waiting \union Paid,
          call : Call \union {None}, id : Challenge \union {None},
          terms : Requirement \union {None}, payer : Account \union {None},
          tx : Tx \union {None}]

Typed == /\ flow \in [Req -> State]
         /\ sequence \in [Account -> Nat]
         /\ signed \subseteq Pair
         /\ bought \subseteq Pair
         /\ troubled \subseteq Challenge

\* The client holds a quote.
Quoted(f) == flow[f].pc \notin {"ready", "asked"}

\* The client has sent a transaction to the ledger.
Sent(f) == flow[f].pc \in {"settling"} \union Paid

\* Every variable has its type, and a client that pays has a call to repeat, a
\* quote, an account and, once it is to be signed, a transaction.
CheckoutTypeOK ==
    /\ Typed
    /\ \A f \in Req : Quoted(f) =>
          /\ flow[f].call \in Call /\ flow[f].id \in Challenge
          /\ flow[f].terms \in Requirement /\ flow[f].payer \in Account
          /\ flow[f].pc = "sign" \/ Sent(f) => flow[f].tx \in Tx

\* A client that shows an answer after paying has the receipt of its own quote
\* and its own transaction: of two clicks whose purchases became one and the
\* same transaction, one is answered.
AnswersOnOwnReceipt == bought \subseteq receipts

\* Whatever a wallet was made to pay, the ledger took exactly what the quote
\* asked: amount, asset, recipient and network.
PaymentsPayQuotes ==
    \A pair \in signed : Settled(pair.tx) =>
       /\ quoted[pair.challenge] # None
       /\ PaysExactly(ledger[pair.tx], quoted[pair.challenge].req)

\* Why a payment may be lost, apart from the gateway: a quote it was signed for
\* expired, or the flow got no answer.  A submission, a verification or a retry
\* failed or lost its answer, the page was left, or the gateway had been moved
\* to another network.
Cause(t) ==
    \E other \in signed :
       /\ other.tx = t
       /\ \/ other.challenge \in troubled
          \/ now >= quoted[other.challenge].expiresAt

InHand(t) == \E f \in Req : flow[f].tx = t

\* The gateway loses no payment by refusing it: one that settled, has no receipt
\* and is in no client's hands was signed for a quote that expired or whose flow
\* got no answer.  While a quote lives, no restart of the gateway, no second
\* purchase and no earlier attempt makes it turn down, with an answer, the only
\* client that holds the payment.  A client that was answered without a hash may
\* lose a payment that settles: it is told of a rejection all the same.
LossHasCause ==
    \A pair \in signed :
       (Settled(pair.tx) /\ ~ Recorded(pair.tx) /\ ~ InHand(pair.tx))
          => Cause(pair.tx)

\* Why a flow with a confirmed payment may end without an answer.
Excused(f) ==
    \/ flow[f].id \in troubled'
    \/ now >= quoted[flow[f].id].expiresAt
    \/ \E pair \in signed : /\ pair.tx = flow[f].tx
                            /\ pair.challenge # flow[f].id

\* A flow whose payment is confirmed ends with the answer, unless it was cut
\* off, the quote expired, or another flow signed the same transaction.
PaidFlowServed ==
    \A f \in Req : (flow[f].pc \in Paid /\ flow'[f].pc = "ready") =>
       \/ [challenge |-> flow[f].id, tx |-> flow[f].tx] \in bought'
       \/ Excused(f)

PaidFlowsServed == [][PaidFlowServed]_checkout

-----------------------------------------------------------------------------
(* The inductive invariant *)

\* The handler has a transaction to verify.
Submitted == {"lookup", "consume", "commit", "record"}

\* What a client knows, and where its request is.
FlowHolds(f) ==
    LET s == flow[f]
        h == handler[f]
        pair == [challenge |-> s.id, tx |-> s.tx]
    IN /\ h.pc # "idle" => s.pc \in Waiting \union {"ready"}
       /\ s.pc = "asked" => h.pc \in {"price", "plan", "create", "reply"}
       /\ s.pc = "verifying" => h.pc \in Submitted /\ h.id = s.id /\ h.tx = s.tx
       /\ s.pc = "retrying" => h.pc = "has" /\ h.tx = s.tx
       /\ s.pc = "ready" /\ h.pc \in Submitted => h.id \in troubled
       /\ s.pc # "ready" => s.call \in Call
       /\ Quoted(f) => /\ s.id \in Challenge
                       /\ s.payer \in Account
                       /\ quoted[s.id] # None
                       /\ s.terms = quoted[s.id].req
                       /\ Payable(s.terms)
       /\ s.pc = "sign" \/ Sent(f) =>
             /\ s.tx \in Tx
             /\ Content[s.tx].to = s.terms.recipient
             /\ ToStroops(Content[s.tx].amount) = s.terms.amount
       /\ Sent(f) => pair \in signed
       /\ s.pc \in Paid => Settled(s.tx)
       /\ s.pc \in {"receipted", "retrying"} => pair \in receipts

FlowsConsistent == \A f \in Req : FlowHolds(f)

\* Transactions are signed for quotes whose terms they carry, they settle as
\* they were signed, and only signed ones are verified and recorded.
SignedConsistent ==
    /\ \A pair \in signed :
          /\ quoted[pair.challenge] # None
          /\ Payable(quoted[pair.challenge].req)
          /\ Content[pair.tx].to = quoted[pair.challenge].req.recipient
          /\ ToStroops(Content[pair.tx].amount) = quoted[pair.challenge].req.amount
    /\ \A t \in Tx : ledger[t] # None => ledger[t] = PaymentOf(t, ledger[t].successful)
    /\ \A r \in Req : handler[r].pc \in Submitted =>
          [challenge |-> handler[r].id, tx |-> handler[r].tx] \in signed
    /\ receipts \subseteq signed

\* The quotes in f's hands: its client's, and the one its request is about.
Held(f) == {c \in Challenge :
              \/ Quoted(f) /\ flow[f].id = c
              \/ handler[f].pc \in Submitted \union {"reply"} /\ handler[f].id = c}

\* No quote is in two hands, and a quote not yet redeemed by its holder is
\* redeemed by nobody.
OwnQuotes ==
    /\ \A f, g \in Req : f # g => Held(f) \intersect Held(g) = {}
    /\ \A f \in Req :
          /\ flow[f].pc \in {"account", "sign", "settling", "confirmed"}
                => ~ Redeemed(flow[f].id)
          /\ handler[f].pc \in {"reply", "lookup", "consume", "commit"}
                => ~ Redeemed(handler[f].id)

\* A transaction that was marked as used, or signed, is recorded or in some
\* client's hands, or there is a cause.
Accounted ==
    /\ \A p \in Proc : \A t \in usedTx[p] :
          \/ Recorded(t) \/ Cause(t)
          \/ \E f \in Req : flow[f].pc = "verifying" /\ flow[f].tx = t
    /\ \A pair \in signed :
          \/ Recorded(pair.tx) \/ Cause(pair.tx)
          \/ \E f \in Req : Sent(f) /\ flow[f].tx = pair.tx

CInv == /\ IInv
        /\ Typed
        /\ FlowsConsistent
        /\ SignedConsistent
        /\ OwnQuotes
        /\ Accounted
        /\ AnswersOnOwnReceipt
-----------------------------------------------------------------------------
(* Buying implements Purchases *)

\* A transaction built for such terms.
Carries(t, terms) == /\ Payable(terms)
                     /\ Content[t].to = terms.recipient
                     /\ ToStroops(Content[t].amount) = terms.amount

Outcomes(t) == {PaymentOf(t, ok) : ok \in BOOLEAN}

Shop == INSTANCE Purchases WITH
          Terms <- Requirement,
          Pays <- PaysExactly,
          offers <- [c \in Challenge |-> IF rows[c] = None THEN None
                                         ELSE rows[c].req],
          orders <- signed,
          settled <- ledger,
          book <- receipts

\* Whatever is clicked, reloaded, retried, restarted or timed out, the wallets'
\* signatures, the ledger, the receipts and the answers are those of a shop in
\* which a buyer is answered on a receipt of its own order, and what settles
\* was ordered for exactly its price.
ImplementsPurchases == Shop!Spec
-----------------------------------------------------------------------------
(* Progress *)

\* No purchase hangs: whatever it waits for, the gateway, Horizon's account or
\* Horizon's answer to the submission, it comes to an end or to its user's
\* wallet, although the ledger never decides and calls fail.
FlowsEnd == \A f \in Req :
    flow[f].pc \notin {"ready", "sign"} ~> flow[f].pc \in {"ready", "sign"}
=============================================================================
