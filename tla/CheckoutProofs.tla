--------------------------- MODULE CheckoutProofs ---------------------------
(***************************************************************************)
(* Proofs about Checkout, for any number of clients, wallets, processes,   *)
(* challenges and transactions, and for any contents of the transactions.  *)
(*                                                                         *)
(* Every joint step is a step of the gateway or leaves it alone, so what   *)
(* PaymentGatewayProofs shows holds here; CInv adds the clients' side.     *)
(***************************************************************************)
EXTENDS Checkout, PaymentGatewayProofs

USE DataAssumption, NoneAssumption, CheckoutAssumption

(***************************************************************************)
(* The gateway's part of a joint step.                                     *)
(***************************************************************************)

\* What a client was told in seven decimals is what it owes in stroops.
LEMMA DecimalRoundTrip ==
  ASSUME NEW n \in Nat
  PROVE  ToDecimal(n) \in Decimal /\ ToStroops(ToDecimal(n)) = n
<1>1. /\ n \div Unit \in Nat /\ n % Unit \in Nat
      /\ n = Unit * (n \div Unit) + (n % Unit)
  BY SMT
<1>2. QED
  BY <1>1 DEF ToDecimal, ToStroops, Decimal

\* A request the console or an agent sends is a request the gateway knows.
LEMMA AskIsArrival ==
  ASSUME NEW f \in Req, NEW p \in Proc, NEW call \in Call, Ask(f, p, call)
  PROVE  Next
<1>1. Request(f, p, call, None)
  BY DEF Ask
<1>2. Arrive(f, p)
  BY <1>1 DEF Arrive
<1>3. QED
  BY <1>2 DEF Next

LEMMA JointStep ==
  ASSUME CInv, CheckoutNext
  PROVE  Next \/ UNCHANGED vars
<1>1. ASSUME NEW f \in Req, NEW p \in Proc, AskFromConsole(f, p) PROVE Next
  <2>1. PICK api \in Api : Ask(f, p, [api |-> api, hash |-> ConsoleHash])
    BY <1>1 DEF AskFromConsole
  <2>2. [api |-> api, hash |-> ConsoleHash] \in Call
    BY DEF Call
  <2>3. QED
    BY <2>1, <2>2, AskIsArrival
<1>2. ASSUME NEW f \in Req, NEW p \in Proc, AskFromAgent(f, p) PROVE Next
  BY <1>2, AskIsArrival DEF AskFromAgent
<1>3. ASSUME NEW f \in Req, Gateway(f) PROVE Next
  BY <1>3 DEF Gateway, Work, Hear402, HearReceipt, HearGranted, HearRefusal,
              HearFailure, Answer, Next
<1>4. ASSUME NEW f \in Req, Horizon(f) PROVE UNCHANGED vars
  BY <1>4 DEF Horizon, ReadAccount, Unfunded, Confirmed, Unconfirmed
<1>5. ASSUME NEW f \in Req, NEW p \in Proc, Continue(f, p)
      PROVE  Next \/ UNCHANGED vars
  <2>1. CASE PostVerify(f, p)
    <3>1. flow[f].id \in Challenge /\ flow[f].tx \in Tx
      BY <2>1 DEF PostVerify, CInv, FlowsConsistent, FlowHolds, Quoted, Sent, Paid
    <3>2. Arrive(f, p)
      BY <2>1, <3>1 DEF PostVerify, Arrive
    <3>3. QED
      BY <3>2 DEF Next
  <2>2. CASE PostRefused(f, p)
    BY <2>2 DEF PostRefused
  <2>3. CASE Retry(f, p)
    <3>1. flow[f].call \in Call /\ flow[f].tx \in Tx
      BY <2>3 DEF Retry, CInv, FlowsConsistent, FlowHolds, Quoted, Sent, Paid
    <3>2. Arrive(f, p)
      BY <2>3, <3>1 DEF Retry, Arrive
    <3>3. QED
      BY <3>2 DEF Next
  <2>4. QED
    BY <1>5, <2>1, <2>2, <2>3 DEF Continue
<1>6. ASSUME NEW f \in Req, Sign(f) \/ Decline(f) \/ Reload(f) PROVE UNCHANGED vars
  BY <1>6 DEF Sign, Decline, Reload
<1>7. ASSUME NEW t \in Tx, Apply(t) PROVE Next
  BY <1>7 DEF Apply, Next
<1>8. ASSUME NEW p \in Proc, Redeploy(p) PROVE Next
  BY <1>8 DEF Redeploy, Next
<1>9. ASSUME Elsewhere PROVE Next
  BY <1>9 DEF Elsewhere, Next
<1>10. QED
  BY <1>1, <1>2, <1>3, <1>4, <1>5, <1>6, <1>7, <1>8, <1>9 DEF CheckoutNext, Proceed

\* What no step of the gateway takes back.
Kept == /\ \A c \in Challenge : quoted[c] # None =>
              /\ quoted'[c] # None
              /\ quoted'[c].req = quoted[c].req
              /\ quoted'[c].expiresAt = quoted[c].expiresAt
        /\ \A t \in Tx : ledger[t] # None => ledger'[t] = ledger[t]
        /\ receipts \subseteq receipts'
        /\ now <= now'

LEMMA ReplyKeeps ==
  ASSUME IInv, NEW r \in Req, Reply402(r)
  PROVE  Kept
<1> DEFINE p == handler[r].at
           d == handler[r].id
<1>1. /\ handler[r].pc = "reply" /\ p \in Proc /\ d \in Challenge
      /\ cached[p][d] # None /\ rows[d] # None
      /\ cached[p][d].req = handler[r].req
      /\ UNCHANGED <<now, ledger, receipts>>
      /\ quoted' = [quoted EXCEPT ![d] = [req |-> handler[r].req,
                                         expiresAt |-> cached[p][d].expiresAt]]
  BY DEF Reply402, IInv, HandlersConsistent, HandlerHolds, database
<1>2. /\ quoted \in [Challenge -> Quote \union {None}]
      /\ now \in Nat
      /\ handler[r].req \in Requirement /\ cached[p][d].expiresAt \in Nat
  BY <1>1 DEF IInv, TypeOK, Handler, CacheEntry, CopiesAgree, Row
<1> HIDE DEF p, d
<1>3. quoted'[d] \in Quote
  BY <1>1, <1>2 DEF Quote
<1>4. quoted[d] # None => /\ quoted[d].req = handler[r].req
                          /\ quoted[d].expiresAt = cached[p][d].expiresAt
  BY <1>1 DEF IInv, CopiesAgree
<1>5. \A c \in Challenge : c # d => quoted'[c] = quoted[c]
  BY <1>1, <1>2
<1>6. quoted'[d] = [req |-> handler[r].req, expiresAt |-> cached[p][d].expiresAt]
  BY <1>1, <1>2
<1>7. ASSUME NEW c \in Challenge, quoted[c] # None
      PROVE  /\ quoted'[c] # None
             /\ quoted'[c].req = quoted[c].req
             /\ quoted'[c].expiresAt = quoted[c].expiresAt
  BY <1>3, <1>4, <1>5, <1>6, <1>7
<1>8. QED
  BY <1>1, <1>2, <1>7 DEF Kept

LEMMA NextKeeps ==
  ASSUME IInv, Next \/ UNCHANGED vars
  PROVE  Kept
<1> USE DEF database, world
<1>1. now \in Nat
  BY DEF IInv, TypeOK
<1>2. CASE UNCHANGED vars
  BY <1>1, <1>2 DEF Kept, vars
<1>3. ASSUME NEW r \in Req, Answer(r) PROVE Kept
  <2>1. CASE Reply402(r)
    BY <2>1, ReplyKeeps
  <2>2. ~ Reply402(r) => /\ UNCHANGED <<now, ledger, quoted>>
                         /\ receipts \subseteq receipts'
    BY <1>3 DEF Answer, FindReceipt, Issue, Refuse, CheckPlan, CreateRow,
                Verify, Consume, Commit, Record
  <2>3. QED
    BY <1>1, <2>1, <2>2 DEF Kept
<1>4. ASSUME NEW r \in Req, NEW p \in Proc, Arrive(r, p) PROVE Kept
  <2>1. UNCHANGED <<now, ledger, quoted, receipts>>
    BY <1>4 DEF Arrive, Request, Submit
  <2>2. QED
    BY <1>1, <2>1 DEF Kept
<1>5. ASSUME NEW r \in Req, Throws(r) \/ Unacked(r) PROVE Kept
  BY <1>1, <1>5 DEF Kept, Throws, Unacked
<1>6. ASSUME NEW p \in Proc, Restart(p) PROVE Kept
  BY <1>1, <1>6 DEF Kept, Restart
<1>7. CASE Tick \/ \E api \in Api : Publish(api)
  BY <1>1, <1>7 DEF Kept, Tick, Publish
<1>8. ASSUME NEW t \in Tx, Settle(t) PROVE Kept
  <2>1. /\ ledger[t] = None /\ UNCHANGED <<now, quoted, receipts>>
        /\ \E payment \in Payments : ledger' = [ledger EXCEPT ![t] = payment]
        /\ ledger \in [Tx -> Payments \union {None}]
    BY <1>8 DEF Settle, IInv, TypeOK
  <2>2. QED
    BY <1>1, <2>1 DEF Kept
<1>9. QED
  BY <1>2, <1>3, <1>4, <1>5, <1>6, <1>7, <1>8 DEF Next

(***************************************************************************)
(* Frames.                                                                 *)
(***************************************************************************)

\* A client a step does not touch keeps what it knows.
LEMMA FlowKeeps ==
  ASSUME NEW f \in Req, Typed, FlowHolds(f), Kept,
         signed \subseteq signed', troubled \subseteq troubled',
         flow'[f] = flow[f], handler'[f] = handler[f]
  PROVE  FlowHolds(f)'
<1>1. flow[f] \in State
  BY DEF Typed
<1>2. flow[f].pc \in Paid => flow[f].tx \in Tx /\ ledger'[flow[f].tx] = ledger[flow[f].tx]
  BY DEF Kept, FlowHolds, Sent, Settled
<1>3. QED
  BY <1>1, <1>2 DEF FlowHolds, Kept, Quoted, Sent, Settled

\* A step that moves one client, or the request of one client.
LEMMA OneFlow ==
  ASSUME NEW f \in Req, Typed, FlowsConsistent, Kept,
         signed \subseteq signed', troubled \subseteq troubled',
         \A g \in Req : g # f => flow'[g] = flow[g] /\ handler'[g] = handler[g],
         FlowHolds(f)'
  PROVE  FlowsConsistent'
<1>1. SUFFICES ASSUME NEW g \in Req, g # f PROVE FlowHolds(g)'
  BY DEF FlowsConsistent
<1>2. QED
  BY <1>1, FlowKeeps DEF FlowsConsistent

\* What has a cause keeps it.
LEMMA CauseStays ==
  ASSUME IInv, SignedConsistent, Typed, Kept, now' \in Nat,
         signed \subseteq signed', troubled \subseteq troubled',
         NEW t, Cause(t)
  PROVE  Cause(t)'
<1>1. PICK other \in signed : /\ other.tx = t
                              /\ \/ other.challenge \in troubled
                                 \/ now >= quoted[other.challenge].expiresAt
  BY DEF Cause
<1>2. /\ other.challenge \in Challenge
      /\ quoted[other.challenge] # None
  BY DEF Typed, Pair, SignedConsistent
<1>3. /\ quoted'[other.challenge].expiresAt = quoted[other.challenge].expiresAt
      /\ quoted[other.challenge].expiresAt \in Nat
      /\ now \in Nat /\ now <= now'
  BY <1>2 DEF Kept, IInv, TypeOK, Quote
<1>4. other \in signed'
  OBVIOUS
<1>5. now >= quoted[other.challenge].expiresAt => now' >= quoted'[other.challenge].expiresAt
  BY <1>3
<1>6. QED
  BY <1>1, <1>4, <1>5 DEF Cause

LEMMA RecordedStays ==
  ASSUME Kept, NEW t, Recorded(t)
  PROVE  Recorded(t)'
BY DEF Kept, Recorded

\* Nothing of f's client or request is about g's quotes.
Apart(f, g) == Held(f)' \intersect Held(g) = {}

\* One client and its request move, the others stand still.
LEMMA FlowMoves ==
  ASSUME CInv, IInv', Typed', Kept, NEW f \in Req,
         \A g \in Req : g # f => flow'[g] = flow[g] /\ handler'[g] = handler[g],
         UNCHANGED <<now, ledger, sequence>>,
         FlowHolds(f)',
         signed \subseteq signed', troubled \subseteq troubled',
         \A pair \in signed' : pair \in signed \/
            /\ Sent(f)' /\ flow'[f].tx = pair.tx /\ flow'[f].id = pair.challenge,
         handler'[f].pc \in Submitted =>
            [challenge |-> handler'[f].id, tx |-> handler'[f].tx] \in signed',
         receipts' \subseteq signed',
         \A c \in Challenge : Redeemed(c)' => Redeemed(c) \/ c \in Held(f),
         \A g \in Req : g # f => Apart(f, g),
         flow'[f].pc \in {"account", "sign", "settling", "confirmed"}
            => ~ Redeemed(flow[f].id)',
         handler'[f].pc \in {"reply", "lookup", "consume", "commit"}
            => ~ Redeemed(handler[f].id)',
         \A t \in Tx : Sent(f) /\ flow[f].tx = t =>
            \/ Sent(f)' /\ flow'[f].tx = t
            \/ Recorded(t)' \/ Cause(t)'
            \/ \E g \in Req : g # f /\ Sent(g) /\ flow[g].tx = t,
         \A t \in Tx : flow[f].pc = "verifying" /\ flow[f].tx = t =>
            flow'[f] = flow[f] \/ Recorded(t)' \/ Cause(t)',
         \A p \in Proc : \A t \in usedTx'[p] :
            \/ t \in usedTx[p] \/ Recorded(t)' \/ Cause(t)'
            \/ flow'[f].pc = "verifying" /\ flow'[f].tx = t,
         bought' \subseteq receipts'
  PROVE  CInv'
<1>1. FlowsConsistent'
  BY OneFlow DEF CInv
<1>2. SignedConsistent'
  <2>1. ASSUME NEW pair \in signed'
        PROVE  /\ quoted'[pair.challenge] # None
               /\ Payable(quoted'[pair.challenge].req)
               /\ Content[pair.tx].to = quoted'[pair.challenge].req.recipient
               /\ ToStroops(Content[pair.tx].amount) = quoted'[pair.challenge].req.amount
    <3>1. CASE pair \in signed
      <4>1. pair.challenge \in Challenge
        BY <3>1 DEF CInv, Typed, Pair
      <4>2. QED
        BY <3>1, <4>1 DEF CInv, SignedConsistent, Kept
    <3>2. CASE pair \notin signed
      BY <2>1, <3>2 DEF FlowHolds, Sent, Quoted, Paid
    <3>3. QED
      BY <3>1, <3>2
  <2>2. \A t \in Tx : ledger'[t] # None => ledger'[t] = PaymentOf(t, ledger'[t].successful)
    BY DEF CInv, SignedConsistent
  <2>3. \A r \in Req : handler'[r].pc \in Submitted =>
           [challenge |-> handler'[r].id, tx |-> handler'[r].tx] \in signed'
    BY DEF CInv, SignedConsistent
  <2>4. QED
    BY <2>1, <2>2, <2>3 DEF SignedConsistent, Payable, PaymentOf
<1>3. OwnQuotes'
  <2>1. \A g \in Req : g # f => Held(g)' = Held(g)
    BY DEF Held, Quoted
  <2>2. \A g, h \in Req : g # h => Held(g)' \intersect Held(h)' = {}
    BY <2>1 DEF CInv, OwnQuotes, Apart
  <2>3. ASSUME NEW g \in Req, g # f
        PROVE  /\ flow'[g].pc \in {"account", "sign", "settling", "confirmed"}
                     => ~ Redeemed(flow[g].id)'
               /\ handler'[g].pc \in {"reply", "lookup", "consume", "commit"}
                     => ~ Redeemed(handler[g].id)'
    <3>1. flow'[g] = flow[g] /\ handler'[g] = handler[g]
      BY <2>3
    <3>2. /\ flow[g].pc \in {"account", "sign", "settling", "confirmed"}
               => flow[g].id \in Held(g)
          /\ handler[g].pc \in {"reply", "lookup", "consume", "commit"}
               => handler[g].id \in Held(g)
      BY DEF CInv, FlowsConsistent, FlowHolds, Held, Quoted, Submitted, IInv,
             HandlersConsistent, HandlerHolds
    <3>3. \A c \in Held(g) : c \in Challenge /\ c \notin Held(f)
      BY <2>3 DEF Held, CInv, OwnQuotes
    <3>4. \A c \in Held(g) : Redeemed(c)' => Redeemed(c)
      BY <3>3
    <3>5. /\ flow[g].pc \in {"account", "sign", "settling", "confirmed"}
               => ~ Redeemed(flow[g].id)
          /\ handler[g].pc \in {"reply", "lookup", "consume", "commit"}
               => ~ Redeemed(handler[g].id)
      BY DEF CInv, OwnQuotes
    <3>6. QED
      BY <3>1, <3>2, <3>4, <3>5 DEF Redeemed
  <2>4. QED
    BY <2>2, <2>3 DEF OwnQuotes
<1>4. Accounted'
  <2>1. \A t \in Tx : Cause(t) => Cause(t)'
    BY CauseStays DEF CInv, IInv, TypeOK
  <2>2. \A t \in Tx : Recorded(t) => Recorded(t)'
    BY RecordedStays
  <2>3. ASSUME NEW t \in Tx, NEW g \in Req, flow[g].pc = "verifying", flow[g].tx = t
        PROVE  \/ Recorded(t)' \/ Cause(t)'
               \/ \E h \in Req : flow'[h].pc = "verifying" /\ flow'[h].tx = t
    BY <2>3
  <2>4. ASSUME NEW p \in Proc, NEW t \in usedTx'[p]
        PROVE  \/ Recorded(t)' \/ Cause(t)'
               \/ \E h \in Req : flow'[h].pc = "verifying" /\ flow'[h].tx = t
    <3>1. t \in Tx
      BY <2>4 DEF IInv, TypeOK
    <3>2. CASE t \in usedTx[p]
      BY <3>1, <3>2, <2>1, <2>2, <2>3 DEF CInv, Accounted
    <3>3. QED
      BY <2>4, <3>2
  <2>5. ASSUME NEW t \in Tx, NEW g \in Req, Sent(g), flow[g].tx = t
        PROVE  \/ Recorded(t)' \/ Cause(t)'
               \/ \E h \in Req : Sent(h)' /\ flow'[h].tx = t
    BY <2>5 DEF Sent
  <2>6. ASSUME NEW pair \in signed'
        PROVE  \/ Recorded(pair.tx)' \/ Cause(pair.tx)'
               \/ \E h \in Req : Sent(h)' /\ flow'[h].tx = pair.tx
    <3>1. CASE pair \in signed
      <4>1. pair.tx \in Tx
        BY <3>1 DEF CInv, Typed, Pair
      <4>2. QED
        BY <3>1, <4>1, <2>1, <2>2, <2>5 DEF CInv, Accounted
    <3>2. QED
      BY <2>6, <3>1
  <2>7. QED
    BY <2>4, <2>6 DEF Accounted, Sent
<1>5. QED
  BY <1>1, <1>2, <1>3, <1>4 DEF CInv, AnswersOnOwnReceipt

(***************************************************************************)
(* Steps of a client alone.                                                *)
(***************************************************************************)

ClientPc == {"ready", "account", "sign", "settling"} \union Waiting \union Paid

LEMMA States ==
  ASSUME Typed, NEW f \in Req
  PROVE  /\ Ready \in State
         /\ flow[f] \in State
         /\ \A pc \in ClientPc : /\ Then(f, pc) \in State
                                 /\ Then(f, pc).pc = pc
                                 /\ Then(f, pc).call = flow[f].call
                                 /\ Then(f, pc).id = flow[f].id
                                 /\ Then(f, pc).terms = flow[f].terms
                                 /\ Then(f, pc).payer = flow[f].payer
                                 /\ Then(f, pc).tx = flow[f].tx
<1>1. Ready \in State
  BY DEF Ready, State
<1>2. flow[f] \in State
  BY DEF Typed
<1>3. ASSUME NEW pc \in ClientPc
      PROVE  Then(f, pc) \in State
  BY <1>2, <1>3, Zenon DEF Then, State, ClientPc
<1>4. QED
  BY <1>1, <1>2, <1>3 DEF Then, State, ClientPc

LEMMA BecomesState ==
  ASSUME Typed, NEW f \in Req, NEW state \in State, Become(f, state)
  PROVE  /\ flow' \in [Req -> State]
         /\ flow'[f] = state
         /\ \A g \in Req : g # f => flow'[g] = flow[g]
BY DEF Typed, Become

\* One client moves and the gateway stands still.
LEMMA ClientMoves ==
  ASSUME CInv, IInv', Kept, NEW f \in Req, NEW state \in State,
         Become(f, state), UNCHANGED <<vars, sequence, bought>>,
         FlowHolds(f)',
         signed' \subseteq Pair, signed \subseteq signed',
         troubled' \subseteq Challenge, troubled \subseteq troubled',
         state.pc # "ready" => Quoted(f) /\ state.id = flow[f].id,
         \A pair \in signed' : pair \in signed \/
            /\ state.pc \in {"settling"} \union Paid
            /\ state.tx = pair.tx /\ state.id = pair.challenge,
         state.pc \in {"account", "sign", "settling", "confirmed"} =>
            flow[f].pc \in {"account", "sign", "settling", "confirmed"},
         \A t \in Tx : Sent(f) /\ flow[f].tx = t =>
            \/ state.pc \in {"settling"} \union Paid /\ state.tx = t
            \/ Recorded(t) \/ Cause(t)'
            \/ \E g \in Req : g # f /\ Sent(g) /\ flow[g].tx = t,
         \A t \in Tx : flow[f].pc = "verifying" /\ flow[f].tx = t =>
            state = flow[f] \/ Recorded(t) \/ Cause(t)'
  PROVE  CInv'
<1>1. /\ flow' \in [Req -> State]
      /\ flow'[f] = state
      /\ \A g \in Req : g # f => flow'[g] = flow[g]
  BY BecomesState DEF CInv
<1>2. UNCHANGED <<now, ledger, receipts, usedTx, handler>>
  BY DEF vars
<1>3. Typed'
  BY <1>1 DEF CInv, Typed
<1>4. signed' \subseteq signed' /\ receipts' \subseteq signed'
  BY <1>2 DEF CInv, SignedConsistent
<1>5. \A t : Recorded(t)' <=> Recorded(t)
  BY <1>2 DEF Recorded
<1>6. \A c : Redeemed(c)' <=> Redeemed(c)
  BY <1>2 DEF Redeemed
<1>7. ASSUME NEW g \in Req, g # f PROVE Apart(f, g)
  <2>1. Held(f)' \subseteq Held(f)
    BY <1>1, <1>2 DEF Held, Quoted
  <2>2. QED
    BY <2>1, <1>7 DEF Apart, CInv, OwnQuotes
<1>8. /\ flow'[f].pc \in {"account", "sign", "settling", "confirmed"}
            => ~ Redeemed(flow[f].id)'
      /\ handler'[f].pc \in {"reply", "lookup", "consume", "commit"}
            => ~ Redeemed(handler[f].id)'
  BY <1>1, <1>2 DEF CInv, OwnQuotes, Redeemed
<1>9. handler'[f].pc \in Submitted =>
         [challenge |-> handler'[f].id, tx |-> handler'[f].tx] \in signed'
  BY <1>2 DEF CInv, SignedConsistent
<1>10. bought' \subseteq receipts'
  BY <1>2 DEF CInv, AnswersOnOwnReceipt
<1>11. Sent(f)' <=> state.pc \in {"settling"} \union Paid
  BY <1>1 DEF Sent
<1>12. QED
  BY <1>1, <1>2, <1>3, <1>4, <1>5, <1>6, <1>7, <1>8, <1>9, <1>10, <1>11, FlowMoves

\* What the invariant says of one client.
LEMMA ClientFacts ==
  ASSUME CInv, NEW f \in Req
  PROVE  /\ FlowHolds(f)
         /\ flow[f] \in State /\ handler[f] \in Handler
         /\ Quoted(f) => /\ flow[f].id \in Challenge
                         /\ flow[f].terms \in Requirement
                         /\ flow[f].terms = quoted[flow[f].id].req
         /\ flow[f].pc = "sign" \/ Sent(f) => flow[f].tx \in Tx
         /\ Sent(f) => [challenge |-> flow[f].id, tx |-> flow[f].tx] \in signed
         /\ flow[f].pc \notin Waiting \union {"ready"} => handler[f].pc = "idle"
<1>1. /\ FlowHolds(f)
      /\ flow[f] \in State /\ handler[f] \in Handler
  BY DEF CInv, FlowsConsistent, Typed, IInv, TypeOK
<1>2. ASSUME Quoted(f)
      PROVE  /\ flow[f].id \in Challenge
             /\ flow[f].terms \in Requirement
             /\ flow[f].terms = quoted[flow[f].id].req
  <2>1. /\ flow[f].id \in Challenge /\ quoted[flow[f].id] # None
        /\ flow[f].terms = quoted[flow[f].id].req
    BY <1>1, <1>2 DEF FlowHolds
  <2>2. quoted[flow[f].id] \in Quote
    BY <2>1 DEF CInv, IInv, TypeOK
  <2>3. QED
    BY <2>1, <2>2 DEF Quote
<1>3. QED
  BY <1>1, <1>2 DEF FlowHolds

\* A client that ends for a reason that is known, or before it has sent.
LEMMA EndsPreserves ==
  ASSUME CInv, IInv', Kept, NEW f \in Req, Become(f, Ready),
         UNCHANGED <<vars, wallets, bought>>,
         troubled \subseteq troubled', troubled' \subseteq Challenge,
         handler[f].pc \in Submitted => handler[f].id \in troubled',
         \A t \in Tx : Sent(f) /\ flow[f].tx = t =>
            \/ Recorded(t) \/ Cause(t)'
            \/ \E g \in Req : g # f /\ Sent(g) /\ flow[g].tx = t,
         \A t \in Tx : flow[f].pc = "verifying" /\ flow[f].tx = t =>
            Recorded(t) \/ Cause(t)'
  PROVE  CInv'
<1>1. /\ Ready \in State /\ Ready.pc = "ready"
      /\ UNCHANGED <<sequence, signed>>
  BY States DEF CInv, Ready, wallets
<1>2. flow'[f] = Ready
  BY <1>1, BecomesState DEF CInv
<1>3. FlowHolds(f)'
  BY <1>1, <1>2 DEF FlowHolds, Quoted, Sent, Waiting, Paid, vars
<1>4. signed' \subseteq Pair
  BY <1>1 DEF CInv, Typed
<1>5. QED
  BY <1>1, <1>3, <1>4, ClientMoves DEF Paid

\* A quote in the troubled set is a cause for the transaction signed for it.
LEMMA TroubledIsCause ==
  ASSUME NEW f \in Req, NEW t, [challenge |-> flow[f].id, tx |-> t] \in signed',
         flow[f].id \in troubled'
  PROVE  Cause(t)'
<1> DEFINE pair == [challenge |-> flow[f].id, tx |-> t]
<1>1. pair \in signed' /\ pair.tx = t /\ pair.challenge \in troubled'
  OBVIOUS
<1>2. QED
  BY <1>1 DEF Cause

\* A client that goes back before anything is signed.
LEMMA BacksOut ==
  ASSUME CInv, IInv', Kept, NEW f \in Req, flow[f].pc \in {"account", "sign"},
         Become(f, Ready), UNCHANGED <<vars, wallets, outcomes>>
  PROVE  CInv'
<1>1. /\ ~ Sent(f) /\ handler[f].pc = "idle"
      /\ troubled' = troubled /\ bought' = bought
      /\ flow[f].pc # "verifying"
  BY ClientFacts DEF Sent, Paid, Waiting, outcomes
<1>2. troubled' \subseteq Challenge
  BY <1>1 DEF CInv, Typed
<1>3. QED
  BY <1>1, <1>2, EndsPreserves DEF Submitted

LEMMA UnconfirmedPreserves ==
  ASSUME CInv, IInv', Kept, NEW f \in Req, Unconfirmed(f)
  PROVE  CInv'
<1>1. /\ Sent(f) /\ handler[f].pc = "idle" /\ Quoted(f)
      /\ troubled' = troubled \union {flow[f].id} /\ bought' = bought
      /\ flow[f].pc # "verifying" /\ signed' = signed
  BY ClientFacts DEF Unconfirmed, Sent, Paid, Waiting, Quoted, wallets
<1>2. troubled' \subseteq Challenge
  BY <1>1, ClientFacts DEF CInv, Typed
<1>3. ASSUME NEW t \in Tx, flow[f].tx = t PROVE Cause(t)'
  BY <1>1, <1>3, ClientFacts, TroubledIsCause
<1>4. QED
  BY <1>1, <1>2, <1>3, EndsPreserves DEF Unconfirmed, Submitted

LEMMA ReloadPreserves ==
  ASSUME CInv, IInv', Kept, NEW f \in Req, Reload(f)
  PROVE  CInv'
<1>1. /\ flow[f].pc # "ready"
      /\ troubled' = troubled \union ({flow[f].id} \ {None}) /\ bought' = bought
      /\ signed' = signed
  BY DEF Reload, wallets
<1>2. flow[f] \in State /\ (Quoted(f) => flow[f].id \in Challenge)
  BY ClientFacts
<1>3. troubled' \subseteq Challenge
  BY <1>1, <1>2 DEF CInv, Typed, State
<1>4. Sent(f) => Quoted(f)
  BY DEF Sent, Quoted, Paid
<1>5. ASSUME NEW t \in Tx, Sent(f), flow[f].tx = t PROVE Cause(t)'
  BY <1>1, <1>2, <1>4, <1>5, ClientFacts, TroubledIsCause
<1>6. handler[f].pc \in Submitted => handler[f].id \in troubled'
  <2>1. handler[f].pc \in Submitted => flow[f].pc = "verifying" /\ handler[f].id = flow[f].id
    BY <1>1, ClientFacts DEF FlowHolds, Submitted, Waiting
  <2>2. QED
    BY <1>1, <1>2, <2>1 DEF Quoted
<1>7. QED
  BY <1>1, <1>3, <1>5, <1>6, EndsPreserves DEF Reload, Sent, Paid

LEMMA ReadAccountPreserves ==
  ASSUME CInv, IInv', Kept, NEW f \in Req, ReadAccount(f)
  PROVE  CInv'
<1>1. /\ flow[f].pc = "account" /\ Quoted(f) /\ ~ Sent(f)
      /\ flow[f].terms.amount \in Nat
      /\ handler[f].pc = "idle"
      /\ UNCHANGED <<vars, sequence, signed, bought, troubled>>
  BY ClientFacts DEF ReadAccount, Quoted, Sent, Paid, Waiting, Requirement,
                     wallets, outcomes
<1>2. CASE Become(f, Ready)
  <2>1. troubled' \subseteq Challenge
    BY <1>1 DEF CInv, Typed
  <2>2. QED
    BY <1>1, <1>2, <2>1, EndsPreserves DEF Submitted, wallets
<1>3. ASSUME NEW t \in Tx, Content[t] = PaymentBody(flow[f].terms, flow[f].payer,
                                                  sequence[flow[f].payer]),
             Become(f, [flow[f] EXCEPT !.pc = "sign", !.tx = t])
      PROVE  CInv'
  <2> DEFINE state == [flow[f] EXCEPT !.pc = "sign", !.tx = t]
  <2>1. flow[f] \in State
    BY ClientFacts
  <2>2. state \in State
    BY <2>1, Zenon DEF State
  <2>3. /\ state.pc = "sign" /\ state.tx = t /\ state.id = flow[f].id
        /\ state.terms = flow[f].terms /\ state.call = flow[f].call
        /\ state.payer = flow[f].payer
    BY <2>1 DEF State
  <2> HIDE DEF state
  <2>4. flow'[f] = state
    BY <1>3, <2>2, BecomesState DEF CInv, state
  <2>5. /\ Content[t].to = flow[f].terms.recipient
        /\ ToStroops(Content[t].amount) = flow[f].terms.amount
    BY <1>1, <1>3, DecimalRoundTrip DEF PaymentBody
  <2>6. FlowHolds(f)'
    <3>1. /\ flow[f].call \in Call /\ flow[f].id \in Challenge
          /\ flow[f].payer \in Account /\ quoted[flow[f].id] # None
          /\ flow[f].terms = quoted[flow[f].id].req /\ Payable(flow[f].terms)
      BY <1>1, ClientFacts DEF FlowHolds
    <3>2. handler'[f].pc = "idle" /\ quoted' = quoted
      BY <1>1 DEF vars
    <3>3. state.pc \notin {"settling", "ready", "asked"} \union Waiting \union Paid
          /\ "idle" \notin Submitted
      BY <2>3 DEF Waiting, Paid, Submitted
    <3>4. QED
      BY <2>3, <2>4, <2>5, <3>1, <3>2, <3>3 DEF FlowHolds, Sent, Payable, Waiting, Paid
  <2>7. signed' \subseteq Pair /\ troubled' \subseteq Challenge
    BY <1>1 DEF CInv, Typed
  <2>8. Become(f, state)
    BY <1>3 DEF state
  <2>9. QED
    BY <1>1, <2>2, <2>3, <2>6, <2>7, <2>8, ClientMoves
<1>4. QED
  BY <1>2, <1>3 DEF ReadAccount

LEMMA SignPreserves ==
  ASSUME CInv, IInv', Kept, NEW f \in Req, Sign(f)
  PROVE  CInv'
<1> DEFINE state == Then(f, "settling")
           pair == [challenge |-> flow[f].id, tx |-> flow[f].tx]
<1>1. /\ flow[f].pc = "sign" /\ Quoted(f) /\ ~ Sent(f)
      /\ handler[f].pc = "idle"
      /\ signed' = signed \union {pair} /\ Become(f, state)
      /\ UNCHANGED <<vars, sequence, bought, troubled>>
  BY ClientFacts DEF Sign, Quoted, Sent, Paid, Waiting, outcomes
<1>2. pair \in Pair /\ pair.tx = flow[f].tx /\ pair.challenge = flow[f].id
  BY <1>1, ClientFacts DEF Pair
<1>3. /\ state \in State /\ state.pc = "settling" /\ state.tx = flow[f].tx
      /\ state.id = flow[f].id /\ state.terms = flow[f].terms
      /\ state.call = flow[f].call /\ state.payer = flow[f].payer
  BY States DEF CInv, ClientPc
<1>4. signed' \subseteq Pair /\ troubled' \subseteq Challenge
  BY <1>1, <1>2 DEF CInv, Typed
<1> HIDE DEF state
<1>5. flow'[f] = state
  BY <1>1, <1>3, BecomesState DEF CInv
<1>6. FlowHolds(f)'
  BY <1>1, <1>3, <1>5, ClientFacts
     DEF FlowHolds, Quoted, Sent, Paid, Waiting, vars
<1> HIDE DEF pair
<1>7. \A other \in signed' : other \in signed \/
         /\ state.pc \in {"settling"} \union Paid
         /\ state.tx = other.tx /\ state.id = other.challenge
  BY <1>1, <1>2, <1>3
<1>8. QED
  BY <1>1, <1>3, <1>4, <1>6, <1>7, ClientMoves

LEMMA ConfirmedPreserves ==
  ASSUME CInv, IInv', Kept, NEW f \in Req, Confirmed(f)
  PROVE  CInv'
<1> DEFINE state == Then(f, "confirmed")
<1>1. /\ flow[f].pc = "settling" /\ Quoted(f) /\ Sent(f)
      /\ handler[f].pc = "idle" /\ Settled(flow[f].tx)
      /\ Become(f, state)
      /\ UNCHANGED <<vars, sequence, signed, bought, troubled>>
  BY ClientFacts DEF Confirmed, Quoted, Sent, Paid, Waiting, outcomes, wallets
<1>2. /\ state \in State /\ state.pc = "confirmed" /\ state.tx = flow[f].tx
      /\ state.id = flow[f].id /\ state.terms = flow[f].terms
      /\ state.call = flow[f].call /\ state.payer = flow[f].payer
  BY States DEF CInv, ClientPc, Paid
<1>3. signed' \subseteq Pair /\ troubled' \subseteq Challenge
  BY <1>1 DEF CInv, Typed
<1> HIDE DEF state
<1>4. flow'[f] = state
  BY <1>1, <1>2, BecomesState DEF CInv
<1>5. FlowHolds(f)'
  BY <1>1, <1>2, <1>4, ClientFacts
     DEF FlowHolds, Quoted, Sent, Settled, Paid, Waiting, vars
<1>6. QED
  BY <1>1, <1>2, <1>3, <1>5, ClientMoves DEF Paid

\* A quote that nobody redeemed can be paid at every process until it expires.
LEMMA DeadIsExpired ==
  ASSUME CInv, NEW c \in Challenge, NEW p \in Proc, quoted[c] # None,
         ~ Redeemed(c), ~ Live(p, c)
  PROVE  now >= quoted[c].expiresAt
<1>1. /\ Loaded(p, c) # None
      /\ Loaded(p, c).expiresAt = quoted[c].expiresAt
  BY LoadedIsQuoted DEF CInv
<1>2. /\ cached[p][c] # None => cached[p][c] \in CacheEntry
      /\ now \in Nat /\ quoted[c] \in Quote
  BY DEF CInv, IInv, TypeOK
<1>3. ~ Loaded(p, c).used
  <2>1. CASE cached[p][c] # None
    <3>1. cached[p][c].used \in BOOLEAN /\ (cached[p][c].used => Redeemed(c))
      BY <1>2, <2>1 DEF CInv, IInv, MemoryNeverAhead, CacheEntry
    <3>2. QED
      BY <2>1, <3>1 DEF Loaded
  <2>2. CASE cached[p][c] = None
    BY <1>1, <2>2 DEF Loaded, Stored
  <2>3. QED
    BY <2>1, <2>2
<1>4. ~ (now < quoted[c].expiresAt)
  BY <1>1, <1>3 DEF Live
<1>5. quoted[c].expiresAt \in Nat
  BY <1>2 DEF Quote
<1>6. QED
  BY <1>2, <1>4, <1>5

\* Why the gateway refuses a confirmed payment at once.
LEMMA RefusedBecause ==
  ASSUME CInv, NEW f \in Req, NEW p \in Proc, flow[f].pc = "confirmed",
         ~ Accepted(f, p), flow[f].terms.network = settings[p].network
  PROVE  \/ now >= quoted[flow[f].id].expiresAt
         \/ flow[f].tx \in usedTx[p]
<1> DEFINE c == flow[f].id
<1>1. c \in Challenge /\ flow[f].terms = quoted[c].req /\ quoted[c] # None
  BY ClientFacts DEF Quoted, FlowHolds
<1>2. Loaded(p, c).req = quoted[c].req
  BY <1>1, LoadedIsQuoted DEF CInv
<1>3. ~ Redeemed(c)
  BY DEF CInv, OwnQuotes
<1> HIDE DEF c
<1>4. ~ Live(p, c) => now >= quoted[c].expiresAt
  BY <1>1, <1>3, DeadIsExpired
<1>5. QED
  BY <1>1, <1>2, <1>4 DEF Accepted, SeenByVerifier, c

\* An expired quote is a cause for the transaction signed for it.
LEMMA ExpiredIsCause ==
  ASSUME NEW f \in Req, NEW t, [challenge |-> flow[f].id, tx |-> t] \in signed,
         now >= quoted[flow[f].id].expiresAt
  PROVE  Cause(t)
<1> DEFINE pair == [challenge |-> flow[f].id, tx |-> t]
<1>1. pair \in signed /\ pair.tx = t /\ now >= quoted[pair.challenge].expiresAt
  OBVIOUS
<1>2. QED
  BY <1>1 DEF Cause

LEMMA PostRefusedPreserves ==
  ASSUME CInv, IInv', Kept, NEW f \in Req, NEW p \in Proc, PostRefused(f, p)
  PROVE  CInv'
<1>1. /\ flow[f].pc = "confirmed" /\ Sent(f) /\ Quoted(f) /\ ~ Accepted(f, p)
      /\ handler[f].pc = "idle"
      /\ Become(f, Ready)
      /\ troubled' = IF flow[f].terms.network = settings[p].network
                     THEN troubled ELSE troubled \union {flow[f].id}
      /\ UNCHANGED <<vars, wallets, bought>> /\ signed' = signed
  BY ClientFacts DEF PostRefused, Sent, Quoted, Paid, Waiting, wallets
<1>2. troubled' \subseteq Challenge /\ troubled \subseteq troubled'
  BY <1>1, ClientFacts DEF CInv, Typed
<1>3. ASSUME NEW t \in Tx, flow[f].tx = t
      PROVE  \/ Recorded(t) \/ Cause(t)'
             \/ \E g \in Req : g # f /\ Sent(g) /\ flow[g].tx = t
  <2>1. [challenge |-> flow[f].id, tx |-> t] \in signed
    BY <1>1, <1>3, ClientFacts
  <2>2. Cause(t) => Cause(t)'
    BY <1>1, <1>2, CauseStays DEF CInv, IInv, TypeOK
  <2>3. CASE flow[f].terms.network # settings[p].network
    BY <1>1, <2>1, <2>3, TroubledIsCause
  <2>4. CASE now >= quoted[flow[f].id].expiresAt
    BY <2>1, <2>2, <2>4, ExpiredIsCause
  <2>5. CASE t \in usedTx[p]
    <3>1. \/ Recorded(t) \/ Cause(t)
          \/ \E g \in Req : flow[g].pc = "verifying" /\ flow[g].tx = t
      BY <2>5 DEF CInv, Accounted
    <3>2. QED
      BY <1>1, <2>2, <3>1 DEF Sent, Paid
  <2>6. QED
    BY <1>1, <1>3, <2>3, <2>4, <2>5, RefusedBecause
<1>4. QED
  BY <1>1, <1>2, <1>3, EndsPreserves DEF Submitted

(***************************************************************************)
(* Steps of a client's request.                                            *)
(***************************************************************************)

\* One client and its request move; the database and the ledger stand still.
LEMMA GatewayMoves ==
  ASSUME CInv, IInv', Kept, NEW f \in Req, NEW state \in State, NEW h,
         Become(f, state), handler' = [handler EXCEPT ![f] = h],
         UNCHANGED <<now, ledger, receipts, usedTx, wallets>>,
         FlowHolds(f)',
         troubled' \subseteq Challenge, troubled \subseteq troubled',
         bought' \subseteq receipts,
         state.pc \notin {"ready", "asked"} => state.id \in Held(f),
         h.pc \in Submitted \union {"reply"} => h.id \in Held(f),
         h.pc \in Submitted => [challenge |-> h.id, tx |-> h.tx] \in signed,
         state.pc \in {"account", "sign", "settling", "confirmed"}
            => ~ Redeemed(state.id),
         h.pc \in {"reply", "lookup", "consume", "commit"} => ~ Redeemed(h.id),
         \A t \in Tx : Sent(f) /\ flow[f].tx = t =>
            \/ state.pc \in {"settling"} \union Paid /\ state.tx = t
            \/ Recorded(t) \/ Cause(t)',
         \A t \in Tx : flow[f].pc = "verifying" /\ flow[f].tx = t =>
            state = flow[f] \/ Recorded(t) \/ Cause(t)'
  PROVE  CInv'
<1>1. /\ flow' \in [Req -> State]
      /\ flow'[f] = state
      /\ \A g \in Req : g # f => flow'[g] = flow[g]
  BY BecomesState DEF CInv
<1>2. /\ handler'[f] = h
      /\ \A g \in Req : g # f => handler'[g] = handler[g]
  BY DEF CInv, IInv, TypeOK
<1>3. receipts \subseteq Pair
  BY DEF CInv, IInv, TypeOK, Pair
<1>4. UNCHANGED <<sequence, signed>>
  BY DEF wallets
<1>5. Typed'
  BY <1>1, <1>3, <1>4 DEF CInv, Typed
<1>6. receipts' \subseteq signed'
  BY <1>4 DEF CInv, SignedConsistent
<1>7. \A t : Recorded(t)' <=> Recorded(t)
  BY DEF Recorded
<1>8. \A c : Redeemed(c)' <=> Redeemed(c)
  BY DEF Redeemed
<1>9. ASSUME NEW g \in Req, g # f PROVE Apart(f, g)
  <2>1. Held(f)' \subseteq Held(f)
    BY <1>1, <1>2 DEF Held, Quoted
  <2>2. QED
    BY <2>1, <1>9 DEF Apart, CInv, OwnQuotes
<1>10. /\ flow'[f].pc \in {"account", "sign", "settling", "confirmed"}
            => ~ Redeemed(flow[f].id)'
       /\ handler'[f].pc \in {"reply", "lookup", "consume", "commit"}
            => ~ Redeemed(handler[f].id)'
  BY <1>1, <1>2 DEF Redeemed
<1>11. handler'[f].pc \in Submitted =>
         [challenge |-> handler'[f].id, tx |-> handler'[f].tx] \in signed'
  BY <1>2, <1>4
<1>12. Sent(f)' <=> state.pc \in {"settling"} \union Paid
  BY <1>1 DEF Sent
<1>13. QED
  BY <1>1, <1>2, <1>4, <1>5, <1>6, <1>7, <1>8, <1>9, <1>10, <1>11, <1>12, FlowMoves

\* A request that ends.  Its client hears of it, unless it was reloaded.
LEMMA RequestEnds ==
  ASSUME CInv, IInv', Kept, NEW f \in Req, End(f),
         flow[f].pc \in Waiting \union {"ready"},
         Become(f, Ready) \/ (flow[f].pc = "ready" /\ Become(f, flow[f])),
         UNCHANGED <<now, ledger, receipts, usedTx, wallets>>,
         troubled' \subseteq Challenge, troubled \subseteq troubled',
         bought' \subseteq receipts,
         \A t \in Tx : flow[f].pc \in Paid /\ flow[f].tx = t => Recorded(t) \/ Cause(t)'
  PROVE  CInv'
<1> DEFINE state == IF Become(f, Ready) THEN Ready ELSE flow[f]
<1>1. /\ state \in State /\ state.pc = "ready" /\ Become(f, state)
      /\ Idle.pc = "idle"
  BY States DEF CInv, Ready, Idle
<1> HIDE DEF state
<1>2. handler' = [handler EXCEPT ![f] = Idle]
  BY DEF End
<1>3. flow'[f] = state /\ handler'[f] = Idle
  BY <1>1, <1>2, BecomesState DEF CInv, IInv, TypeOK
<1>4. FlowHolds(f)'
  BY <1>1, <1>3 DEF FlowHolds, Quoted, Sent, Waiting, Paid, Submitted
<1>5. Sent(f) => flow[f].pc \in Paid
  BY DEF Sent, Waiting
<1>6. QED
  BY <1>1, <1>2, <1>4, <1>5, GatewayMoves DEF Submitted, Paid

LEMMA AskPreserves ==
  ASSUME CInv, IInv', Kept, NEW f \in Req, NEW p \in Proc, NEW call \in Call,
         Ask(f, p, call)
  PROVE  CInv'
<1> DEFINE state == [Ready EXCEPT !.pc = "asked", !.call = call]
           h == [Idle EXCEPT !.pc = "price", !.at = p, !.call = call, !.tx = None]
<1>1. /\ flow[f].pc = "ready" /\ Become(f, state)
      /\ handler' = [handler EXCEPT ![f] = h]
      /\ UNCHANGED <<world, database, memory, wallets, outcomes>>
  BY DEF Ask, Request, Begin
<1>2. UNCHANGED <<now, ledger, receipts, usedTx, bought, troubled>>
  BY <1>1 DEF world, database, memory, outcomes
<1>3. /\ state \in State /\ state.pc = "asked" /\ state.call = call
      /\ h.pc = "price"
  BY DEF Ready, State, Waiting, Idle
<1> HIDE DEF state, h
<1>4. flow'[f] = state /\ handler'[f] = h
  BY <1>1, <1>3, BecomesState DEF CInv, IInv, TypeOK
<1>5. FlowHolds(f)'
  BY <1>3, <1>4 DEF FlowHolds, Quoted, Sent, Waiting, Paid, Submitted
<1>6. troubled' \subseteq Challenge /\ bought' \subseteq receipts
  BY <1>2 DEF CInv, Typed, AnswersOnOwnReceipt
<1>7. ~ Sent(f)
  BY <1>1 DEF Sent, Paid
<1>8. QED
  BY <1>1, <1>2, <1>3, <1>5, <1>6, <1>7, GatewayMoves DEF Submitted

LEMMA Hear402Preserves ==
  ASSUME CInv, IInv', Kept, NEW f \in Req, Hear402(f)
  PROVE  CInv'
<1> DEFINE c == handler[f].id
           terms == handler[f].req
<1>1. /\ handler[f].pc = "reply" /\ Reply402(f) /\ End(f)
      /\ UNCHANGED <<now, ledger, receipts, usedTx, wallets>>
      /\ bought' = bought /\ troubled' = troubled
  BY DEF Hear402, Reply402, database, memory, outcomes
<1>2. /\ c \in Challenge /\ terms \in Requirement
      /\ flow[f].pc \in {"asked", "ready"} /\ flow[f] \in State
      /\ flow[f].pc = "asked" => flow[f].call \in Call
      /\ ~ Redeemed(c) /\ c \in Held(f)
  <2>1. c \in Challenge /\ ~ Redeemed(c)
    BY <1>1 DEF CInv, IInv, HandlersConsistent, HandlerHolds, OwnQuotes
  <2>2. c \in Held(f)
    BY <1>1, <2>1 DEF Held
  <2>3. flow[f].pc \in {"asked", "ready"} /\ flow[f] \in State
        /\ (flow[f].pc = "asked" => flow[f].call \in Call)
    BY <1>1, ClientFacts DEF FlowHolds, Waiting, Submitted
  <2>4. terms \in Requirement
    <3>1. handler[f].at \in Proc /\ cached[handler[f].at][c] # None
          /\ cached[handler[f].at][c].req = terms
      BY <1>1 DEF CInv, IInv, HandlersConsistent, HandlerHolds
    <3>2. cached[handler[f].at][c] \in CacheEntry
      BY <2>1, <3>1 DEF CInv, IInv, TypeOK
    <3>3. QED
      BY <3>1, <3>2 DEF CacheEntry
  <2>5. QED
    BY <2>1, <2>2, <2>3, <2>4
<1>3. quoted'[c] # None /\ quoted'[c].req = terms
  <2>1. quoted' = [quoted EXCEPT ![c] = [req |-> terms,
                                         expiresAt |-> cached[handler[f].at][c].expiresAt]]
    BY <1>1 DEF Reply402
  <2>2. quoted'[c] = [req |-> terms, expiresAt |-> cached[handler[f].at][c].expiresAt]
    BY <1>2, <2>1 DEF CInv, IInv, TypeOK
  <2>3. rows'[c] # None /\ rows[c] # None /\ handler[f].at \in Proc
        /\ cached[handler[f].at][c] \in CacheEntry
    <3>1. rows[c] # None /\ handler[f].at \in Proc
          /\ cached[handler[f].at][c] # None
      BY <1>1 DEF CInv, IInv, HandlersConsistent, HandlerHolds
    <3>2. rows' = rows
      BY <1>1 DEF Reply402, database
    <3>3. QED
      BY <1>2, <3>1, <3>2 DEF CInv, IInv, TypeOK
  <2>4. quoted'[c] \in Quote
    BY <1>2, <2>2, <2>3 DEF Quote, CacheEntry
  <2>5. QED
    BY <2>2, <2>4
<1> HIDE DEF c, terms
<1>4. bought' \subseteq receipts /\ troubled' \subseteq Challenge
  BY <1>1 DEF CInv, Typed, AnswersOnOwnReceipt
<1>5. PICK payer \in Payers(f) :
         Hear(f, IF /\ flow[f].pc = "asked" /\ payer # None /\ Payable(terms)
                 THEN [flow[f] EXCEPT !.pc = "account", !.id = c,
                                      !.terms = terms, !.payer = payer]
                 ELSE Ready)
  BY DEF Hear402, c, terms
<1>6. CASE flow[f].pc = "asked" /\ payer # None /\ Payable(terms)
  <2> DEFINE state == [flow[f] EXCEPT !.pc = "account", !.id = c,
                                      !.terms = terms, !.payer = payer]
  <2>1. payer \in Account
    BY <1>6 DEF Payers
  <2>2. state \in State
    BY <1>2, <2>1, Zenon DEF State
  <2>3. /\ state.pc = "account" /\ state.id = c /\ state.terms = terms
        /\ state.payer = payer /\ state.call = flow[f].call
    BY <1>2 DEF State
  <2>4. Become(f, state)
    BY <1>5, <1>6 DEF Hear, Waiting
  <2> HIDE DEF state
  <2>5. flow'[f] = state /\ handler'[f] = Idle /\ Idle.pc = "idle"
        /\ handler' = [handler EXCEPT ![f] = Idle]
    BY <1>1, <2>2, <2>4, BecomesState DEF CInv, IInv, TypeOK, End, Idle
  <2>6. FlowHolds(f)'
    BY <1>2, <1>3, <1>6, <2>1, <2>3, <2>5
       DEF FlowHolds, Quoted, Sent, Waiting, Paid, Submitted
  <2>7. ~ Sent(f) /\ flow[f].pc # "verifying"
    BY <1>6 DEF Sent, Paid
  <2>8. QED
    BY <1>1, <1>2, <1>4, <2>2, <2>3, <2>4, <2>5, <2>6, <2>7, GatewayMoves DEF Submitted
<1>7. CASE ~ (flow[f].pc = "asked" /\ payer # None /\ Payable(terms))
  <2>1. Become(f, Ready) \/ (flow[f].pc = "ready" /\ Become(f, flow[f]))
    BY <1>2, <1>5, <1>7 DEF Hear, Waiting
  <2>2. QED
    BY <1>1, <1>2, <1>4, <2>1, RequestEnds DEF Waiting, Paid
<1>8. QED
  BY <1>6, <1>7

\* A client that has paid goes on with what it knows.
LEMMA GoesOn ==
  ASSUME CInv, Kept, NEW f \in Req, flow[f].pc \in Paid, NEW state,
         flow'[f] = state, state.pc \in Paid,
         state.id = flow[f].id, state.terms = flow[f].terms,
         state.call = flow[f].call, state.payer = flow[f].payer,
         state.tx = flow[f].tx,
         signed' = signed,
         handler'[f].pc # "idle" => state.pc \in Waiting,
         state.pc = "verifying" => /\ handler'[f].pc \in Submitted
                                   /\ handler'[f].id = state.id
                                   /\ handler'[f].tx = state.tx,
         state.pc = "retrying" => handler'[f].pc = "has" /\ handler'[f].tx = state.tx,
         state.pc \in {"receipted", "retrying"} =>
            [challenge |-> state.id, tx |-> state.tx] \in receipts'
  PROVE  FlowHolds(f)'
<1>1. FlowHolds(f) /\ flow[f].tx \in Tx /\ Quoted(f) /\ Sent(f)
  BY ClientFacts DEF Sent, Quoted, Paid
<1>2. /\ flow[f].call \in Call /\ flow[f].id \in Challenge
      /\ flow[f].payer \in Account
      /\ quoted[flow[f].id] # None
      /\ flow[f].terms = quoted[flow[f].id].req
      /\ Payable(flow[f].terms)
      /\ Content[flow[f].tx].to = flow[f].terms.recipient
      /\ ToStroops(Content[flow[f].tx].amount) = flow[f].terms.amount
      /\ [challenge |-> flow[f].id, tx |-> flow[f].tx] \in signed
      /\ ledger[flow[f].tx] # None /\ ledger[flow[f].tx].successful
  BY <1>1 DEF FlowHolds, Paid, Settled
<1>3. /\ quoted'[flow[f].id] # None
      /\ quoted'[flow[f].id].req = quoted[flow[f].id].req
      /\ ledger'[flow[f].tx] = ledger[flow[f].tx]
  BY <1>1, <1>2 DEF Kept
<1>4. state.pc \notin {"ready", "asked", "sign"}
  BY DEF Paid
<1>5. QED
  BY <1>1, <1>2, <1>3, <1>4 DEF FlowHolds, Payable, Settled

LEMMA PostVerifyPreserves ==
  ASSUME CInv, IInv', Kept, NEW f \in Req, NEW p \in Proc, PostVerify(f, p)
  PROVE  CInv'
<1> DEFINE state == Then(f, "verifying")
           h == [Idle EXCEPT !.pc = "lookup", !.at = p, !.tx = flow[f].tx,
                             !.id = flow[f].id, !.req = Loaded(p, flow[f].id).req]
<1>1. /\ flow[f].pc = "confirmed" /\ Quoted(f) /\ Sent(f)
      /\ Submit(f, p, flow[f].id, flow[f].tx) /\ Become(f, state)
      /\ UNCHANGED <<wallets, outcomes>>
  BY DEF PostVerify, Quoted, Sent, Paid
<1>2. /\ h.pc = "lookup" /\ h.id = flow[f].id /\ h.tx = flow[f].tx
      /\ handler' = [handler EXCEPT ![f] = h] /\ handler'[f] = h
      /\ UNCHANGED <<now, ledger, receipts, usedTx, quoted>>
  <2>1. h.pc = "lookup" /\ h.id = flow[f].id /\ h.tx = flow[f].tx
    BY DEF Idle
  <2> HIDE DEF h
  <2>2. handler' = [handler EXCEPT ![f] = h] /\ UNCHANGED <<world, database, memory>>
    BY <1>1 DEF Submit, Begin, h
  <2>3. QED
    BY <2>1, <2>2 DEF CInv, IInv, TypeOK, world, database, memory
<1>3. /\ state \in State /\ state.pc = "verifying" /\ state.tx = flow[f].tx
      /\ state.id = flow[f].id /\ state.terms = flow[f].terms
      /\ state.call = flow[f].call /\ state.payer = flow[f].payer
  BY States DEF CInv, ClientPc, Waiting
<1> HIDE DEF state
<1>4. flow'[f] = state /\ UNCHANGED <<signed, bought, troubled>>
  BY <1>1, <1>3, BecomesState DEF CInv, wallets, outcomes
<1> HIDE DEF h
<1>5. FlowHolds(f)'
  <2>1. /\ flow[f].pc \in Paid /\ state.pc \in Paid /\ state.pc \in Waiting
        /\ handler'[f].pc \in Submitted
    BY <1>1, <1>2, <1>3 DEF Paid, Waiting, Submitted
  <2>2. handler'[f].id = state.id /\ handler'[f].tx = state.tx /\ signed' = signed
    BY <1>2, <1>3, <1>4
  <2>3. QED
    BY <1>3, <1>4, <2>1, <2>2, GoesOn
<1>6. troubled' \subseteq Challenge /\ bought' \subseteq receipts
  BY <1>4 DEF CInv, Typed, AnswersOnOwnReceipt
<1>7. /\ flow[f].id \in Held(f) /\ ~ Redeemed(flow[f].id)
      /\ [challenge |-> flow[f].id, tx |-> flow[f].tx] \in signed
  BY <1>1, ClientFacts DEF Held, CInv, OwnQuotes
<1>8. QED
  <2>1. /\ state.pc \notin {"ready", "asked", "account", "sign", "settling", "confirmed"}
        /\ state.pc \in Paid /\ flow[f].pc # "verifying"
        /\ state.id \in Held(f) /\ h.id \in Held(f) /\ ~ Redeemed(h.id)
        /\ [challenge |-> h.id, tx |-> h.tx] \in signed
    BY <1>1, <1>2, <1>3, <1>7 DEF Paid
  <2>2. troubled \subseteq troubled' /\ Become(f, state)
    BY <1>1, <1>4
  <2>3. QED
    BY <1>1, <1>2, <1>3, <1>5, <1>6, <2>1, <2>2, GatewayMoves, ZenonT(60)

\* A receipt that a client shows is its own.
LEMMA ServePreserves ==
  ASSUME CInv, NEW f \in Req, Serve(f),
         flow[f].pc \in {"ready", "asked", "receipted", "retrying"}
  PROVE  bought' \subseteq receipts
<1>1. flow[f].pc \in Paid =>
         [challenge |-> flow[f].id, tx |-> flow[f].tx] \in receipts
  BY ClientFacts DEF FlowHolds, Paid
<1>2. bought \subseteq receipts
  BY DEF CInv, AnswersOnOwnReceipt
<1>3. QED
  BY <1>1, <1>2 DEF Serve

\* What a client holds a receipt for is recorded.
LEMMA ReceiptedIsRecorded ==
  ASSUME CInv, NEW f \in Req, flow[f].pc \in {"receipted", "retrying"}
  PROVE  Recorded(flow[f].tx)
<1> DEFINE pair == [challenge |-> flow[f].id, tx |-> flow[f].tx]
<1>1. pair \in receipts /\ pair.tx = flow[f].tx
  BY ClientFacts DEF FlowHolds
<1>2. QED
  BY <1>1 DEF Recorded

LEMMA RetryPreserves ==
  ASSUME CInv, IInv', Kept, NEW f \in Req, NEW p \in Proc, Retry(f, p)
  PROVE  CInv'
<1> DEFINE t == flow[f].tx
<1>1. /\ flow[f].pc = "receipted" /\ Quoted(f) /\ Sent(f) /\ t \in Tx
      /\ Request(f, p, flow[f].call, t)
      /\ UNCHANGED <<wallets, troubled>> /\ signed' = signed
      /\ handler[f].pc = "idle" /\ Recorded(t)
  BY ClientFacts, ReceiptedIsRecorded DEF Retry, Quoted, Sent, Paid, Waiting, wallets
<1>2. troubled' \subseteq Challenge
  BY <1>1 DEF CInv, Typed
<1>3. UNCHANGED <<now, ledger, receipts, usedTx, quoted>>
  BY <1>1 DEF Request, world, database, memory
<1>4. CASE Remembered(p, t)
  <2>1. /\ Become(f, Ready) /\ Serve(f) /\ handler' = handler
    BY <1>1, <1>4 DEF Retry, Request
  <2>2. bought' \subseteq receipts
    BY <1>1, <2>1, ServePreserves
  <2>3. /\ Ready \in State /\ Ready.pc = "ready"
        /\ handler' = [handler EXCEPT ![f] = handler[f]]
    BY <2>1, States DEF CInv, Ready, IInv, TypeOK
  <2>4. flow'[f] = Ready
    BY <2>1, <2>3, BecomesState DEF CInv
  <2>5. FlowHolds(f)'
    BY <1>1, <2>1, <2>3, <2>4 DEF FlowHolds, Quoted, Sent, Waiting, Paid, Submitted
  <2>6. QED
    BY <1>1, <1>2, <1>3, <2>1, <2>2, <2>3, <2>5, GatewayMoves DEF Submitted
<1>5. CASE ~ Remembered(p, t)
  <2> DEFINE state == Then(f, "retrying")
             h == [Idle EXCEPT !.pc = "has", !.at = p, !.call = flow[f].call, !.tx = t]
  <2>1. /\ Become(f, state) /\ bought' = bought
        /\ h.pc = "has" /\ h.tx = t
        /\ handler' = [handler EXCEPT ![f] = h] /\ handler'[f] = h
    <3>1. h.pc = "has" /\ h.tx = t
      BY DEF Idle
    <3>2. handler' = [handler EXCEPT ![f] = h]
      BY <1>1, <1>5 DEF Request, Begin
    <3> HIDE DEF h
    <3>3. QED
      BY <1>5, <3>1, <3>2 DEF Retry, CInv, IInv, TypeOK
  <2> HIDE DEF h
  <2>2. /\ state \in State /\ state.pc = "retrying" /\ state.tx = t
        /\ state.id = flow[f].id /\ state.terms = flow[f].terms
        /\ state.call = flow[f].call /\ state.payer = flow[f].payer
    BY States DEF CInv, ClientPc, Waiting
  <2> HIDE DEF state
  <2>3. flow'[f] = state
    BY <2>1, <2>2, BecomesState DEF CInv
  <2>4. FlowHolds(f)'
    <3>1. /\ flow[f].pc \in Paid /\ state.pc \in Paid /\ state.pc \in Waiting
          /\ [challenge |-> flow[f].id, tx |-> t] \in receipts
      BY <1>1, <2>2, ClientFacts DEF FlowHolds, Paid, Waiting
    <3>2. [challenge |-> state.id, tx |-> state.tx] \in receipts'
      BY <1>3, <2>2, <3>1
    <3>3. QED
      BY <1>1, <2>1, <2>2, <2>3, <3>1, <3>2, GoesOn
  <2>5. bought' \subseteq receipts /\ flow[f].id \in Held(f)
    BY <1>1, <2>1, ClientFacts DEF CInv, AnswersOnOwnReceipt, Held
  <2>6. QED
    BY <1>1, <1>2, <1>3, <2>1, <2>2, <2>4, <2>5, GatewayMoves DEF Submitted, Paid
<1>6. QED
  BY <1>4, <1>5

LEMMA HearGrantedPreserves ==
  ASSUME CInv, IInv', Kept, NEW f \in Req, HearGranted(f)
  PROVE  CInv'
<1>1. /\ handler[f].pc = "has" /\ End(f) /\ Serve(f) /\ Hear(f, Ready)
      /\ UNCHANGED <<now, ledger, receipts, usedTx, wallets, troubled>>
  BY DEF HearGranted, FindReceipt, database, memory
<1>2. flow[f].pc \in {"retrying", "ready"}
  BY <1>1, ClientFacts DEF FlowHolds, Waiting, Submitted
<1>3. Become(f, Ready) \/ (flow[f].pc = "ready" /\ Become(f, flow[f]))
  BY <1>1, <1>2 DEF Hear, Waiting
<1>4. bought' \subseteq receipts
  BY <1>1, <1>2, ServePreserves
<1>5. flow[f].pc \in Paid => Recorded(flow[f].tx)
  BY <1>2, ReceiptedIsRecorded DEF Paid
<1>6. troubled' \subseteq Challenge
  BY <1>1 DEF CInv, Typed
<1>7. QED
  BY <1>1, <1>2, <1>3, <1>4, <1>5, <1>6, RequestEnds DEF Waiting

LEMMA HearFailurePreserves ==
  ASSUME CInv, IInv', Kept, NEW f \in Req, HearFailure(f)
  PROVE  CInv'
<1>1. /\ handler[f].pc # "idle" /\ End(f) /\ Hear(f, Ready)
      /\ UNCHANGED <<now, ledger, receipts, usedTx, wallets, bought>>
      /\ signed' = signed
      /\ troubled' = troubled \union CutOff({f})
  BY DEF HearFailure, Throws, Unacked, database, memory, world, wallets
<1>2. flow[f].pc \in Waiting \union {"ready"}
  BY <1>1, ClientFacts DEF FlowHolds
<1>3. Become(f, Ready) \/ (flow[f].pc = "ready" /\ Become(f, flow[f]))
  BY <1>1, <1>2 DEF Hear
<1>4. bought' \subseteq receipts
  BY <1>1 DEF CInv, AnswersOnOwnReceipt
<1>5. /\ flow[f].pc \in Paid => Quoted(f) /\ Sent(f) /\ flow[f].id \in CutOff({f})
      /\ \A c \in CutOff({f}) : c = flow[f].id /\ flow[f].pc \in Paid
  BY DEF CutOff, Quoted, Sent, Paid
<1>6. troubled' \subseteq Challenge /\ troubled \subseteq troubled'
  BY <1>1, <1>5, ClientFacts DEF CInv, Typed
<1>7. ASSUME NEW t \in Tx, flow[f].pc \in Paid, flow[f].tx = t PROVE Cause(t)'
  BY <1>1, <1>5, <1>7, ClientFacts, TroubledIsCause
<1>8. QED
  BY <1>1, <1>2, <1>3, <1>4, <1>6, <1>7, RequestEnds

LEMMA HearReceiptPreserves ==
  ASSUME CInv, IInv', Kept, NEW f \in Req, HearReceipt(f)
  PROVE  CInv'
<1> DEFINE pair == [challenge |-> handler[f].id, tx |-> handler[f].tx]
<1>1. /\ handler[f].pc = "record" /\ End(f) /\ Hear(f, Then(f, "receipted"))
      /\ UNCHANGED <<now, ledger, receipts, usedTx, wallets, bought, troubled>>
      /\ signed' = signed
  BY DEF HearReceipt, Record, database, world, wallets, outcomes
<1>2. flow[f].pc \in {"verifying", "ready"}
  BY <1>1, ClientFacts DEF FlowHolds, Waiting
<1>3. pair \in receipts
  <2>1. PICK receipt \in receipts : receipt.challenge = handler[f].id
                                    /\ receipt.tx = handler[f].tx
    BY <1>1 DEF CInv, IInv, HandlersConsistent, HandlerHolds
  <2>2. receipt \in [challenge : Challenge, tx : Tx]
    BY DEF CInv, IInv, TypeOK
  <2>3. QED
    BY <2>1, <2>2
<1>4. bought' \subseteq receipts /\ troubled' \subseteq Challenge
  BY <1>1 DEF CInv, AnswersOnOwnReceipt, Typed
<1>5. CASE flow[f].pc = "ready"
  <2>1. Become(f, flow[f])
    BY <1>1, <1>5 DEF Hear, Waiting
  <2>2. QED
    BY <1>1, <1>4, <1>5, <2>1, RequestEnds DEF Paid
<1>6. CASE flow[f].pc = "verifying"
  <2> DEFINE state == Then(f, "receipted")
  <2>1. Become(f, state)
    BY <1>1, <1>6 DEF Hear, Waiting
  <2>2. /\ state \in State /\ state.pc = "receipted" /\ state.tx = flow[f].tx
        /\ state.id = flow[f].id /\ state.terms = flow[f].terms
        /\ state.call = flow[f].call /\ state.payer = flow[f].payer
    BY States DEF CInv, ClientPc, Paid
  <2> HIDE DEF state
  <2>3. /\ flow'[f] = state /\ handler'[f] = Idle /\ Idle.pc = "idle"
        /\ handler' = [handler EXCEPT ![f] = Idle]
    BY <1>1, <2>1, <2>2, BecomesState DEF CInv, IInv, TypeOK, End, Idle
  <2>4. handler[f].id = flow[f].id /\ handler[f].tx = flow[f].tx
    BY <1>6, ClientFacts DEF FlowHolds
  <2>5. FlowHolds(f)'
    BY <1>1, <1>3, <1>6, <2>2, <2>3, <2>4, GoesOn DEF Paid
  <2>6. Quoted(f) /\ flow[f].id \in Held(f)
    BY <1>6, ClientFacts DEF Held, Quoted
  <2>7. Recorded(flow[f].tx)
    <3>1. pair \in receipts /\ pair.tx = flow[f].tx
      BY <1>3, <2>4
    <3>2. QED
      BY <3>1 DEF Recorded
  <2>8. QED
    <3>1. /\ state.pc \in Paid
          /\ state.pc \notin {"account", "sign", "settling", "confirmed"}
          /\ Idle.pc \notin Submitted \union {"reply"}
          /\ state.id \in Held(f)
      BY <2>2, <2>3, <2>6 DEF Paid, Submitted
    <3>2. troubled \subseteq troubled' /\ Idle.pc \notin {"reply", "lookup", "consume", "commit"}
      BY <1>1, <2>3
    <3>3. \A t : flow[f].tx = t => Recorded(t)
      BY <2>7
    <3> HIDE DEF pair
    <3>4. QED
      BY <1>1, <1>4, <2>1, <2>2, <2>3, <2>5, <3>1, <3>2, <3>3, GatewayMoves, ZenonT(60)
<1>7. QED
  BY <1>2, <1>5, <1>6

\* Why the gateway refuses a payment it has taken up.
LEMMA TurnedDownBecause ==
  ASSUME CInv, NEW f \in Req, HearRefusal(f), flow[f].pc \in Paid
  PROVE  \/ now >= quoted[flow[f].id].expiresAt
         \/ Recorded(flow[f].tx) /\ ~ Redeemed(flow[f].id)
<1> DEFINE c == flow[f].id
           t == flow[f].tx
<1>1. Quoted(f) /\ Sent(f)
  BY DEF Quoted, Sent, Paid
<1>2. /\ c \in Challenge /\ t \in Tx /\ quoted[c] # None
      /\ Settled(t) /\ [challenge |-> c, tx |-> t] \in signed
      /\ Payable(quoted[c].req)
  BY <1>1, ClientFacts DEF FlowHolds
<1>3. handler'[f] = Idle /\ Idle.pc = "idle"
  BY DEF HearRefusal, Idle
<1>4. /\ handler[f].pc \in {"price", "plan"} \union Submitted
      /\ flow[f].pc = "verifying"
      /\ handler[f].pc \in Submitted
      /\ handler[f].id = c /\ handler[f].tx = t
  <2>1. handler[f].pc \in {"price", "plan"} \union Submitted
    BY DEF HearRefusal, Refuse, CheckPlan, Verify, Consume, Commit, Submitted
  <2>2. QED
    BY <2>1, ClientFacts DEF FlowHolds, Waiting, Submitted, Paid
<1>5. /\ handler[f].at \in Proc
      /\ handler[f].req = quoted[c].req
      /\ quoted[c].req.network = settings[handler[f].at].network
  BY <1>4 DEF CInv, IInv, HandlersConsistent, HandlerHolds, Submitted
<1>6. handler \in [Req -> Handler]
  BY DEF CInv, IInv, TypeOK
<1> HIDE DEF c, t
<1>7. ~ Verify(f)
  <2>1. SUFFICES ASSUME Verify(f) PROVE FALSE
    OBVIOUS
  <2>2. ledger[t] = PaymentOf(t, TRUE)
    BY <1>2 DEF CInv, SignedConsistent, Settled, PaymentOf
  <2>3. /\ Content[t].to = quoted[c].req.recipient
        /\ ToStroops(Content[t].amount) = quoted[c].req.amount
    BY <1>2 DEF CInv, SignedConsistent
  <2>4. /\ ledger[t].network = BuildNetwork /\ ledger[t].successful
        /\ ledger[t].asset = Native
        /\ ledger[t].recipient = quoted[c].req.recipient
        /\ ledger[t].amount = quoted[c].req.amount
    BY <2>2, <2>3 DEF PaymentOf
  <2>5. Visible(handler[f].at, t) /\ Pays(ledger[t], handler[f].req)
    BY <1>2, <1>5, <2>4 DEF Visible, Pays, Settled, Payable
  <2>6. handler' = [handler EXCEPT ![f].pc = "consume"]
    BY <1>4, <2>1, <2>5 DEF Verify, Goto
  <2>7. handler'[f].pc = "consume"
    BY <1>6, <2>6 DEF Handler
  <2>8. QED
    BY <1>3, <2>7
<1>8. CASE Consume(f)
  <2>1. ~ Live(handler[f].at, c)
    <3>1. SUFFICES ASSUME Live(handler[f].at, c) PROVE FALSE
      OBVIOUS
    <3>2. handler' = [handler EXCEPT ![f].pc = "commit"]
      BY <1>4, <1>8, <3>1 DEF Consume, Goto
    <3>3. handler'[f].pc = "commit"
      BY <1>6, <3>2 DEF Handler
    <3>4. QED
      BY <1>3, <3>3
  <2>2. ~ Redeemed(c)
    BY <1>4, <1>8 DEF Consume, CInv, OwnQuotes
  <2>3. QED
    BY <1>2, <1>5, <2>1, <2>2, DeadIsExpired DEF c
<1>9. CASE Commit(f)
  <2>1. ~ Redeemed(c)
    BY <1>4, <1>9 DEF Commit, CInv, OwnQuotes
  <2>2. rows[c] # None /\ rows[c].consumedAt = None
    BY <1>2, <2>1 DEF CInv, IInv, CopiesAgree, ConfirmedIffReceipt
  <2>3. ~ Unspent(c, t)
    <3>1. SUFFICES ASSUME Unspent(c, t) PROVE FALSE
      OBVIOUS
    <3>2. handler' = [handler EXCEPT ![f].pc = "record"]
      BY <1>4, <1>9, <3>1 DEF Commit, Goto
    <3>3. handler'[f].pc = "record"
      BY <1>6, <3>2 DEF Handler
    <3>4. QED
      BY <1>3, <3>3
  <2>4. QED
    BY <2>1, <2>2, <2>3 DEF Unspent, c, t
<1>10. QED
  BY <1>4, <1>7, <1>8, <1>9 DEF HearRefusal, Refuse, CheckPlan, Submitted

LEMMA HearRefusalPreserves ==
  ASSUME CInv, IInv', Kept, NEW f \in Req, HearRefusal(f)
  PROVE  CInv'
<1>1. handler[f].pc \notin {"idle", "record"} /\ Hear(f, Ready)
      /\ handler'[f] = Idle /\ Idle.pc = "idle"
      /\ UNCHANGED <<now, wallets, bought, troubled>> /\ signed' = signed
      /\ ledger' = ledger
  BY DEF HearRefusal, Refuse, CheckPlan, Verify, Consume, Commit, database,
         world, memory, wallets, outcomes, Idle
<1>2. flow[f].pc \in Waiting \union {"ready"}
  BY <1>1, ClientFacts DEF FlowHolds
<1>3. handler \in [Req -> Handler]
  BY DEF CInv, IInv, TypeOK
<1>4. ASSUME NEW pc \in Pc \ {"idle"} PROVE ~ Goto(f, pc)
  <2>1. Goto(f, pc) => handler'[f].pc = pc
    BY <1>3 DEF Goto, Handler
  <2>2. QED
    BY <1>1, <2>1
<1>5. End(f) /\ UNCHANGED <<receipts, usedTx>>
  BY <1>4 DEF HearRefusal, Refuse, CheckPlan, Verify, Consume, Commit,
              database, memory, Pc
<1>6. Become(f, Ready) \/ (flow[f].pc = "ready" /\ Become(f, flow[f]))
  BY <1>1, <1>2 DEF Hear
<1>7. bought' \subseteq receipts /\ troubled' \subseteq Challenge
  BY <1>1 DEF CInv, AnswersOnOwnReceipt, Typed
<1>8. ASSUME NEW t \in Tx, flow[f].pc \in Paid, flow[f].tx = t
      PROVE  Recorded(t) \/ Cause(t)'
  <2>1. Sent(f)
    BY <1>8 DEF Sent
  <2>2. Cause(t) => Cause(t)'
    BY <1>1, CauseStays DEF CInv, IInv, TypeOK
  <2>3. now >= quoted[flow[f].id].expiresAt => Cause(t)
    BY <1>8, <2>1, ClientFacts, ExpiredIsCause
  <2>4. QED
    BY <1>8, <2>2, <2>3, TurnedDownBecause
<1>9. QED
  BY <1>1, <1>2, <1>5, <1>6, <1>7, <1>8, RequestEnds

\* The gateway goes on with f's request; no client moves.
LEMMA WorkMoves ==
  ASSUME CInv, IInv', Kept, NEW f \in Req,
         UNCHANGED <<now, ledger, flow, wallets, outcomes>>,
         \A g \in Req : g # f => handler'[g] = handler[g],
         flow[f].pc \in {"ready", "asked", "verifying"},
         flow[f].pc = "asked" => handler'[f].pc \in {"price", "plan", "create", "reply"},
         flow[f].pc = "verifying" => /\ handler'[f].pc \in Submitted
                                     /\ handler'[f].id = flow[f].id
                                     /\ handler'[f].tx = flow[f].tx,
         handler'[f].pc \in Submitted =>
            /\ [challenge |-> handler'[f].id, tx |-> handler'[f].tx] \in signed
            /\ handler'[f].id = handler[f].id
            /\ handler[f].pc \in Submitted,
         receipts' \subseteq signed,
         \A c \in Challenge : Redeemed(c)' => Redeemed(c) \/ c \in Held(f),
         \A g \in Req : g # f => Apart(f, g),
         handler'[f].pc \in {"reply", "lookup", "consume", "commit"}
            => ~ Redeemed(handler[f].id)',
         \A p \in Proc : \A t \in usedTx'[p] :
            \/ t \in usedTx[p] \/ Cause(t)'
            \/ flow[f].pc = "verifying" /\ flow[f].tx = t
  PROVE  CInv'
<1>1. /\ flow' = flow /\ signed' = signed /\ sequence' = sequence
      /\ bought' = bought /\ troubled' = troubled
  BY DEF wallets, outcomes
<1>2. Typed'
  BY <1>1 DEF CInv, Typed
<1>3. FlowHolds(f)'
  <2>1. CASE flow[f].pc = "ready"
    BY <1>1, <2>1, ClientFacts DEF FlowHolds, Quoted, Sent, Waiting, Paid, Submitted
  <2>2. CASE flow[f].pc = "asked"
    BY <1>1, <2>2, ClientFacts DEF FlowHolds, Quoted, Sent, Waiting, Paid
  <2>3. CASE flow[f].pc = "verifying"
    BY <1>1, <2>3, GoesOn DEF Waiting, Paid
  <2>4. QED
    BY <2>1, <2>2, <2>3
<1>4. bought' \subseteq receipts'
  BY <1>1 DEF CInv, AnswersOnOwnReceipt, Kept
<1>5. Sent(f)' <=> Sent(f)
  BY <1>1 DEF Sent
<1>6. flow'[f].pc \notin {"account", "sign", "settling", "confirmed"}
  BY <1>1
<1>7. QED
  BY <1>1, <1>2, <1>3, <1>4, <1>5, <1>6, FlowMoves

\* A quote that has no row yet is in nobody's hands and is not redeemed.
LEMMA UnstoredIsFree ==
  ASSUME CInv, NEW c \in Challenge, rows[c] = None
  PROVE  ~ Redeemed(c) /\ \A g \in Req : c \notin Held(g)
<1>1. quoted[c] = None
  BY DEF CInv, IInv, CopiesAgree
<1>2. ~ Redeemed(c)
  BY <1>1 DEF Redeemed, CInv, IInv, ReceiptPaysQuote
<1>3. ASSUME NEW g \in Req PROVE c \notin Held(g)
  <2>1. Quoted(g) => flow[g].id # c
    <3>1. FlowHolds(g)
      BY ClientFacts
    <3>2. QED
      BY <1>1, <3>1 DEF FlowHolds
  <2>2. handler[g].pc \in Submitted \union {"reply"} => handler[g].id # c
    BY <1>1 DEF CInv, IInv, HandlersConsistent, HandlerHolds, Submitted
  <2>3. QED
    BY <2>1, <2>2 DEF Held
<1>4. QED
  BY <1>2, <1>3

\* The part of a request before its quote is answered.
LEMMA PricingPreserves ==
  ASSUME CInv, IInv', Kept, NEW f \in Req,
         UNCHANGED <<now, ledger, receipts, usedTx, flow, wallets, outcomes>>,
         \A g \in Req : g # f => handler'[g] = handler[g],
         flow[f].pc \in {"ready", "asked"},
         handler'[f].pc \in {"price", "plan", "create", "reply"},
         handler'[f].pc = "reply" => /\ handler'[f].id = handler[f].id
                                     /\ handler[f].id \in Challenge
                                     /\ rows[handler[f].id] = None
  PROVE  CInv'
<1>1. handler'[f].pc \notin Submitted
  BY DEF Submitted
<1>2. receipts' \subseteq signed
  BY DEF CInv, SignedConsistent
<1>3. \A c : Redeemed(c)' <=> Redeemed(c)
  BY DEF Redeemed
<1>4. ASSUME NEW g \in Req, g # f PROVE Apart(f, g)
  <2>1. \A c \in Held(f)' : handler'[f].pc = "reply" /\ c = handler[f].id
    BY <1>1 DEF Held, Quoted
  <2>2. QED
    BY <2>1, UnstoredIsFree DEF Apart
<1>5. handler'[f].pc = "reply" => ~ Redeemed(handler[f].id)'
  <2>1. SUFFICES ASSUME handler'[f].pc = "reply" PROVE ~ Redeemed(handler[f].id)'
    OBVIOUS
  <2>2. ~ Redeemed(handler[f].id)
    BY <2>1, UnstoredIsFree
  <2>3. handler[f].id = handler'[f].id
    BY <2>1
  <2>4. QED
    BY <2>2, <2>3 DEF Redeemed
<1>6. QED
  BY <1>1, <1>2, <1>3, <1>4, <1>5, WorkMoves

\* The part of a request that verifies a payment, as long as it goes on.
LEMMA VerifyingPreserves ==
  ASSUME CInv, IInv', Kept, NEW f \in Req, NEW pc \in {"consume", "commit", "record"},
         UNCHANGED <<now, ledger, flow, wallets, outcomes>>,
         handler[f].pc \in {"lookup", "consume", "commit"}, Goto(f, pc),
         pc # "record" => receipts' = receipts,
         receipts' \subseteq receipts \union
            {[challenge |-> handler[f].id, tx |-> handler[f].tx]},
         \A p \in Proc : usedTx'[p] \subseteq usedTx[p] \union {handler[f].tx}
  PROVE  CInv'
<1> DEFINE c == handler[f].id
           t == handler[f].tx
           pair == [challenge |-> c, tx |-> t]
<1>1. /\ c \in Challenge /\ t \in Tx /\ handler[f].pc \in Submitted
      /\ pair \in signed /\ pair.tx = t /\ pair.challenge = c
      /\ ~ Redeemed(c) /\ c \in Held(f)
  <2>1. c \in Challenge /\ t \in Tx /\ handler[f].pc \in Submitted /\ ~ Redeemed(c)
    BY DEF CInv, IInv, HandlersConsistent, HandlerHolds, Submitted, OwnQuotes
  <2>2. pair \in signed
    BY <2>1 DEF CInv, SignedConsistent
  <2>3. QED
    BY <2>1, <2>2 DEF Held
<1>2. /\ handler'[f].pc = pc /\ handler'[f].id = c /\ handler'[f].tx = t
      /\ \A g \in Req : g # f => handler'[g] = handler[g]
      /\ pc \in Submitted
  BY DEF Goto, CInv, IInv, TypeOK, Handler, Submitted
<1>3. /\ flow[f].pc \in {"verifying", "ready"}
      /\ flow[f].pc = "verifying" => flow[f].id = c /\ flow[f].tx = t
      /\ flow[f].pc = "ready" => c \in troubled
  BY <1>1, ClientFacts DEF FlowHolds, Waiting
<1>4. UNCHANGED <<signed, troubled>>
  BY DEF wallets, outcomes
<1>5. receipts' \subseteq signed
  BY <1>1 DEF CInv, SignedConsistent
<1> HIDE DEF c, t
<1>6. \A d \in Challenge : Redeemed(d)' => Redeemed(d) \/ d \in Held(f)
  BY <1>1 DEF Redeemed, c, t
<1>7. ASSUME NEW g \in Req, g # f PROVE Apart(f, g)
  <2>1. Held(f)' \subseteq Held(f)
    BY <1>1, <1>2 DEF Held, Quoted
  <2>2. QED
    BY <2>1, <1>7 DEF Apart, CInv, OwnQuotes
<1>8. handler'[f].pc \in {"reply", "lookup", "consume", "commit"}
         => ~ Redeemed(handler[f].id)'
  BY <1>1, <1>2 DEF Redeemed
<1>9. ASSUME c \in troubled, NEW u, u = t PROVE Cause(u)'
  <2>1. pair \in signed /\ pair.tx = u /\ pair.challenge \in troubled
    BY <1>1, <1>9
  <2>2. QED
    BY <1>4, <2>1 DEF Cause
<1>10. \A p \in Proc : \A u \in usedTx'[p] :
         \/ u \in usedTx[p] \/ Cause(u)'
         \/ flow[f].pc = "verifying" /\ flow[f].tx = u
  <2>1. \A u : u = t => Cause(u)' \/ (flow[f].pc = "verifying" /\ flow[f].tx = u)
    BY <1>3, <1>9
  <2>2. \A p \in Proc : \A u \in usedTx'[p] : u \in usedTx[p] \/ u = t
    BY DEF t
  <2>3. QED
    BY <2>1, <2>2
<1>11. QED
  BY <1>1, <1>2, <1>3, <1>5, <1>6, <1>7, <1>8, <1>10, WorkMoves DEF c, t

LEMMA WorkPreserves ==
  ASSUME CInv, IInv', Kept, NEW f \in Req, Work(f)
  PROVE  CInv'
<1>1. /\ handler'[f] # Idle
      /\ UNCHANGED <<flow, wallets, outcomes>>
      /\ handler \in [Req -> Handler]
  BY DEF Work, CInv, IInv, TypeOK
<1>2. ~ End(f)
  BY <1>1 DEF End
<1>3. ASSUME handler[f].pc \in {"price", "plan", "create"}
      PROVE  flow[f].pc \in {"ready", "asked"}
  BY <1>3, ClientFacts DEF FlowHolds, Waiting, Submitted
<1>4. CASE FindReceipt(f)
  <2>1. /\ handler[f].pc = "has" /\ ~ Recorded(handler[f].tx)
        /\ handler' = [handler EXCEPT ![f].pc = "price", ![f].tx = None]
        /\ UNCHANGED <<now, ledger, receipts, usedTx>>
    BY <1>2, <1>4 DEF FindReceipt, database, memory
  <2>2. flow[f].pc \in {"retrying", "ready"}
        /\ (flow[f].pc = "retrying" => handler[f].tx = flow[f].tx)
    BY <2>1, ClientFacts DEF FlowHolds, Waiting, Submitted
  <2>3. flow[f].pc = "ready"
    BY <2>1, <2>2, ReceiptedIsRecorded
  <2>4. handler'[f].pc = "price" /\ \A g \in Req : g # f => handler'[g] = handler[g]
    BY <1>1, <2>1 DEF Handler
  <2>5. QED
    BY <1>1, <2>1, <2>3, <2>4, PricingPreserves
<1>5. CASE Issue(f)
  <2>1. PICK c, req :
           /\ handler[f].pc = "price"
           /\ handler' = [handler EXCEPT ![f] =
                [Idle EXCEPT !.pc = "plan", !.at = handler[f].at, !.id = c, !.req = req]]
           /\ UNCHANGED <<now, ledger, receipts, usedTx>>
    BY <1>5 DEF Issue, database, world
  <2>2. handler'[f].pc = "plan" /\ \A g \in Req : g # f => handler'[g] = handler[g]
    BY <1>1, <2>1 DEF Idle
  <2>3. QED
    BY <1>1, <1>3, <2>1, <2>2, PricingPreserves
<1>6. CASE CheckPlan(f)
  <2>1. /\ handler[f].pc = "plan" /\ Goto(f, "create")
        /\ UNCHANGED <<now, ledger, receipts, usedTx>>
    BY <1>2, <1>6 DEF CheckPlan, database, world, memory
  <2>2. handler'[f].pc = "create" /\ \A g \in Req : g # f => handler'[g] = handler[g]
    BY <1>1, <2>1 DEF Goto, Handler
  <2>3. QED
    BY <1>1, <1>3, <2>1, <2>2, PricingPreserves
<1>7. CASE CreateRow(f)
  <2>1. /\ handler[f].pc = "create" /\ Goto(f, "reply")
        /\ UNCHANGED <<now, ledger, receipts, usedTx>>
    BY <1>7 DEF CreateRow, world, memory
  <2>2. /\ handler'[f].pc = "reply" /\ handler'[f].id = handler[f].id
        /\ \A g \in Req : g # f => handler'[g] = handler[g]
    BY <1>1, <2>1 DEF Goto, Handler
  <2>3. handler[f].id \in Challenge /\ rows[handler[f].id] = None
    BY <2>1 DEF CInv, IInv, HandlersConsistent, HandlerHolds
  <2>4. QED
    BY <1>1, <1>3, <2>1, <2>2, <2>3, PricingPreserves
<1>8. CASE Verify(f)
  <2>1. /\ handler[f].pc = "lookup" /\ Goto(f, "consume")
        /\ usedTx' = [usedTx EXCEPT ![handler[f].at] = @ \union {handler[f].tx}]
        /\ UNCHANGED <<now, ledger, receipts>>
    BY <1>2, <1>8 DEF Verify, database, world
  <2>2. \A p \in Proc : usedTx'[p] \subseteq usedTx[p] \union {handler[f].tx}
    BY <2>1 DEF CInv, IInv, TypeOK
  <2>3. QED
    BY <1>1, <2>1, <2>2, VerifyingPreserves
<1>9. CASE Consume(f)
  <2>1. /\ handler[f].pc = "consume" /\ Goto(f, "commit")
        /\ UNCHANGED <<now, ledger, receipts, usedTx>>
    BY <1>2, <1>9 DEF Consume, database, world, memory
  <2>2. QED
    BY <1>1, <2>1, VerifyingPreserves
<1>10. CASE Commit(f)
  <2>1. /\ handler[f].pc = "commit" /\ Goto(f, "record")
        /\ receipts' = receipts \union {[challenge |-> handler[f].id, tx |-> handler[f].tx]}
        /\ UNCHANGED <<now, ledger, usedTx>>
    BY <1>2, <1>10 DEF Commit, world, memory
  <2>2. QED
    BY <1>1, <2>1, VerifyingPreserves
<1>11. QED
  BY <1>2, <1>4, <1>5, <1>6, <1>7, <1>8, <1>9, <1>10
     DEF Work, Answer, Refuse, Reply402, Record

(***************************************************************************)
(* The ledger, the clock, the operators and the deploys.                   *)
(***************************************************************************)

\* Every client and every request stands still.
LEMMA WorldMoves ==
  ASSUME CInv, IInv', Kept,
         UNCHANGED <<flow, handler, receipts, usedTx, signed, outcomes>>,
         sequence' \in [Account -> Nat],
         \A t \in Tx : ledger'[t] # None => ledger'[t] = PaymentOf(t, ledger'[t].successful)
  PROVE  CInv'
<1>1. bought' = bought /\ troubled' = troubled
  BY DEF outcomes
<1>2. Typed'
  BY <1>1 DEF CInv, Typed
<1>3. FlowsConsistent'
  BY <1>1, FlowKeeps DEF CInv, FlowsConsistent
<1>4. SignedConsistent'
  <2>1. ASSUME NEW pair \in signed'
        PROVE  /\ quoted'[pair.challenge] # None
               /\ quoted'[pair.challenge].req = quoted[pair.challenge].req
    BY <2>1 DEF CInv, Typed, Pair, SignedConsistent, Kept
  <2>2. QED
    BY <2>1 DEF CInv, SignedConsistent, Payable, PaymentOf
<1>5. OwnQuotes'
  <2>1. \A g \in Req : Held(g)' = Held(g)
    BY DEF Held, Quoted
  <2>2. \A c : Redeemed(c)' <=> Redeemed(c)
    BY DEF Redeemed
  <2>3. QED
    BY <2>1, <2>2 DEF CInv, OwnQuotes, Redeemed
<1>6. Accounted'
  <2>1. \A t : Cause(t) => Cause(t)'
    BY <1>1, CauseStays DEF CInv, IInv, TypeOK
  <2>2. \A t : Recorded(t) => Recorded(t)'
    BY RecordedStays
  <2>3. \A pair \in signed : pair.tx \in Tx
    BY DEF CInv, Typed, Pair
  <2>4. QED
    BY <2>1, <2>2, <2>3 DEF CInv, Accounted, Sent
<1>7. QED
  BY <1>1, <1>2, <1>3, <1>4, <1>5, <1>6 DEF CInv, AnswersOnOwnReceipt

LEMMA ApplyPreserves ==
  ASSUME CInv, IInv', Kept, NEW t \in Tx, Apply(t)
  PROVE  CInv'
<1> DEFINE payer == Content[t].payer
<1>1. /\ sequence' = [sequence EXCEPT ![payer] = sequence[payer] + 1]
      /\ UNCHANGED <<now, handler, receipts, usedTx, flow, signed, outcomes>>
  BY DEF Apply, Settle, database, memory
<1>2. PICK ok \in BOOLEAN : ledger'[t] = PaymentOf(t, ok)
  BY DEF Apply
<1>3. \A u \in Tx : u # t => ledger'[u] = ledger[u]
  BY DEF Apply, Settle, CInv, IInv, TypeOK
<1>4. sequence \in [Account -> Nat] /\ payer \in Account
  BY DEF CInv, Typed, Body
<1> HIDE DEF payer
<1>5. sequence' \in [Account -> Nat]
  BY <1>1, <1>4
<1>6. \A u \in Tx : ledger'[u] # None => ledger'[u] = PaymentOf(u, ledger'[u].successful)
  <2>1. ledger'[t].successful = ok
    BY <1>2 DEF PaymentOf
  <2>2. ledger'[t] = PaymentOf(t, ledger'[t].successful)
    BY <1>2, <2>1
  <2>3. QED
    BY <1>3, <2>2 DEF CInv, SignedConsistent
<1>7. QED
  BY <1>1, <1>5, <1>6, WorldMoves

LEMMA ElsewherePreserves ==
  ASSUME CInv, IInv', Kept, Elsewhere
  PROVE  CInv'
<1>1. UNCHANGED <<ledger, flow, handler, receipts, usedTx, signed, sequence, outcomes>>
  BY DEF Elsewhere, Tick, Publish, database, memory, world, wallets
<1>2. /\ sequence' \in [Account -> Nat]
      /\ \A t \in Tx : ledger'[t] # None => ledger'[t] = PaymentOf(t, ledger'[t].successful)
  BY <1>1 DEF CInv, Typed, SignedConsistent
<1>3. QED
  BY <1>1, <1>2, WorldMoves

LEMMA RedeployPreserves ==
  ASSUME CInv, IInv', Kept, NEW p \in Proc, Redeploy(p)
  PROVE  CInv'
<1> DEFINE hit == {f \in Req : handler[f].at = p}
           Broken(f) == f \in hit /\ flow[f].pc \in Waiting
<1>1. /\ flow' = [f \in Req |-> IF Broken(f) THEN Ready ELSE flow[f]]
      /\ troubled' = troubled \union CutOff(hit)
      /\ UNCHANGED <<now, ledger, receipts, signed, sequence, bought>>
      /\ handler' = [r \in Req |-> IF handler[r].at = p THEN Idle ELSE handler[r]]
      /\ usedTx' = [usedTx EXCEPT ![p] = {}]
  BY DEF Redeploy, Restart, database, world, wallets
<1>2. /\ \A f \in Req : Broken(f) => flow'[f] = Ready /\ handler'[f] = Idle
      /\ \A f \in Req : ~ Broken(f) => flow'[f] = flow[f]
      /\ \A f \in Req : f \in hit => handler'[f] = Idle
      /\ \A f \in Req : f \notin hit => handler'[f] = handler[f]
  BY <1>1
<1>3. Idle.pc = "idle" /\ Ready.pc = "ready"
  BY DEF Idle, Ready
<1>4. \A c \in CutOff(hit) : c \in Challenge
  BY ClientFacts DEF CutOff, Quoted, Paid
<1>5. troubled' \subseteq Challenge /\ troubled \subseteq troubled'
  BY <1>1, <1>4 DEF CInv, Typed
<1>6. \A f \in Req : Broken(f) /\ flow[f].pc \in Paid => flow[f].id \in troubled'
  BY <1>1 DEF CutOff
<1> HIDE DEF hit, Broken
<1>7. Typed'
  <2>1. \A f \in Req : Ready \in State /\ flow[f] \in State
    BY States DEF CInv
  <2>2. flow' \in [Req -> State]
    BY <1>1, <2>1
  <2>3. QED
    BY <1>1, <1>5, <2>2 DEF CInv, Typed
<1>8. ASSUME NEW f \in Req PROVE FlowHolds(f)'
  <2>1. FlowHolds(f)
    BY ClientFacts
  <2>2. CASE Broken(f)
    BY <1>2, <1>3, <2>2 DEF FlowHolds, Quoted, Sent, Waiting, Paid, Submitted
  <2>3. CASE f \notin hit
    BY <1>1, <1>2, <1>5, <2>1, <2>3, FlowKeeps DEF CInv, Broken
  <2>4. CASE f \in hit /\ flow[f].pc \notin Waiting
    <3>1. flow'[f] = flow[f] /\ handler'[f] = Idle
      BY <1>2, <2>4 DEF Broken
    <3>2. /\ Quoted(f) => /\ quoted'[flow[f].id] # None
                          /\ quoted'[flow[f].id].req = quoted[flow[f].id].req
      BY <2>1 DEF FlowHolds, Kept
    <3>3. QED
      BY <1>1, <1>3, <2>1, <2>4, <3>1, <3>2
         DEF FlowHolds, Quoted, Sent, Settled, Payable, Kept, Waiting, Submitted
  <2>5. QED
    BY <2>2, <2>3, <2>4 DEF Broken
<1>9. SignedConsistent'
  <2>1. ASSUME NEW pair \in signed'
        PROVE  /\ quoted'[pair.challenge] # None
               /\ quoted'[pair.challenge].req = quoted[pair.challenge].req
    BY <1>1, <2>1 DEF CInv, Typed, Pair, SignedConsistent, Kept
  <2>2. \A r \in Req : handler'[r].pc \in Submitted => handler'[r] = handler[r]
    BY <1>2, <1>3 DEF Submitted
  <2>3. QED
    BY <1>1, <2>1, <2>2 DEF CInv, SignedConsistent, Payable, PaymentOf
<1>10. OwnQuotes'
  <2>1. \A g \in Req : /\ flow'[g].pc = "ready" \/ flow'[g] = flow[g]
                       /\ handler'[g].pc = "idle" \/ handler'[g] = handler[g]
    BY <1>2, <1>3
  <2>2. \A g \in Req : Held(g)' \subseteq Held(g)
    BY <2>1 DEF Held, Quoted, Submitted
  <2>3. \A c : Redeemed(c)' <=> Redeemed(c)
    BY <1>1 DEF Redeemed
  <2>4. ASSUME NEW g \in Req
        PROVE  /\ flow'[g].pc \in {"account", "sign", "settling", "confirmed"}
                     => ~ Redeemed(flow[g].id)'
               /\ handler'[g].pc \in {"reply", "lookup", "consume", "commit"}
                     => ~ Redeemed(handler[g].id)'
    BY <1>1, <2>1 DEF CInv, OwnQuotes, Redeemed
  <2>5. QED
    BY <2>2, <2>4 DEF CInv, OwnQuotes
<1>11. Accounted'
  <2>1. \A t : Cause(t) => Cause(t)'
    BY <1>1, <1>5, CauseStays DEF CInv, IInv, TypeOK
  <2>2. \A t : Recorded(t) => Recorded(t)'
    BY RecordedStays
  <2>3. ASSUME NEW t, NEW g \in Req, Sent(g), flow[g].tx = t
        PROVE  Cause(t)' \/ flow'[g] = flow[g]
    <3>1. CASE Broken(g)
      <4>1. flow[g].pc \in Paid
        BY <2>3, <3>1 DEF Broken, Sent, Waiting
      <4>2. flow[g].id \in troubled'
        BY <1>6, <3>1, <4>1
      <4>3. [challenge |-> flow[g].id, tx |-> t] \in signed'
        BY <1>1, <2>3, ClientFacts
      <4>4. QED
        BY <4>2, <4>3, TroubledIsCause
    <3>2. QED
      BY <1>2, <3>1
  <2>4. \A q \in Proc : usedTx'[q] \subseteq usedTx[q]
    BY <1>1 DEF CInv, IInv, TypeOK
  <2>5. ASSUME NEW q \in Proc, NEW t \in usedTx'[q]
        PROVE  \/ Recorded(t)' \/ Cause(t)'
               \/ \E g \in Req : flow'[g].pc = "verifying" /\ flow'[g].tx = t
    <3>1. \/ Recorded(t) \/ Cause(t)
          \/ \E g \in Req : flow[g].pc = "verifying" /\ flow[g].tx = t
      BY <2>4, <2>5 DEF CInv, Accounted
    <3>2. QED
      BY <2>1, <2>2, <2>3, <3>1 DEF Sent, Paid
  <2>6. ASSUME NEW pair \in signed'
        PROVE  \/ Recorded(pair.tx)' \/ Cause(pair.tx)'
               \/ \E g \in Req : Sent(g)' /\ flow'[g].tx = pair.tx
    <3>1. \/ Recorded(pair.tx) \/ Cause(pair.tx)
          \/ \E g \in Req : Sent(g) /\ flow[g].tx = pair.tx
      BY <1>1, <2>6 DEF CInv, Accounted
    <3>2. QED
      BY <2>1, <2>2, <2>3, <3>1 DEF Sent
  <2>7. QED
    BY <2>5, <2>6 DEF Accounted, Sent
<1>12. QED
  BY <1>1, <1>7, <1>8, <1>9, <1>10, <1>11
     DEF CInv, FlowsConsistent, AnswersOnOwnReceipt

(***************************************************************************)
(* The invariant.                                                          *)
(***************************************************************************)

LEMMA CheckoutInitially == CheckoutInit => CInv
<1> SUFFICES ASSUME CheckoutInit PROVE CInv
  OBVIOUS
<1>1. IInv
  BY InitInvariant DEF CheckoutInit
<1>2. /\ Ready \in State /\ Ready.pc = "ready" /\ Idle.pc = "idle"
      /\ \A f \in Req : flow[f] = Ready /\ handler[f] = Idle
      /\ flow \in [Req -> State]
  BY DEF CheckoutInit, Init, Ready, State, Idle
<1>3. Typed
  BY <1>2 DEF CheckoutInit, Typed
<1>4. FlowsConsistent
  BY <1>2 DEF FlowsConsistent, FlowHolds, Quoted, Sent, Waiting, Paid, Submitted
<1>5. SignedConsistent
  BY <1>2 DEF SignedConsistent, CheckoutInit, Init, Submitted
<1>6. OwnQuotes
  <2>1. \A f \in Req : Held(f) = {}
    BY <1>2 DEF Held, Quoted, Submitted
  <2>2. QED
    BY <1>2, <2>1 DEF OwnQuotes
<1>7. Accounted
  BY DEF Accounted, CheckoutInit, Init
<1>8. AnswersOnOwnReceipt
  BY DEF AnswersOnOwnReceipt, CheckoutInit
<1>9. QED
  BY <1>1, <1>3, <1>4, <1>5, <1>6, <1>7, <1>8 DEF CInv

\* One case for each step of the composed system.
LEMMA StepPreserves ==
  ASSUME CInv, IInv', Kept, CheckoutNext
  PROVE  CInv'
<1>1. ASSUME NEW f \in Req, NEW p \in Proc, AskFromConsole(f, p) PROVE CInv'
  <2>1. PICK api \in Api : Ask(f, p, [api |-> api, hash |-> ConsoleHash])
    BY <1>1 DEF AskFromConsole
  <2>2. [api |-> api, hash |-> ConsoleHash] \in Call
    BY DEF Call
  <2>3. QED
    BY <2>1, <2>2, AskPreserves
<1>2. ASSUME NEW f \in Req, NEW p \in Proc, AskFromAgent(f, p) PROVE CInv'
  BY <1>2, AskPreserves DEF AskFromAgent
<1>3. ASSUME NEW f \in Req, Gateway(f) PROVE CInv'
  BY <1>3, WorkPreserves, Hear402Preserves, HearReceiptPreserves,
     HearGrantedPreserves, HearRefusalPreserves, HearFailurePreserves DEF Gateway
<1>4. ASSUME NEW f \in Req, Horizon(f) PROVE CInv'
  BY <1>4, ReadAccountPreserves, BacksOut, ConfirmedPreserves, UnconfirmedPreserves
     DEF Horizon, Unfunded
<1>5. ASSUME NEW f \in Req, NEW p \in Proc, Continue(f, p) PROVE CInv'
  BY <1>5, PostVerifyPreserves, PostRefusedPreserves, RetryPreserves DEF Continue
<1>6. ASSUME NEW f \in Req, Sign(f) \/ Decline(f) \/ Reload(f) PROVE CInv'
  BY <1>6, SignPreserves, BacksOut, ReloadPreserves DEF Decline
<1>7. QED
  BY <1>1, <1>2, <1>3, <1>4, <1>5, <1>6, ApplyPreserves, RedeployPreserves,
     ElsewherePreserves DEF CheckoutNext, Proceed

LEMMA NextCheckout == CInv /\ [CheckoutNext]_checkout => CInv'
<1> SUFFICES ASSUME CInv, [CheckoutNext]_checkout PROVE CInv'
  OBVIOUS
<1>1. Next \/ UNCHANGED vars
  BY JointStep DEF checkout
<1>2. IInv' /\ Kept
  BY <1>1, NextInvariant, NextKeeps DEF CInv
<1>3. CASE CheckoutNext
  BY <1>2, <1>3, StepPreserves
<1>4. CASE UNCHANGED checkout
  <2>1. UNCHANGED <<now, ledger, flow, handler, receipts, usedTx, signed, sequence, outcomes>>
    BY <1>4 DEF checkout, vars, wallets
  <2>2. /\ sequence' \in [Account -> Nat]
        /\ \A t \in Tx : ledger'[t] # None => ledger'[t] = PaymentOf(t, ledger'[t].successful)
    BY <2>1 DEF CInv, Typed, SignedConsistent
  <2>3. QED
    BY <1>2, <2>1, <2>2, WorldMoves
<1>5. QED
  BY <1>3, <1>4

(***************************************************************************)
(* The theorems.                                                           *)
(***************************************************************************)

\* The invariant holds in every reachable state of clients, ledger and gateway.
THEOREM CheckoutInvariant == CheckoutSpec => []CInv
<1>1. QED
  BY CheckoutInitially, NextCheckout, PTL DEF CheckoutSpec

\* Composed with its clients the gateway is still the gateway: whatever they
\* do, every step is one that PaymentGateway allows, so all its theorems hold.
THEOREM Composition == CheckoutSpec => Spec
<1>1. CInv /\ [CheckoutNext]_checkout => [Next]_vars
  BY JointStep DEF checkout
<1>2. CheckoutInit => Init
  BY DEF CheckoutInit
<1>3. QED
  BY <1>1, <1>2, CheckoutInvariant, PTL DEF CheckoutSpec, Spec

\* The clients' variables keep their types, and a client that pays holds what it
\* needs to pay and to ask again.
THEOREM CheckoutTypeCorrect == CheckoutSpec => []CheckoutTypeOK
<1>1. ASSUME CInv, NEW f \in Req, Quoted(f)
      PROVE  /\ flow[f].call \in Call /\ flow[f].id \in Challenge
             /\ flow[f].terms \in Requirement /\ flow[f].payer \in Account
             /\ flow[f].pc = "sign" \/ Sent(f) => flow[f].tx \in Tx
  BY <1>1, ClientFacts DEF FlowHolds, Quoted
<1>2. CInv => CheckoutTypeOK
  BY <1>1 DEF CInv, CheckoutTypeOK
<1>3. QED
  BY <1>2, CheckoutInvariant, PTL

\* A client that shows an answer after paying has its own receipt.
THEOREM OwnReceipt == CheckoutSpec => []AnswersOnOwnReceipt
<1>1. CInv => AnswersOnOwnReceipt
  BY DEF CInv
<1>2. QED
  BY <1>1, CheckoutInvariant, PTL

\* What settles for a quote pays it exactly.
THEOREM ExactPayment == CheckoutSpec => []PaymentsPayQuotes
<1>1. ASSUME CInv, NEW pair \in signed, Settled(pair.tx)
      PROVE  /\ quoted[pair.challenge] # None
             /\ PaysExactly(ledger[pair.tx], quoted[pair.challenge].req)
  <2>1. pair.tx \in Tx
    BY <1>1 DEF CInv, Typed, Pair
  <2>2. ledger[pair.tx] = PaymentOf(pair.tx, ledger[pair.tx].successful)
        /\ ledger[pair.tx].successful
    BY <1>1, <2>1 DEF CInv, SignedConsistent, Settled
  <2>3. /\ quoted[pair.challenge] # None
        /\ Payable(quoted[pair.challenge].req)
        /\ Content[pair.tx].to = quoted[pair.challenge].req.recipient
        /\ ToStroops(Content[pair.tx].amount) = quoted[pair.challenge].req.amount
    BY <1>1 DEF CInv, SignedConsistent
  <2>4. QED
    BY <2>2, <2>3 DEF PaysExactly, PaymentOf, Payable
<1>2. CInv => PaymentsPayQuotes
  BY <1>1 DEF PaymentsPayQuotes
<1>3. QED
  BY <1>2, CheckoutInvariant, PTL

\* A payment that settled, has no receipt and is in no client's hands has a cause:
\* the gateway lost none by refusing it.
THEOREM NoSilentLoss == CheckoutSpec => []LossHasCause
<1>1. ASSUME CInv, NEW pair \in signed, Settled(pair.tx), ~ Recorded(pair.tx),
             ~ InHand(pair.tx)
      PROVE  Cause(pair.tx)
  BY <1>1 DEF CInv, Accounted, InHand
<1>2. CInv => LossHasCause
  BY <1>1 DEF LossHasCause
<1>3. QED
  BY <1>2, CheckoutInvariant, PTL

\* A transaction that is someone else's too: another flow signed it, or the
\* quote is not the client's own.
LEMMA OthersToo ==
  ASSUME NEW f \in Req, NEW pair \in signed, pair.tx = flow[f].tx,
         pair.challenge # flow[f].id
  PROVE  Excused(f)
BY DEF Excused

\* A transaction with a receipt, when the client's own quote is not redeemed.
LEMMA RecordedForOthers ==
  ASSUME CInv, NEW f \in Req, Recorded(flow[f].tx), ~ Redeemed(flow[f].id)
  PROVE  Excused(f)
<1>1. PICK receipt \in receipts : receipt.tx = flow[f].tx
  BY DEF Recorded
<1>2. receipt.challenge # flow[f].id
  BY DEF Redeemed
<1>3. receipt \in signed
  BY DEF CInv, SignedConsistent
<1>4. QED
  BY <1>1, <1>2, <1>3, OthersToo

\* A confirmed payment that the gateway refuses at once.
LEMMA RefusedServed ==
  ASSUME CInv, NEW f \in Req, NEW p \in Proc, PostRefused(f, p)
  PROVE  Excused(f)
<1>1. /\ flow[f].pc = "confirmed" /\ Sent(f) /\ Quoted(f) /\ ~ Accepted(f, p)
      /\ ~ Redeemed(flow[f].id)
      /\ troubled \subseteq troubled'
      /\ flow[f].terms.network # settings[p].network => flow[f].id \in troubled'
  BY DEF PostRefused, Sent, Quoted, Paid, CInv, OwnQuotes
<1>2. CASE flow[f].terms.network # settings[p].network
  BY <1>1, <1>2 DEF Excused
<1>3. CASE now >= quoted[flow[f].id].expiresAt
  BY <1>3 DEF Excused
<1>4. CASE flow[f].tx \in usedTx[p]
  <2>1. CASE Recorded(flow[f].tx)
    BY <1>1, <2>1, RecordedForOthers
  <2>2. CASE Cause(flow[f].tx)
    <3>1. PICK other \in signed :
             /\ other.tx = flow[f].tx
             /\ \/ other.challenge \in troubled
                \/ now >= quoted[other.challenge].expiresAt
      BY <2>2 DEF Cause
    <3>2. CASE other.challenge = flow[f].id
      BY <1>1, <3>1, <3>2 DEF Excused
    <3>3. CASE other.challenge # flow[f].id
      BY <3>1, <3>3, OthersToo
    <3>4. QED
      BY <3>2, <3>3
  <2>3. CASE \E g \in Req : flow[g].pc = "verifying" /\ flow[g].tx = flow[f].tx
    <3>1. PICK g \in Req : flow[g].pc = "verifying" /\ flow[g].tx = flow[f].tx
      BY <2>3
    <3>2. Sent(g) /\ Quoted(g) /\ g # f
      BY <1>1, <3>1 DEF Sent, Quoted, Paid
    <3>3. flow[g].id \in Held(g) /\ flow[f].id \in Held(f)
      BY <1>1, <3>2, ClientFacts DEF Held
    <3>4. flow[g].id # flow[f].id
      BY <3>2, <3>3 DEF CInv, OwnQuotes
    <3>5. [challenge |-> flow[g].id, tx |-> flow[g].tx] \in signed
      BY <3>2, ClientFacts
    <3>6. QED
      BY <3>1, <3>4, <3>5, OthersToo
  <2>4. QED
    BY <1>4, <2>1, <2>2, <2>3 DEF CInv, Accounted
<1>5. QED
  BY <1>1, <1>2, <1>3, <1>4, RefusedBecause

\* A client that is cut off while it waits.
LEMMA CutOffExcused ==
  ASSUME NEW f \in Req, NEW F, f \in F, flow[f].pc \in Paid, CutOff(F) \subseteq troubled'
  PROVE  Excused(f)
BY DEF CutOff, Excused

LEMMA PaidServed ==
  ASSUME CInv, [CheckoutNext]_checkout
  PROVE  PaidFlowServed
<1> SUFFICES ASSUME NEW f \in Req, flow[f].pc \in Paid, flow'[f].pc = "ready"
             PROVE  \/ [challenge |-> flow[f].id, tx |-> flow[f].tx] \in bought'
                    \/ Excused(f)
  BY DEF PaidFlowServed
<1> DEFINE Served == \/ [challenge |-> flow[f].id, tx |-> flow[f].tx] \in bought'
                     \/ Excused(f)
<1>1. flow'[f] # flow[f] /\ flow[f].pc \notin {"ready", "account", "sign", "settling"}
  BY DEF Paid
<1>2. ASSUME NEW g \in Req, NEW state, Become(g, state)
      PROVE  g = f /\ state.pc = "ready"
  BY <1>1, <1>2 DEF Become, CInv, Typed
<1>3. ASSUME NEW g \in Req, NEW p \in Proc, AskFromConsole(g, p) \/ AskFromAgent(g, p)
      PROVE  Served
  BY <1>1, <1>2, <1>3 DEF AskFromConsole, AskFromAgent, Ask
<1>4. ASSUME NEW g \in Req, Gateway(g) PROVE Served
  <2>1. CASE Work(g)
    BY <1>1, <2>1 DEF Work
  <2>2. CASE Hear402(g)
    <3>1. g = f
      <4>1. PICK state : Hear(g, state)
        BY <2>2 DEF Hear402
      <4>2. QED
        BY <1>2, <4>1 DEF Hear
    <3>2. handler[f].pc = "reply"
      BY <2>2, <3>1 DEF Hear402, Reply402
    <3>3. QED
      BY <3>2, ClientFacts DEF FlowHolds, Waiting, Submitted, Paid
  <2>3. CASE HearReceipt(g)
    <3>1. Then(g, "receipted").pc = "receipted"
      BY States DEF CInv, ClientPc, Paid
    <3>2. g = f /\ (IF flow[g].pc \in Waiting THEN Then(g, "receipted")
                    ELSE flow[g]).pc = "ready"
      BY <1>2, <2>3 DEF HearReceipt, Hear
    <3>3. QED
      BY <1>1, <3>1, <3>2
  <2>4. CASE HearGranted(g)
    <3>1. g = f
      BY <1>2, <2>4 DEF HearGranted, Hear
    <3>2. QED
      BY <2>4, <3>1 DEF HearGranted, Serve
  <2>5. CASE HearRefusal(g)
    <3>1. g = f
      BY <1>2, <2>5 DEF HearRefusal, Hear
    <3>2. CASE now >= quoted[flow[f].id].expiresAt
      BY <3>2 DEF Excused
    <3>3. QED
      BY <2>5, <3>1, <3>2, TurnedDownBecause, RecordedForOthers
  <2>6. CASE HearFailure(g)
    <3>1. g = f /\ CutOff({f}) \subseteq troubled'
      BY <1>2, <2>6 DEF HearFailure, Hear
    <3>2. QED
      BY <3>1, CutOffExcused
  <2>7. QED
    BY <1>4, <2>1, <2>2, <2>3, <2>4, <2>5, <2>6 DEF Gateway
<1>5. ASSUME NEW g \in Req, Horizon(g) PROVE Served
  BY <1>1, <1>2, <1>5 DEF Horizon, ReadAccount, Unfunded, Confirmed, Unconfirmed
<1>6. ASSUME NEW g \in Req, NEW p \in Proc, Continue(g, p) PROVE Served
  <2>1. CASE PostVerify(g, p)
    <3>1. Then(g, "verifying").pc = "verifying"
      BY States DEF CInv, ClientPc, Waiting
    <3>2. QED
      BY <1>2, <2>1, <3>1 DEF PostVerify
  <2>2. CASE PostRefused(g, p)
    <3>1. g = f
      BY <1>2, <2>2 DEF PostRefused
    <3>2. QED
      BY <2>2, <3>1, RefusedServed
  <2>3. CASE Retry(g, p)
    <3>1. Then(g, "retrying").pc = "retrying"
      BY States DEF CInv, ClientPc, Waiting
    <3>2. g = f /\ Serve(f)
      BY <1>2, <2>3, <3>1 DEF Retry
    <3>3. QED
      BY <3>2 DEF Serve
  <2>4. QED
    BY <1>6, <2>1, <2>2, <2>3 DEF Continue
<1>7. ASSUME NEW g \in Req, Sign(g) \/ Decline(g) PROVE Served
  <2>1. g = f
    BY <1>2, <1>7 DEF Sign, Decline
  <2>2. QED
    BY <1>1, <1>7, <2>1 DEF Sign, Decline
<1>8. ASSUME NEW g \in Req, Reload(g) PROVE Served
  <2>1. g = f
    BY <1>2, <1>8 DEF Reload
  <2>2. flow[f].id \in Challenge
    BY <1>1, ClientFacts DEF Quoted, Paid
  <2>3. QED
    BY <1>8, <2>1, <2>2 DEF Reload, Excused
<1>9. ASSUME NEW t \in Tx, Apply(t) PROVE Served
  BY <1>1, <1>9 DEF Apply
<1>10. ASSUME NEW p \in Proc, Redeploy(p) PROVE Served
  <2> DEFINE hit == {g \in Req : handler[g].at = p}
  <2>1. /\ f \in hit
        /\ CutOff(hit) \subseteq troubled'
    BY <1>1, <1>10 DEF Redeploy
  <2>2. QED
    BY <2>1, CutOffExcused
<1>11. CASE Elsewhere
  BY <1>1, <1>11 DEF Elsewhere
<1>12. CASE UNCHANGED checkout
  BY <1>1, <1>12 DEF checkout
<1>13. QED
  BY <1>3, <1>4, <1>5, <1>6, <1>7, <1>8, <1>9, <1>10, <1>11, <1>12
     DEF CheckoutNext, Proceed

\* A flow whose payment is confirmed ends with its answer, or is excused.
THEOREM PaymentServed == CheckoutSpec => PaidFlowsServed
<1>1. CInv /\ [CheckoutNext]_checkout => [PaidFlowServed]_checkout
  BY PaidServed
<1>2. QED
  BY <1>1, CheckoutInvariant, PTL DEF CheckoutSpec, PaidFlowsServed
=============================================================================
