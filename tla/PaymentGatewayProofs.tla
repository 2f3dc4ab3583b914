------------------------ MODULE PaymentGatewayProofs ------------------------
(***************************************************************************)
(* Proofs about PaymentGateway, for any number of processes, requests in   *)
(* flight, challenges, transactions, products, settings and faults.        *)
(*                                                                         *)
(* IInv is inductive; the safety properties are its conjuncts.             *)
(***************************************************************************)
EXTENDS PaymentGateway, TLAPS

USE DataAssumption, NoneAssumption

(***************************************************************************)
(* Frames: what a step leaves alone stays true.                            *)
(***************************************************************************)

\* A request in flight that a step does not touch keeps what it knows, if
\* quotes, settled payments and receipts are never withdrawn and the copies of
\* the identifier it holds are left alone.
LEMMA HandlerKeeps ==
  ASSUME TypeOK, NEW s \in Req, HandlerHolds(handler[s]),
         handler'[s] = handler[s],
         settings' = settings,
         \A c \in Challenge : quoted[c] # None =>
            quoted'[c] # None /\ quoted'[c].req = quoted[c].req,
         \A t \in Tx : ledger[t] # None => ledger'[t] = ledger[t],
         receipts \subseteq receipts',
         handler[s].pc \in {"plan", "create", "reply"} =>
            /\ cached'[handler[s].at][handler[s].id] # None
            /\ cached'[handler[s].at][handler[s].id].req = handler[s].req,
         handler[s].pc \in {"plan", "create"} =>
            /\ rows'[handler[s].id] = None
            /\ \A p \in Proc \ {handler[s].at} :
                  cached'[p][handler[s].id] = None,
         handler[s].pc = "reply" => rows'[handler[s].id] # None
  PROVE  HandlerHolds(handler[s])'
  BY DEF HandlerHolds, PaysExactly, Pays

\* So it is when the copies of its identifier do not change at all.
LEMMA HandlerAside ==
  ASSUME IInv, NEW s \in Req,
         handler'[s] = handler[s],
         settings' = settings,
         \A c \in Challenge : quoted[c] # None =>
            quoted'[c] # None /\ quoted'[c].req = quoted[c].req,
         \A t \in Tx : ledger[t] # None => ledger'[t] = ledger[t],
         receipts \subseteq receipts',
         handler[s].pc \in {"plan", "create", "reply"} =>
            \A p \in Proc : cached'[p][handler[s].id] = cached[p][handler[s].id],
         handler[s].pc \in {"plan", "create", "reply"} =>
            rows'[handler[s].id] = None <=> rows[handler[s].id] = None
  PROVE  HandlerHolds(handler[s])'
<1>1. TypeOK /\ HandlerHolds(handler[s])
  BY DEF IInv, HandlersConsistent
<1>2. handler[s].pc \in {"plan", "create", "reply"} => handler[s].at \in Proc
  BY <1>1 DEF HandlerHolds
<1>3. /\ handler[s].pc \in {"plan", "create", "reply"} =>
            /\ cached'[handler[s].at][handler[s].id] # None
            /\ cached'[handler[s].at][handler[s].id].req = handler[s].req
      /\ handler[s].pc \in {"plan", "create"} =>
            /\ rows'[handler[s].id] = None
            /\ \A p \in Proc \ {handler[s].at} : cached'[p][handler[s].id] = None
      /\ handler[s].pc = "reply" => rows'[handler[s].id] # None
  BY <1>1, <1>2 DEF HandlerHolds
<1>4. QED
  BY <1>1, <1>3, HandlerKeeps

LEMMA HandlerUntouched ==
  ASSUME IInv, NEW s \in Req,
         handler'[s] = handler[s],
         UNCHANGED <<settings, rows, cached>>,
         \A c \in Challenge : quoted[c] # None =>
            quoted'[c] # None /\ quoted'[c].req = quoted[c].req,
         \A t \in Tx : ledger[t] # None => ledger'[t] = ledger[t],
         receipts \subseteq receipts'
  PROVE  HandlerHolds(handler[s])'
<1>1. QED
  BY HandlerAside

\* A step that only moves one request on, to a place where it knows what it
\* has to, preserves the invariant.
LEMMA HandlerStep ==
  ASSUME IInv, NEW r \in Req,
         UNCHANGED <<world, database, memory>>,
         handler' = [handler EXCEPT ![r] = handler'[r]],
         handler'[r] \in Handler,
         HandlerHolds(handler[r])',
         handler'[r].pc \in {"plan", "create"} =>
            handler[r].pc \in {"plan", "create"} /\ handler'[r].id = handler[r].id
  PROVE  IInv'
<1> USE DEF world, database, memory
<1>1. TypeOK'
  BY DEF IInv, TypeOK
<1>2. ASSUME NEW s \in Req, s # r PROVE handler'[s] = handler[s]
  BY <1>2 DEF IInv, TypeOK
<1>3. HandlersConsistent'
  <2> SUFFICES ASSUME NEW s \in Req PROVE HandlerHolds(handler[s])'
    BY DEF HandlersConsistent
  <2>1. CASE s = r
    BY <2>1
  <2>2. CASE s # r
    BY <1>2, <2>2, HandlerUntouched
  <2>3. QED
    BY <2>1, <2>2
<1>4. OwnIdentifiers'
  BY <1>2 DEF IInv, OwnIdentifiers
<1>5. /\ CopiesAgree' /\ NoDoubleSpend' /\ ReceiptPaysQuote'
      /\ ConfirmedIffReceipt' /\ MemoryNeverAhead' /\ UsedTransactionsPaid'
      /\ GrantsBacked'
  BY DEF IInv, CopiesAgree, NoDoubleSpend, ReceiptPaysQuote, PaysExactly, Pays,
         ConfirmedIffReceipt, Redeemed, MemoryNeverAhead, Recorded,
         UsedTransactionsPaid, GrantsBacked
<1>6. QED
  BY <1>1, <1>3, <1>4, <1>5 DEF IInv

\* Giving a request up is always such a step.
LEMMA EndStep ==
  ASSUME IInv, NEW r \in Req, End(r), UNCHANGED <<world, database, memory>>
  PROVE  IInv'
<1>1. /\ handler' = [handler EXCEPT ![r] = handler'[r]]
      /\ handler'[r] = Idle
  BY DEF End, IInv, TypeOK
<1>2. Idle \in Handler
  BY DEF Idle, Handler, Pc
<1>3. HandlerHolds(handler[r])'
  BY <1>1 DEF HandlerHolds, Idle
<1>4. QED
  BY <1>1, <1>2, <1>3, HandlerStep DEF Idle

\* Going on to a later await of the same request is one as well, when what
\* must be known there is known.
LEMMA GotoStep ==
  ASSUME IInv, NEW r \in Req, NEW pc \in Pc, Goto(r, pc),
         UNCHANGED <<world, database, memory>>,
         HandlerHolds(handler[r])',
         pc \in {"plan", "create"} => handler[r].pc \in {"plan", "create"}
  PROVE  IInv'
<1>1. /\ handler' = [handler EXCEPT ![r] = handler'[r]]
      /\ handler'[r] = [handler[r] EXCEPT !.pc = pc]
      /\ handler[r] \in Handler
  BY DEF Goto, IInv, TypeOK
<1>2. /\ handler'[r] \in Handler
      /\ handler'[r].id = handler[r].id
      /\ handler'[r].pc = pc
  BY <1>1 DEF Handler
<1>3. QED
  BY <1>1, <1>2, HandlerStep

(***************************************************************************)
(* GET /api/protected                                                      *)
(***************************************************************************)

\* The only thing granting access changes in the invariant is GrantsBacked.
LEMMA GrantStep ==
  ASSUME IInv, NEW t \in Tx, NEW call \in Call, Recorded(t),
         granted' = granted \union {[tx |-> t, call |-> call]},
         UNCHANGED <<now, ledger, quoted, database, memory, handler>>
  PROVE  IInv'
<1> USE DEF database, memory
<1>1. TypeOK'
  BY DEF IInv, TypeOK
<1>2. HandlersConsistent' /\ OwnIdentifiers'
  BY DEF IInv, HandlersConsistent, HandlerHolds, PaysExactly, Pays, OwnIdentifiers
<1>3. /\ CopiesAgree' /\ NoDoubleSpend' /\ ReceiptPaysQuote'
      /\ ConfirmedIffReceipt' /\ MemoryNeverAhead' /\ UsedTransactionsPaid'
  BY DEF IInv, CopiesAgree, NoDoubleSpend, ReceiptPaysQuote, PaysExactly, Pays,
         ConfirmedIffReceipt, Redeemed, MemoryNeverAhead, Recorded,
         UsedTransactionsPaid
<1>4. GrantsBacked'
  BY DEF IInv, GrantsBacked, Recorded
<1>5. QED
  BY <1>1, <1>2, <1>3, <1>4 DEF IInv

LEMMA RequestPreserves ==
  ASSUME IInv, NEW r \in Req, NEW p \in Proc, NEW call \in Call,
         NEW t \in Tx \union {None}, Request(r, p, call, t)
  PROVE  IInv'
<1>1. CASE t # None /\ Remembered(p, t)
  <2>1. t \in Tx /\ Recorded(t)
    BY <1>1 DEF Remembered, IInv, MemoryNeverAhead
  <2>2. QED
    BY <1>1, <2>1, GrantStep DEF Request
<1>2. CASE ~ (t # None /\ Remembered(p, t))
  <2> DEFINE h == [Idle EXCEPT !.pc = IF t = None THEN "price" ELSE "has",
                               !.at = p, !.call = call, !.tx = t]
  <2>1. /\ handler[r] = Idle
        /\ handler' = [handler EXCEPT ![r] = h]
        /\ UNCHANGED <<world, database, memory>>
    BY <1>2 DEF Request, Begin
  <2>2. /\ h.pc = (IF t = None THEN "price" ELSE "has")
        /\ h.at = p /\ h.call = call /\ h.tx = t
    BY DEF Idle
  <2>3. h \in Handler
    BY DEF Idle, Handler, Pc
  <2>4. handler' = [handler EXCEPT ![r] = handler'[r]] /\ handler'[r] = h
    BY <2>1 DEF IInv, TypeOK
  <2>5. HandlerHolds(handler[r])'
    BY <2>2, <2>4 DEF HandlerHolds
  <2> HIDE DEF h
  <2>6. handler'[r].pc \notin {"plan", "create"}
    BY <2>2, <2>4
  <2>7. QED
    BY <2>1, <2>3, <2>4, <2>5, <2>6, HandlerStep
<1>3. QED
  BY <1>1, <1>2

LEMMA FindReceiptPreserves ==
  ASSUME IInv, NEW r \in Req, FindReceipt(r)
  PROVE  IInv'
<1>1. /\ handler[r].pc = "has"
      /\ handler[r].at \in Proc /\ handler[r].call \in Call /\ handler[r].tx \in Tx
      /\ handler[r] \in Handler
  BY DEF FindReceipt, IInv, TypeOK, HandlersConsistent, HandlerHolds
<1>2. CASE Recorded(handler[r].tx)
  \* The grant and the end of the request, one after the other.
  <2>1. /\ granted' = granted \union
                      {[tx |-> handler[r].tx, call |-> handler[r].call]}
        /\ handler' = [handler EXCEPT ![r] = Idle]
        /\ UNCHANGED <<now, ledger, quoted, database, memory>>
    BY <1>2 DEF FindReceipt, End
  <2> USE DEF database, memory
  <2>2. TypeOK'
    BY <1>1, <2>1 DEF IInv, TypeOK, Idle, Handler, Pc
  <2>3. HandlersConsistent'
    <3> SUFFICES ASSUME NEW s \in Req PROVE HandlerHolds(handler[s])'
      BY DEF HandlersConsistent
    <3>1. CASE s = r
      BY <2>1, <3>1 DEF HandlerHolds, Idle, IInv, TypeOK
    <3>2. CASE s # r
      <4>1. handler'[s] = handler[s] /\ HandlerHolds(handler[s])
        BY <2>1, <3>2 DEF IInv, TypeOK, HandlersConsistent
      <4>2. QED
        BY <2>1, <4>1, HandlerKeeps DEF IInv, HandlerHolds
    <3>3. QED
      BY <3>1, <3>2
  <2>4. OwnIdentifiers'
    BY <2>1 DEF IInv, TypeOK, OwnIdentifiers, Idle
  <2>5. /\ CopiesAgree' /\ NoDoubleSpend' /\ ReceiptPaysQuote'
        /\ ConfirmedIffReceipt' /\ MemoryNeverAhead' /\ UsedTransactionsPaid'
    BY <2>1 DEF IInv, CopiesAgree, NoDoubleSpend, ReceiptPaysQuote, PaysExactly,
         Pays, ConfirmedIffReceipt, Redeemed, MemoryNeverAhead, Recorded,
         UsedTransactionsPaid
  <2>6. GrantsBacked'
    BY <1>2, <2>1 DEF IInv, GrantsBacked, Recorded
  <2>7. QED
    BY <2>2, <2>3, <2>4, <2>5, <2>6 DEF IInv
<1>3. CASE ~ Recorded(handler[r].tx)
  <2> DEFINE h == [handler[r] EXCEPT !.pc = "price", !.tx = None]
  <2>1. handler' = [handler EXCEPT ![r] = h] /\ UNCHANGED <<world, database, memory>>
    BY <1>3 DEF FindReceipt, world
  <2>2. h \in Handler /\ h.pc = "price" /\ h.at \in Proc /\ h.call \in Call
    BY <1>1 DEF Handler, Pc
  <2> HIDE DEF h
  <2>3. handler' = [handler EXCEPT ![r] = handler'[r]] /\ handler'[r] = h
    BY <2>1 DEF IInv, TypeOK
  <2>4. HandlerHolds(handler[r])'
    BY <2>2, <2>3 DEF HandlerHolds
  <2>5. QED
    BY <2>1, <2>2, <2>3, <2>4, HandlerStep
<1>4. QED
  BY <1>2, <1>3

LEMMA IssuePreserves ==
  ASSUME IInv, NEW r \in Req, Issue(r)
  PROVE  IInv'
<1> DEFINE p == handler[r].at
<1>1. /\ handler[r].pc = "price" /\ handler[r] \in Handler
      /\ p \in Proc /\ handler[r].call \in Call
      /\ UNCHANGED <<usedTx, known, settings, database, world>>
  BY DEF Issue, IInv, TypeOK, HandlersConsistent, HandlerHolds
<1>2. PICK c \in Challenge, plan \in EntryPlans(handler[r].call.api) :
        LET req == [api |-> handler[r].call.api,
                    hash |-> handler[r].call.hash,
                    network |-> settings[p].network,
                    recipient |-> settings[p].recipient,
                    asset |-> plan.asset,
                    amount |-> plan.amount]
        IN /\ Fresh(c)
           /\ cached' = [cached EXCEPT ![p][c] =
                           [req |-> req, expiresAt |-> now + Lifetime,
                            used |-> FALSE]]
           /\ handler' = [handler EXCEPT ![r] =
                            [Idle EXCEPT !.pc = "plan", !.at = p,
                                         !.id = c, !.req = req]]
  BY DEF Issue
<1> DEFINE req == [api |-> handler[r].call.api,
                   hash |-> handler[r].call.hash,
                   network |-> settings[p].network,
                   recipient |-> settings[p].recipient,
                   asset |-> plan.asset,
                   amount |-> plan.amount]
           entry == [req |-> req, expiresAt |-> now + Lifetime, used |-> FALSE]
           h == [Idle EXCEPT !.pc = "plan", !.at = p, !.id = c, !.req = req]
<1>3. req \in Requirement
  <2>1. handler[r].call.api \in Api /\ handler[r].call.hash \in Hash
    BY <1>1 DEF Call
  <2>2. settings[p] \in Settings
    BY <1>1 DEF IInv, TypeOK
  <2>3. catalog[handler[r].call.api] \in Listing
    BY <2>1 DEF IInv, TypeOK
  <2>4. plan \in Plan /\ plan.amount >= 0
    BY <2>3 DEF EntryPlans, Priced, Listing
  <2>5. plan.asset \in Asset /\ plan.amount \in Nat
    BY <2>4 DEF Plan
  <2>6. QED
    BY <2>1, <2>2, <2>5 DEF Settings, Requirement
<1> HIDE DEF req
<1>4. entry \in CacheEntry
  BY <1>3 DEF CacheEntry, IInv, TypeOK
<1>5. /\ h.pc = "plan" /\ h.at = p /\ h.id = c /\ h.req = req
      /\ h \in Handler
  BY <1>1, <1>3 DEF Idle, Handler, Pc
<1>6. entry.req = req /\ entry.expiresAt = now + Lifetime /\ entry.used = FALSE
  OBVIOUS
<1>7. /\ rows[c] = None
      /\ \A q \in Proc : cached[q][c] = None
      /\ cached' = [cached EXCEPT ![p][c] = entry]
      /\ handler' = [handler EXCEPT ![r] = h]
  BY <1>2 DEF Fresh, req
<1> HIDE DEF entry, h
<1>8. entry # None
  BY <1>6, <1>3, <1>4 DEF CacheEntry
<1>9. QED
  <2> USE DEF database, world
  <2>1. TypeOK'
    BY <1>1, <1>4, <1>5, <1>7 DEF IInv, TypeOK
  <2>2. HandlersConsistent'
    <3> SUFFICES ASSUME NEW s \in Req PROVE HandlerHolds(handler[s])'
      BY DEF HandlersConsistent
    <3>1. CASE s = r
      <4>1. handler'[s] = h
        BY <1>7, <3>1 DEF IInv, TypeOK
      <4>2. /\ cached'[p][c] = entry
            /\ \A q \in Proc \ {p} : cached'[q][c] = None
        BY <1>1, <1>7 DEF IInv, TypeOK
      <4>3. QED
        BY <1>1, <1>5, <1>6, <1>7, <1>8, <4>1, <4>2 DEF HandlerHolds
    <3>2. CASE s # r
      <4>1. handler'[s] = handler[s] /\ HandlerHolds(handler[s])
        BY <1>7, <3>2 DEF IInv, TypeOK, HandlersConsistent
      \* c is fresh, so no other request holds it.
      <4>2. handler[s].pc \in {"plan", "create", "reply"} =>
              /\ handler[s].id # c
              /\ handler[s].at \in Proc /\ handler[s].id \in Challenge
        BY <1>7, <4>1 DEF HandlerHolds
      <4>3. \A q \in Proc, d \in Challenge : d # c => cached'[q][d] = cached[q][d]
        BY <1>1, <1>7 DEF IInv, TypeOK
      <4>4. QED
        BY <1>1, <4>1, <4>2, <4>3, HandlerAside
    <3>3. QED
      BY <3>1, <3>2
  <2>3. OwnIdentifiers'
    <3>1. \A s \in Req \ {r} : /\ handler'[s] = handler[s]
                               /\ handler[s].pc \in {"plan", "create"} =>
                                     handler[s].id # c
      BY <1>7 DEF IInv, TypeOK, HandlersConsistent, HandlerHolds
    <3>2. handler'[r] = h
      BY <1>7 DEF IInv, TypeOK
    <3>3. QED
      BY <1>5, <3>1, <3>2 DEF IInv, OwnIdentifiers
  <2>4. CopiesAgree'
    BY <1>1, <1>7 DEF IInv, TypeOK, CopiesAgree
  <2>5. MemoryNeverAhead'
    BY <1>1, <1>6, <1>7 DEF IInv, TypeOK, MemoryNeverAhead, Redeemed, Recorded
  <2>6. /\ NoDoubleSpend' /\ ReceiptPaysQuote' /\ ConfirmedIffReceipt'
        /\ UsedTransactionsPaid' /\ GrantsBacked'
    BY <1>1 DEF IInv, NoDoubleSpend, ReceiptPaysQuote, PaysExactly, Pays,
         ConfirmedIffReceipt, Redeemed, Recorded, UsedTransactionsPaid,
         GrantsBacked
  <2>7. QED
    BY <2>1, <2>2, <2>3, <2>4, <2>5, <2>6 DEF IInv

LEMMA CheckPlanPreserves ==
  ASSUME IInv, NEW r \in Req, CheckPlan(r)
  PROVE  IInv'
<1>1. CASE PlanStillActive(handler[r].req)
  <2>1. Goto(r, "create") /\ handler[r].pc = "plan"
    BY <1>1 DEF CheckPlan
  <2>2. UNCHANGED <<world, database, memory>>
    BY DEF CheckPlan
  <2>3. HandlerHolds(handler[r])
    BY DEF IInv, HandlersConsistent
  <2>4. HandlerHolds(handler[r])'
    BY <2>1, <2>2, <2>3 DEF HandlerHolds, Goto, IInv, TypeOK, Handler, world,
         database, memory
  <2>5. QED
    BY <2>1, <2>2, <2>4, GotoStep DEF Pc
<1>2. CASE ~ PlanStillActive(handler[r].req)
  BY <1>2, EndStep DEF CheckPlan
<1>3. QED
  BY <1>1, <1>2

LEMMA CreateRowPreserves ==
  ASSUME IInv, NEW r \in Req, CreateRow(r)
  PROVE  IInv'
<1> DEFINE p == handler[r].at
           c == handler[r].id
           row == [req |-> cached[p][c].req, expiresAt |-> cached[p][c].expiresAt,
                   consumedAt |-> None]
           h == [handler[r] EXCEPT !.pc = "reply"]
<1>1. /\ handler[r].pc = "create" /\ handler[r] \in Handler
      /\ p \in Proc /\ c \in Challenge
      /\ cached[p][c] # None /\ cached[p][c].req = handler[r].req
      /\ rows[c] = None
      /\ \A q \in Proc \ {p} : cached[q][c] = None
  BY DEF CreateRow, IInv, TypeOK, HandlersConsistent, HandlerHolds
<1>2. /\ rows' = [rows EXCEPT ![c] = row]
      /\ handler' = [handler EXCEPT ![r] = h]
      /\ UNCHANGED <<catalog, receipts, world, memory>>
  BY DEF CreateRow, Goto, IInv, TypeOK
<1>3. cached[p][c] \in CacheEntry
  BY <1>1 DEF IInv, TypeOK
<1>4. row \in Row
  BY <1>3 DEF CacheEntry, Row
<1>5. row # None
  BY <1>4
<1>6. /\ row.req = cached[p][c].req
      /\ row.expiresAt = cached[p][c].expiresAt
      /\ row.consumedAt = None
  OBVIOUS
<1>7. /\ h \in Handler /\ h.pc = "reply"
      /\ h.at = p /\ h.id = c /\ h.req = handler[r].req
  BY <1>1 DEF Handler, Pc
<1>8. ~ Redeemed(c)
  BY <1>1 DEF IInv, ReceiptPaysQuote, CopiesAgree, Redeemed
<1> HIDE DEF row, h
<1> USE DEF world, memory
<1>9. TypeOK'
  BY <1>2, <1>4, <1>7 DEF IInv, TypeOK
<1>10. handler'[r] = h /\ \A s \in Req \ {r} : handler'[s] = handler[s]
  BY <1>2 DEF IInv, TypeOK
<1>11. rows'[c] = row /\ \A d \in Challenge \ {c} : rows'[d] = rows[d]
  BY <1>1, <1>2 DEF IInv, TypeOK
<1>12. HandlersConsistent'
  <2> SUFFICES ASSUME NEW s \in Req PROVE HandlerHolds(handler[s])'
    BY DEF HandlersConsistent
  <2>1. CASE s = r
    BY <1>1, <1>2, <1>5, <1>7, <1>10, <1>11, <2>1 DEF HandlerHolds
  <2>2. CASE s # r
    <3>1. handler'[s] = handler[s] /\ HandlerHolds(handler[s])
      BY <1>10, <2>2 DEF IInv, HandlersConsistent
    <3>2. handler[s].pc \in {"plan", "create", "reply"} =>
            handler[s].id \in Challenge \ {c}
      BY <1>1, <2>2, <3>1 DEF IInv, OwnIdentifiers, HandlerHolds
    <3>3. UNCHANGED <<cached, settings, quoted, ledger, receipts>>
      BY <1>2
    <3>4. QED
      BY <1>11, <3>1, <3>2, <3>3, HandlerAside
  <2>3. QED
    BY <2>1, <2>2
<1>13. OwnIdentifiers'
  BY <1>7, <1>10 DEF IInv, OwnIdentifiers
<1>14. CopiesAgree'
  BY <1>1, <1>2, <1>5, <1>6, <1>11 DEF IInv, CopiesAgree
<1>15. ConfirmedIffReceipt'
  BY <1>2, <1>6, <1>8, <1>11 DEF IInv, ConfirmedIffReceipt, Redeemed
<1>16. /\ NoDoubleSpend' /\ ReceiptPaysQuote' /\ MemoryNeverAhead'
       /\ UsedTransactionsPaid' /\ GrantsBacked'
  BY <1>2 DEF IInv, NoDoubleSpend, ReceiptPaysQuote, PaysExactly, Pays,
       MemoryNeverAhead, Redeemed, Recorded, UsedTransactionsPaid, GrantsBacked
<1>17. QED
  BY <1>9, <1>12, <1>13, <1>14, <1>15, <1>16 DEF IInv

LEMMA Reply402Preserves ==
  ASSUME IInv, NEW r \in Req, Reply402(r)
  PROVE  IInv'
<1> DEFINE p == handler[r].at
           c == handler[r].id
           quote == [req |-> handler[r].req, expiresAt |-> cached[p][c].expiresAt]
<1>1. /\ handler[r].pc = "reply" /\ p \in Proc /\ c \in Challenge
      /\ cached[p][c] # None /\ cached[p][c].req = handler[r].req
      /\ rows[c] # None
  BY DEF Reply402, IInv, TypeOK, HandlersConsistent, HandlerHolds
<1>2. /\ quoted' = [quoted EXCEPT ![c] = quote]
      /\ handler' = [handler EXCEPT ![r] = Idle]
      /\ UNCHANGED <<now, ledger, granted, database, memory>>
  BY DEF Reply402, End
<1>3. cached[p][c] \in CacheEntry
  BY <1>1 DEF IInv, TypeOK
<1>4. quote \in Quote
  BY <1>1, <1>3 DEF CacheEntry, Quote
<1>5. quote # None
  BY <1>4
<1>6. quote.req = rows[c].req /\ quote.expiresAt = rows[c].expiresAt
  BY <1>1 DEF IInv, CopiesAgree
<1> HIDE DEF quote
<1> USE DEF database, memory
<1>7. TypeOK'
  BY <1>2, <1>4 DEF IInv, TypeOK, Idle, Handler, Pc
<1>8. handler'[r] = Idle /\ \A s \in Req \ {r} : handler'[s] = handler[s]
  BY <1>2 DEF IInv, TypeOK
<1>9. quoted'[c] = quote /\ \A d \in Challenge \ {c} : quoted'[d] = quoted[d]
  BY <1>1, <1>2 DEF IInv, TypeOK
\* A quote given before, for the same challenge, said the same.
<1>10. \A d \in Challenge : quoted[d] # None =>
          quoted'[d] # None /\ quoted'[d].req = quoted[d].req
  BY <1>5, <1>6, <1>9 DEF IInv, CopiesAgree
<1>11. HandlersConsistent'
  <2> SUFFICES ASSUME NEW s \in Req PROVE HandlerHolds(handler[s])'
    BY DEF HandlersConsistent
  <2>1. CASE s = r
    BY <1>8, <2>1 DEF HandlerHolds, Idle
  <2>2. CASE s # r
    BY <1>2, <1>8, <1>10, <2>2, HandlerUntouched
  <2>3. QED
    BY <2>1, <2>2
<1>12. OwnIdentifiers'
  BY <1>8 DEF IInv, OwnIdentifiers, Idle
<1>13. CopiesAgree'
  BY <1>1, <1>2, <1>6, <1>9 DEF IInv, CopiesAgree
<1>14. ReceiptPaysQuote'
  BY <1>2, <1>10 DEF IInv, TypeOK, ReceiptPaysQuote, PaysExactly, Pays
<1>15. UsedTransactionsPaid'
  BY <1>2, <1>10 DEF IInv, UsedTransactionsPaid, PaysExactly, Pays
<1>16. /\ NoDoubleSpend' /\ ConfirmedIffReceipt' /\ MemoryNeverAhead' /\ GrantsBacked'
  BY <1>2 DEF IInv, NoDoubleSpend, ConfirmedIffReceipt, MemoryNeverAhead,
       Redeemed, Recorded, GrantsBacked
<1>17. QED
  BY <1>7, <1>11, <1>12, <1>13, <1>14, <1>15, <1>16 DEF IInv

(***************************************************************************)
(* POST /api/payments/verify                                               *)
(***************************************************************************)

\* What get returns for a quoted challenge is what the client was quoted.
LEMMA LoadedIsQuoted ==
  ASSUME IInv, NEW p \in Proc, NEW c \in Challenge, quoted[c] # None
  PROVE  /\ Loaded(p, c) # None
         /\ Loaded(p, c).req = quoted[c].req
         /\ Loaded(p, c).expiresAt = quoted[c].expiresAt
<1>1. /\ rows[c] # None /\ rows[c] \in Row
      /\ rows[c].req = quoted[c].req
      /\ rows[c].expiresAt = quoted[c].expiresAt
  BY DEF IInv, TypeOK, CopiesAgree
<1>2. CASE cached[p][c] # None
  BY <1>1, <1>2 DEF Loaded, IInv, CopiesAgree
<1>3. CASE cached[p][c] = None
  <2>1. Redeemed(c) \in BOOLEAN
    BY DEF Redeemed
  <2>2. [req |-> rows[c].req, expiresAt |-> rows[c].expiresAt,
         used |-> Redeemed(c)] \in CacheEntry
    BY <1>1, <2>1 DEF CacheEntry, Row
  <2>3. QED
    BY <1>1, <1>3, <2>2 DEF Loaded, Stored
<1>4. QED
  BY <1>2, <1>3

LEMMA SubmitPreserves ==
  ASSUME IInv, NEW r \in Req, NEW p \in Proc, NEW c \in Challenge, NEW t \in Tx,
         Submit(r, p, c, t)
  PROVE  IInv'
<1> DEFINE req == Loaded(p, c).req
           h == [Idle EXCEPT !.pc = "lookup", !.at = p, !.tx = t, !.id = c,
                             !.req = req]
<1>1. /\ quoted[c] # None /\ req = quoted[c].req
      /\ req.network = settings[p].network
  BY LoadedIsQuoted DEF Submit
<1>2. req \in Requirement
  BY <1>1 DEF IInv, TypeOK, Quote
<1>3. /\ handler' = [handler EXCEPT ![r] = h]
      /\ UNCHANGED <<world, database, memory>>
  BY DEF Submit, Begin
<1> HIDE DEF req
<1>4. /\ h.pc = "lookup" /\ h.at = p /\ h.tx = t /\ h.id = c /\ h.req = req
      /\ h \in Handler
  BY <1>2 DEF Idle, Handler, Pc
<1> HIDE DEF h
<1>5. handler' = [handler EXCEPT ![r] = handler'[r]] /\ handler'[r] = h
  BY <1>3 DEF IInv, TypeOK
<1>6. HandlerHolds(handler[r])'
  BY <1>1, <1>3, <1>4, <1>5 DEF HandlerHolds, world, memory
<1>7. QED
  BY <1>3, <1>4, <1>5, <1>6, HandlerStep

LEMMA VerifyPreserves ==
  ASSUME IInv, NEW r \in Req, Verify(r)
  PROVE  IInv'
<1> DEFINE p == handler[r].at
           t == handler[r].tx
           h == [handler[r] EXCEPT !.pc = "consume"]
<1>1. /\ handler[r].pc = "lookup" /\ handler[r] \in Handler
      /\ HandlerHolds(handler[r])
      /\ p \in Proc /\ t \in Tx
      /\ UNCHANGED <<cached, known, settings, database, world>>
  BY DEF Verify, IInv, TypeOK, HandlersConsistent, HandlerHolds
<1>2. CASE Visible(p, t) /\ Pays(ledger[t], handler[r].req)
  <2>1. /\ usedTx' = [usedTx EXCEPT ![p] = @ \union {t}]
        /\ handler' = [handler EXCEPT ![r] = h]
    BY <1>2 DEF Verify, Goto, IInv, TypeOK
  <2>2. /\ h \in Handler /\ h.pc = "consume" /\ h.at = p /\ h.tx = t
        /\ h.id = handler[r].id /\ h.req = handler[r].req
    BY <1>1 DEF Handler, Pc
  <2>3. /\ ledger[t] # None /\ PaysExactly(ledger[t], handler[r].req)
        /\ quoted[handler[r].id] # None /\ handler[r].id \in Challenge
        /\ handler[r].req = quoted[handler[r].id].req
    BY <1>1, <1>2 DEF Visible, Pays, PaysExactly, HandlerHolds
  <2> HIDE DEF h
  <2> USE DEF database, world
  <2>4. TypeOK'
    BY <1>1, <2>1, <2>2 DEF IInv, TypeOK
  <2>5. handler'[r] = h /\ \A s \in Req \ {r} : handler'[s] = handler[s]
    BY <2>1 DEF IInv, TypeOK
  <2>6. HandlersConsistent'
    <3> SUFFICES ASSUME NEW s \in Req PROVE HandlerHolds(handler[s])'
      BY DEF HandlersConsistent
    <3>1. CASE s = r
      BY <1>1, <2>2, <2>3, <2>5, <3>1 DEF HandlerHolds, PaysExactly, Pays
    <3>2. CASE s # r
      <4>1. handler'[s] = handler[s] /\ HandlerHolds(handler[s])
        BY <2>5, <3>2 DEF IInv, HandlersConsistent
      <4>2. QED
        BY <1>1, <4>1, HandlerUntouched
    <3>3. QED
      BY <3>1, <3>2
  <2>7. OwnIdentifiers'
    BY <2>2, <2>5 DEF IInv, OwnIdentifiers
  <2>8. UsedTransactionsPaid'
    <3> SUFFICES ASSUME NEW q \in Proc, NEW u \in usedTx'[q]
                 PROVE  /\ ledger[u] # None
                        /\ \E d \in Challenge :
                              quoted[d] # None /\ PaysExactly(ledger[u], quoted[d].req)
      BY <1>1 DEF UsedTransactionsPaid, PaysExactly, Pays
    <3>1. u \in usedTx[q] \/ u = t
      BY <1>1, <2>1 DEF IInv, TypeOK
    <3>2. QED
      BY <2>3, <3>1 DEF IInv, UsedTransactionsPaid
  <2>9. /\ CopiesAgree' /\ NoDoubleSpend' /\ ReceiptPaysQuote'
        /\ ConfirmedIffReceipt' /\ MemoryNeverAhead' /\ GrantsBacked'
    BY <1>1 DEF IInv, CopiesAgree, NoDoubleSpend, ReceiptPaysQuote, PaysExactly,
         Pays, ConfirmedIffReceipt, Redeemed, MemoryNeverAhead, Recorded,
         GrantsBacked
  <2>10. QED
    BY <2>4, <2>6, <2>7, <2>8, <2>9 DEF IInv
<1>3. CASE ~ (Visible(p, t) /\ Pays(ledger[t], handler[r].req))
  <2>1. End(r) /\ UNCHANGED <<world, database, memory>>
    BY <1>3 DEF Verify, memory
  <2>2. QED
    BY <2>1, EndStep
<1>4. QED
  BY <1>2, <1>3

LEMMA ConsumePreserves ==
  ASSUME IInv, NEW r \in Req, Consume(r)
  PROVE  IInv'
<1>1. CASE Live(handler[r].at, handler[r].id)
  <2>1. /\ Goto(r, "commit") /\ handler[r].pc = "consume"
        /\ UNCHANGED <<world, database, memory>>
    BY <1>1 DEF Consume
  <2>2. HandlerHolds(handler[r]) /\ handler[r] \in Handler
    BY DEF IInv, TypeOK, HandlersConsistent
  <2>3. /\ handler'[r].pc = "commit"
        /\ handler'[r].at = handler[r].at /\ handler'[r].id = handler[r].id
        /\ handler'[r].tx = handler[r].tx /\ handler'[r].req = handler[r].req
    BY <2>1, <2>2 DEF Goto, IInv, TypeOK, Handler
  <2>4. HandlerHolds(handler[r])'
    BY <2>1, <2>2, <2>3 DEF HandlerHolds, world, database, memory,
         PaysExactly, Pays
  <2>5. QED
    BY <2>1, <2>4, GotoStep DEF Pc
<1>2. CASE ~ Live(handler[r].at, handler[r].id)
  BY <1>2, EndStep DEF Consume
<1>3. QED
  BY <1>1, <1>2

LEMMA CommitPreserves ==
  ASSUME IInv, NEW r \in Req, Commit(r)
  PROVE  IInv'
<1> DEFINE c == handler[r].id
           t == handler[r].tx
           receipt == [challenge |-> c, tx |-> t]
           h == [handler[r] EXCEPT !.pc = "record"]
<1>1. /\ handler[r].pc = "commit" /\ handler[r] \in Handler
      /\ HandlerHolds(handler[r])
      /\ UNCHANGED <<catalog, memory, world>>
  BY DEF Commit, IInv, TypeOK, HandlersConsistent
<1>2. /\ c \in Challenge /\ t \in Tx
      /\ quoted[c] # None /\ handler[r].req = quoted[c].req
      /\ ledger[t] # None /\ PaysExactly(ledger[t], handler[r].req)
      /\ rows[c] # None
  BY <1>1 DEF HandlerHolds, IInv, CopiesAgree
<1>3. CASE Unspent(c, t)
  <2>1. /\ rows' = [rows EXCEPT ![c].consumedAt = now]
        /\ receipts' = receipts \union {receipt}
        /\ handler' = [handler EXCEPT ![r] = h]
    BY <1>3 DEF Commit, Goto, IInv, TypeOK
  <2>2. /\ h \in Handler /\ h.pc = "record" /\ h.at = handler[r].at
        /\ h.tx = t /\ h.id = c /\ h.req = handler[r].req
    BY <1>1 DEF Handler, Pc
  <2>3. rows[c] \in Row
    BY <1>2 DEF IInv, TypeOK
  <2>4. /\ rows'[c] \in Row /\ rows'[c] # None
        /\ rows'[c].req = rows[c].req
        /\ rows'[c].expiresAt = rows[c].expiresAt
        /\ rows'[c].consumedAt = now
    BY <1>2, <2>1, <2>3 DEF IInv, TypeOK, Row
  <2>5. \A d \in Challenge \ {c} : rows'[d] = rows[d]
    BY <2>1 DEF IInv, TypeOK
  <2> HIDE DEF h
  <2>6. /\ receipt \in [challenge : Challenge, tx : Tx]
        /\ receipt.challenge = c /\ receipt.tx = t
    BY <1>2
  <2>7. \A other \in receipts : other.challenge # c /\ other.tx # t
    BY <1>3 DEF Unspent, Redeemed, Recorded
  <2>8. handler'[r] = h /\ \A s \in Req \ {r} : handler'[s] = handler[s]
    BY <2>1 DEF IInv, TypeOK
  <2> HIDE DEF h, receipt
  <2> USE DEF memory, world
  <2>9. TypeOK'
    <3>1. rows' \in [Challenge -> Row \union {None}]
      BY <2>1, <2>4, <2>5 DEF IInv, TypeOK
    <3>2. receipts' \subseteq [challenge : Challenge, tx : Tx]
      BY <2>1, <2>6 DEF IInv, TypeOK
    <3>3. handler' \in [Req -> Handler]
      BY <2>1, <2>2 DEF IInv, TypeOK
    <3>4. QED
      BY <1>1, <3>1, <3>2, <3>3 DEF IInv, TypeOK
  <2>10. HandlersConsistent'
    <3> SUFFICES ASSUME NEW s \in Req PROVE HandlerHolds(handler[s])'
      BY DEF HandlersConsistent
    <3>1. CASE s = r
      <4>1. /\ h.at \in Proc /\ h.pc = "record" /\ h.id = c /\ h.tx = t
            /\ h.req = handler[r].req /\ h.req.network = settings[h.at].network
        BY <1>1, <2>2 DEF HandlerHolds
      <4>2. /\ handler'[s] = h /\ receipt \in receipts'
            /\ UNCHANGED <<settings, quoted, ledger>>
        BY <1>1, <2>1, <2>8, <3>1
      <4>3. QED
        BY <1>2, <2>6, <4>1, <4>2 DEF HandlerHolds
    <3>2. CASE s # r
      <4>1. handler'[s] = handler[s] /\ HandlerHolds(handler[s])
        BY <2>8, <3>2 DEF IInv, HandlersConsistent
      <4>2. \A d \in Challenge : rows'[d] = None <=> rows[d] = None
        BY <1>2, <2>4, <2>5
      <4>3. handler[s].pc \in {"plan", "create", "reply"} =>
              handler[s].id \in Challenge
        BY <4>1 DEF HandlerHolds
      <4>4. UNCHANGED <<cached, settings, quoted, ledger>> /\ receipts \subseteq receipts'
        BY <1>1, <2>1
      <4>5. QED
        BY <4>1, <4>2, <4>3, <4>4, HandlerAside
    <3>3. QED
      BY <3>1, <3>2
  <2>11. OwnIdentifiers'
    BY <2>2, <2>8 DEF IInv, OwnIdentifiers
  <2>12. CopiesAgree'
    <3>1. \A d \in Challenge : /\ rows'[d] = None <=> rows[d] = None
                              /\ rows'[d].req = rows[d].req
                              /\ rows'[d].expiresAt = rows[d].expiresAt
      BY <1>2, <2>4, <2>5
    <3>2. UNCHANGED <<quoted, cached>>
      BY <1>1
    <3>3. QED
      BY <3>1, <3>2 DEF IInv, CopiesAgree
  <2>13. NoDoubleSpend'
    BY <2>1, <2>6, <2>7 DEF IInv, NoDoubleSpend
  <2>14. ReceiptPaysQuote'
    BY <1>1, <1>2, <2>1, <2>6 DEF IInv, ReceiptPaysQuote
  <2>15. ConfirmedIffReceipt'
    <3>1. now # None
      BY DEF IInv, TypeOK
    <3>2. QED
      BY <2>1, <2>4, <2>5, <2>6, <3>1 DEF IInv, ConfirmedIffReceipt, Redeemed
  <2>16. MemoryNeverAhead' /\ GrantsBacked'
    BY <1>1, <2>1 DEF IInv, MemoryNeverAhead, Redeemed, Recorded, GrantsBacked
  <2>17. UsedTransactionsPaid'
    BY <1>1 DEF IInv, UsedTransactionsPaid, PaysExactly, Pays
  <2>18. QED
    BY <2>9, <2>10, <2>11, <2>12, <2>13, <2>14, <2>15, <2>16, <2>17 DEF IInv
<1>4. CASE ~ Unspent(c, t)
  <2>1. End(r) /\ UNCHANGED <<world, database, memory>>
    BY <1>4 DEF Commit, database
  <2>2. QED
    BY <2>1, EndStep
<1>5. QED
  BY <1>3, <1>4

LEMMA RecordPreserves ==
  ASSUME IInv, NEW r \in Req, Record(r)
  PROVE  IInv'
<1> DEFINE p == handler[r].at
           c == handler[r].id
           t == handler[r].tx
<1>1. /\ handler[r].pc = "record" /\ HandlerHolds(handler[r])
      /\ known' = [known EXCEPT ![p] = @ \union {t}]
      /\ handler' = [handler EXCEPT ![r] = Idle]
      /\ UNCHANGED <<usedTx, settings, database, world>>
  BY DEF Record, End, IInv, TypeOK, HandlersConsistent
<1>2. /\ p \in Proc /\ c \in Challenge /\ t \in Tx
      /\ Redeemed(c) /\ Recorded(t)
  BY <1>1 DEF HandlerHolds, Redeemed, Recorded
\* The Map changes at most in one entry, and there only in its used mark.
<1>3. /\ cached' \in [Proc -> [Challenge -> CacheEntry \union {None}]]
      /\ \A q \in Proc, d \in Challenge :
            /\ cached[q][d] = None <=> cached'[q][d] = None
            /\ cached[q][d] # None =>
                  /\ cached'[q][d].req = cached[q][d].req
                  /\ cached'[q][d].expiresAt = cached[q][d].expiresAt
                  /\ cached'[q][d].used => cached[q][d].used \/ d = c
  <2>1. CASE cached[p][c] = None
    <3>1. cached' = cached
      BY <2>1 DEF Record
    <3>2. QED
      BY <3>1 DEF IInv, TypeOK
  <2>2. CASE cached[p][c] # None
    <3> DEFINE entry == [cached[p][c] EXCEPT !.used = TRUE]
    <3>1. cached' = [cached EXCEPT ![p][c] = entry]
      BY <1>2, <2>2 DEF Record, IInv, TypeOK
    <3>2. cached[p][c] \in CacheEntry
      BY <1>2, <2>2 DEF IInv, TypeOK
    <3>3. /\ entry \in CacheEntry /\ entry # None
          /\ entry.req = cached[p][c].req
          /\ entry.expiresAt = cached[p][c].expiresAt
      BY <3>2 DEF CacheEntry
    <3> HIDE DEF entry
    <3>4. /\ cached'[p][c] = entry
          /\ \A q \in Proc, d \in Challenge :
                (q # p \/ d # c) => cached'[q][d] = cached[q][d]
      BY <1>2, <3>1 DEF IInv, TypeOK
    <3>5. cached' \in [Proc -> [Challenge -> CacheEntry \union {None}]]
      BY <3>1, <3>3 DEF IInv, TypeOK
    <3>6. QED
      BY <2>2, <3>3, <3>4, <3>5
  <2>3. QED
    BY <2>1, <2>2
<1> USE DEF database, world
<1>4. TypeOK'
  <2>1. known' \in [Proc -> SUBSET Tx]
    BY <1>1, <1>2 DEF IInv, TypeOK
  <2>2. handler' \in [Req -> Handler]
    BY <1>1 DEF IInv, TypeOK, Idle, Handler, Pc
  <2>3. QED
    BY <1>1, <1>3, <2>1, <2>2 DEF IInv, TypeOK
<1>5. handler'[r] = Idle /\ \A s \in Req \ {r} : handler'[s] = handler[s]
  BY <1>1 DEF IInv, TypeOK
<1>6. HandlersConsistent'
  <2> SUFFICES ASSUME NEW s \in Req PROVE HandlerHolds(handler[s])'
    BY DEF HandlersConsistent
  <2>1. CASE s = r
    BY <1>5, <2>1 DEF HandlerHolds, Idle
  <2>2. CASE s # r
    <3>1. handler'[s] = handler[s] /\ HandlerHolds(handler[s])
      BY <1>5, <2>2 DEF IInv, HandlersConsistent
    <3>2. QED
      <4>1. handler[s].pc \in {"plan", "create", "reply"} =>
              /\ handler[s].at \in Proc /\ handler[s].id \in Challenge
              /\ cached'[handler[s].at][handler[s].id] # None
              /\ cached'[handler[s].at][handler[s].id].req = handler[s].req
        BY <1>3, <3>1 DEF HandlerHolds
      <4>2. handler[s].pc \in {"plan", "create"} =>
              \A q \in Proc \ {handler[s].at} : cached'[q][handler[s].id] = None
        BY <1>3, <3>1, <4>1 DEF HandlerHolds
      <4>3. UNCHANGED <<settings, quoted, ledger, rows, receipts>>
        BY <1>1
      <4>4. QED
        BY <3>1, <4>1, <4>2, <4>3, HandlerKeeps DEF IInv, HandlerHolds
  <2>3. QED
    BY <2>1, <2>2
<1>7. OwnIdentifiers'
  BY <1>5 DEF IInv, OwnIdentifiers, Idle
<1>8. CopiesAgree'
  BY <1>1, <1>3 DEF IInv, CopiesAgree
<1>9. MemoryNeverAhead'
  BY <1>1, <1>2, <1>3 DEF IInv, TypeOK, MemoryNeverAhead, Redeemed, Recorded
<1>10. /\ NoDoubleSpend' /\ ReceiptPaysQuote' /\ ConfirmedIffReceipt'
       /\ UsedTransactionsPaid' /\ GrantsBacked'
  BY <1>1 DEF IInv, NoDoubleSpend, ReceiptPaysQuote, PaysExactly, Pays,
       ConfirmedIffReceipt, Redeemed, Recorded, UsedTransactionsPaid, GrantsBacked
<1>11. QED
  BY <1>4, <1>6, <1>7, <1>8, <1>9, <1>10 DEF IInv

(***************************************************************************)
(* Failures and the outside world                                          *)
(***************************************************************************)

LEMMA RestartPreserves ==
  ASSUME IInv, NEW p \in Proc, Restart(p)
  PROVE  IInv'
<1>1. /\ cached' = [cached EXCEPT ![p] = [c \in Challenge |-> None]]
      /\ usedTx' = [usedTx EXCEPT ![p] = {}]
      /\ known' = [known EXCEPT ![p] = {}]
      /\ handler' = [r \in Req |-> IF handler[r].at = p THEN Idle ELSE handler[r]]
      /\ UNCHANGED <<database, world>>
  BY DEF Restart
<1>2. PICK config \in Configs : settings' = [settings EXCEPT ![p] = config]
  BY DEF Restart
<1>3. \A q \in Proc, c \in Challenge :
         cached'[q][c] = IF q = p THEN None ELSE cached[q][c]
  BY <1>1 DEF IInv, TypeOK
<1>4. \A q \in Proc : /\ usedTx'[q] \subseteq usedTx[q]
                      /\ known'[q] \subseteq known[q]
                      /\ q # p => settings'[q] = settings[q]
  BY <1>1, <1>2 DEF IInv, TypeOK
<1>5. \A r \in Req : handler'[r] = IF handler[r].at = p THEN Idle ELSE handler[r]
  BY <1>1
<1> USE DEF database, world
<1>6. TypeOK'
  <2>1. handler' \in [Req -> Handler]
    BY <1>1 DEF IInv, TypeOK, Idle, Handler, Pc
  <2>2. /\ cached' \in [Proc -> [Challenge -> CacheEntry \union {None}]]
        /\ usedTx' \in [Proc -> SUBSET Tx]
        /\ known' \in [Proc -> SUBSET Tx]
        /\ settings' \in [Proc -> Configs]
    BY <1>1, <1>2 DEF IInv, TypeOK
  <2>3. QED
    BY <1>1, <2>1, <2>2 DEF IInv, TypeOK
<1>7. HandlersConsistent'
  <2> SUFFICES ASSUME NEW r \in Req PROVE HandlerHolds(handler[r])'
    BY DEF HandlersConsistent
  <2>1. CASE handler[r].at = p
    BY <1>5, <2>1 DEF HandlerHolds, Idle
  <2>2. CASE handler[r].at # p
    <3>1. handler'[r] = handler[r] /\ HandlerHolds(handler[r])
      BY <1>5, <2>2 DEF IInv, HandlersConsistent
    <3>2. \A q \in Proc, c \in Challenge :
             /\ q = handler[r].at => cached'[q][c] = cached[q][c]
             /\ cached[q][c] = None => cached'[q][c] = None
      BY <1>3, <2>2
    <3>3. UNCHANGED <<ledger, quoted, rows, receipts>>
      BY <1>1
    <3>4. handler[r].at \in Proc => settings'[handler[r].at] = settings[handler[r].at]
      BY <1>4, <2>2
    <3>5. QED
      BY <3>1, <3>2, <3>3, <3>4 DEF HandlerHolds, PaysExactly, Pays
  <2>3. QED
    BY <2>1, <2>2
<1>8. OwnIdentifiers'
  BY <1>5 DEF IInv, OwnIdentifiers, Idle
<1>9. CopiesAgree'
  BY <1>1, <1>3 DEF IInv, CopiesAgree
<1>10. MemoryNeverAhead'
  BY <1>1, <1>3, <1>4 DEF IInv, MemoryNeverAhead, Redeemed, Recorded
<1>11. UsedTransactionsPaid'
  BY <1>1, <1>4 DEF IInv, UsedTransactionsPaid, PaysExactly, Pays
<1>12. /\ NoDoubleSpend' /\ ReceiptPaysQuote' /\ ConfirmedIffReceipt' /\ GrantsBacked'
  BY <1>1 DEF IInv, NoDoubleSpend, ReceiptPaysQuote, PaysExactly, Pays,
       ConfirmedIffReceipt, Redeemed, Recorded, GrantsBacked
<1>13. QED
  BY <1>6, <1>7, <1>8, <1>9, <1>10, <1>11, <1>12 DEF IInv

LEMMA SettlePreserves ==
  ASSUME IInv, NEW t \in Tx, Settle(t)
  PROVE  IInv'
<1>1. PICK payment \in Payments : ledger' = [ledger EXCEPT ![t] = payment]
  BY DEF Settle
<1>2. /\ ledger[t] = None
      /\ UNCHANGED <<now, quoted, granted, database, memory, handler>>
  BY DEF Settle
<1> USE DEF database, memory
<1>3. \A u \in Tx : ledger[u] # None => ledger'[u] = ledger[u]
  BY <1>1, <1>2 DEF IInv, TypeOK
<1>4. TypeOK'
  BY <1>1, <1>2 DEF IInv, TypeOK
<1>5. HandlersConsistent'
  <2> SUFFICES ASSUME NEW s \in Req PROVE HandlerHolds(handler[s])'
    BY DEF HandlersConsistent
  <2>1. QED
    BY <1>2, <1>3, HandlerUntouched
<1>6. ReceiptPaysQuote'
  BY <1>2, <1>3 DEF IInv, TypeOK, ReceiptPaysQuote
<1>7. UsedTransactionsPaid'
  BY <1>2, <1>3 DEF IInv, TypeOK, UsedTransactionsPaid
<1>8. /\ OwnIdentifiers' /\ CopiesAgree' /\ NoDoubleSpend'
      /\ ConfirmedIffReceipt' /\ MemoryNeverAhead' /\ GrantsBacked'
  BY <1>2 DEF IInv, OwnIdentifiers, CopiesAgree, NoDoubleSpend,
       ConfirmedIffReceipt, Redeemed, MemoryNeverAhead, Recorded, GrantsBacked
<1>9. QED
  BY <1>4, <1>5, <1>6, <1>7, <1>8 DEF IInv

\* The clock and the catalogue appear in no part of the invariant but TypeOK.
LEMMA TickOrPublishPreserves ==
  ASSUME IInv, Tick \/ \E api \in Api : Publish(api)
  PROVE  IInv'
<1>1. /\ UNCHANGED <<ledger, rows, receipts, quoted, granted, memory, handler>>
      /\ now' \in Nat
      /\ catalog' \in [Api -> Listings]
  BY DEF Tick, Publish, IInv, TypeOK, database, world
<1> USE DEF memory
<1>2. TypeOK'
  BY <1>1 DEF IInv, TypeOK
<1>3. HandlersConsistent' /\ OwnIdentifiers'
  BY <1>1 DEF IInv, HandlersConsistent, HandlerHolds, PaysExactly, Pays,
       OwnIdentifiers
<1>4. /\ CopiesAgree' /\ NoDoubleSpend' /\ ReceiptPaysQuote'
      /\ ConfirmedIffReceipt' /\ MemoryNeverAhead' /\ UsedTransactionsPaid'
      /\ GrantsBacked'
  BY <1>1 DEF IInv, CopiesAgree, NoDoubleSpend, ReceiptPaysQuote, PaysExactly,
       Pays, ConfirmedIffReceipt, Redeemed, MemoryNeverAhead, Recorded,
       UsedTransactionsPaid, GrantsBacked
<1>5. QED
  BY <1>2, <1>3, <1>4 DEF IInv

(***************************************************************************)
(* The invariant, and what follows from it                                 *)
(***************************************************************************)

LEMMA InitInvariant == Init => IInv
<1> SUFFICES ASSUME Init PROVE IInv
  OBVIOUS
<1>1. TypeOK
  BY DEF Init, TypeOK, Idle, Handler, Pc
<1>2. HandlersConsistent /\ OwnIdentifiers
  BY DEF Init, HandlersConsistent, HandlerHolds, OwnIdentifiers, Idle
<1>3. /\ CopiesAgree /\ NoDoubleSpend /\ ReceiptPaysQuote /\ ConfirmedIffReceipt
      /\ MemoryNeverAhead /\ UsedTransactionsPaid /\ GrantsBacked
  BY DEF Init, CopiesAgree, NoDoubleSpend, ReceiptPaysQuote, ConfirmedIffReceipt,
       MemoryNeverAhead, UsedTransactionsPaid, GrantsBacked
<1>4. QED
  BY <1>1, <1>2, <1>3 DEF IInv

LEMMA NextInvariant == IInv /\ [Next]_vars => IInv'
<1> SUFFICES ASSUME IInv, [Next]_vars PROVE IInv'
  OBVIOUS
<1>1. ASSUME NEW r \in Req, Answer(r) PROVE IInv'
  BY <1>1, FindReceiptPreserves, IssuePreserves, EndStep, CheckPlanPreserves,
     CreateRowPreserves, Reply402Preserves, VerifyPreserves, ConsumePreserves,
     CommitPreserves, RecordPreserves DEF Answer, Refuse
<1>2. ASSUME NEW r \in Req, NEW p \in Proc, Arrive(r, p) PROVE IInv'
  BY <1>2, RequestPreserves, SubmitPreserves DEF Arrive
<1>3. ASSUME NEW r \in Req, Throws(r) \/ Unacked(r) PROVE IInv'
  BY <1>3, EndStep DEF Throws, Unacked
<1>4. ASSUME NEW p \in Proc, Restart(p) PROVE IInv'
  BY <1>4, RestartPreserves
<1>5. CASE Tick \/ \E api \in Api : Publish(api)
  BY <1>5, TickOrPublishPreserves
<1>6. ASSUME NEW t \in Tx, Settle(t) PROVE IInv'
  BY <1>6, SettlePreserves
<1>7. CASE UNCHANGED vars
  BY <1>7 DEF vars, IInv, TypeOK, HandlersConsistent, HandlerHolds, OwnIdentifiers,
       CopiesAgree, NoDoubleSpend, ReceiptPaysQuote, ConfirmedIffReceipt,
       Redeemed, MemoryNeverAhead, Recorded,
       UsedTransactionsPaid, GrantsBacked
<1>8. QED
  BY <1>1, <1>2, <1>3, <1>4, <1>5, <1>6, <1>7 DEF Next

\* IInv holds in every reachable state.
THEOREM Invariant == Spec => []IInv
<1>1. QED
  BY InitInvariant, NextInvariant, PTL DEF Spec

\* Every variable keeps its type; no quote asks for less than nothing.
THEOREM TypeCorrect == Spec => []TypeOK
<1>1. IInv => TypeOK
  BY DEF IInv
<1>2. QED
  BY <1>1, Invariant, PTL

\* A transaction pays for one challenge and a challenge is paid for once,
\* whatever processes race and however often they restart.
THEOREM SpendOnce == Spec => []NoDoubleSpend
<1>1. IInv => NoDoubleSpend
  BY DEF IInv
<1>2. QED
  BY <1>1, Invariant, PTL

\* Every receipt stands for a settled payment of exactly the quoted terms.
THEOREM ReceiptsPaid == Spec => []ReceiptPaysQuote
<1>1. IInv => ReceiptPaysQuote
  BY DEF IInv
<1>2. QED
  BY <1>1, Invariant, PTL

\* A challenge row is confirmed exactly when its receipt exists: the update and
\* the insert of one transaction are never seen apart.
THEOREM ConfirmedTogether == Spec => []ConfirmedIffReceipt
<1>1. IInv => ConfirmedIffReceipt
  BY DEF IInv
<1>2. QED
  BY <1>1, Invariant, PTL

\* What a process remembers of challenges and receipts is committed.
THEOREM MemorySound == Spec => []MemoryNeverAhead
<1>1. IInv => MemoryNeverAhead
  BY DEF IInv
<1>2. QED
  BY <1>1, Invariant, PTL

\* A transaction is refused as used only if it settled and pays some quote.
THEOREM UsedPaid == Spec => []UsedTransactionsPaid
<1>1. IInv => UsedTransactionsPaid
  BY DEF IInv
<1>2. QED
  BY <1>1, Invariant, PTL

\* Access was given on the strength of committed receipts only.
THEOREM AccessBacked == Spec => []GrantsBacked
<1>1. IInv => GrantsBacked
  BY DEF IInv
<1>2. QED
  BY <1>1, Invariant, PTL

\* Whichever process a client reaches, the quote it was given is honoured.
THEOREM QuoteHonoured == Spec => []EveryProcessHonoursQuote
<1>1. IInv => EveryProcessHonoursQuote
  BY LoadedIsQuoted DEF EveryProcessHonoursQuote
<1>2. QED
  BY <1>1, Invariant, PTL

\* Receipts are never removed.
LEMMA ReceiptsGrow == Next => receipts \subseteq receipts'
  BY DEF Next, Answer, Arrive, FindReceipt, Issue, Refuse, CheckPlan, CreateRow,
     Reply402, Verify, Consume, Commit, Record, Request, Submit, Throws, Unacked,
     Restart, Tick, Publish, Settle, database

\* A receipt any process accepts is accepted by every process from then on.
THEOREM AccessStays == Spec => AccessNeverRevoked
<1> DEFINE Kept == \A p \in Proc, t \in Tx : Accepts(p, t) =>
                      \A q \in Proc : Accepts(q, t)'
<1>1. IInv /\ [Next]_vars => [Kept]_vars
  <2> SUFFICES ASSUME IInv, Next, NEW p \in Proc, NEW t \in Tx, Accepts(p, t),
                      NEW q \in Proc
               PROVE  Accepts(q, t)'
    BY DEF Kept
  <2>1. Recorded(t)
    BY DEF Accepts, Remembered, IInv, MemoryNeverAhead
  <2>2. Recorded(t)'
    BY <2>1, ReceiptsGrow DEF Recorded
  <2>3. QED
    BY <2>2 DEF Accepts
<1>2. QED
  BY <1>1, Invariant, PTL DEF Spec, AccessNeverRevoked

(***************************************************************************)
(* The gateway implements the book of receipts                             *)
(***************************************************************************)

\* The mapping, with a name for each of its parts.
offers == [c \in Challenge |-> IF rows[c] = None THEN None ELSE rows[c].req]
served == {grant.tx : grant \in granted}

LEMMA InitRefines == Init => Book!Init
<1> SUFFICES ASSUME Init PROVE Book!Init
  OBVIOUS
<1>1. served = {}
  BY DEF Init, served
<1>2. offers = [c \in Challenge |-> None]
  BY DEF Init, offers
<1>3. QED
  BY <1>1, <1>2 DEF Init, Book!Init, offers, served

\* A step that changes none of what the mapping reads is a stutter.
LEMMA Stutters ==
  ASSUME UNCHANGED <<rows, ledger, receipts, granted>>
  PROVE  UNCHANGED Book!vars
<1>1. offers' = offers /\ served' = served
  BY DEF offers, served
<1>2. QED
  BY <1>1 DEF Book!vars, offers, served

LEMMA GrantRefines ==
  ASSUME NEW t \in Tx, NEW call, Recorded(t),
         granted' = granted \union {[tx |-> t, call |-> call]},
         UNCHANGED <<rows, ledger, receipts>>
  PROVE  Book!Next
<1>1. served' = served \union {t}
  <2> DEFINE grant == [tx |-> t, call |-> call]
  <2>1. grant.tx = t
    OBVIOUS
  <2> HIDE DEF grant
  <2>2. served' = {g.tx : g \in granted \union {grant}}
    BY DEF served, grant
  <2>3. QED
    BY <2>1, <2>2 DEF served
<1>2. offers' = offers
  BY DEF offers
<1>3. Book!Admit(t)
  BY <1>1, <1>2 DEF Book!Admit, Recorded, offers, served
<1>4. QED
  BY <1>3 DEF Book!Next

LEMMA CreateRowRefines ==
  ASSUME IInv, NEW r \in Req, CreateRow(r)
  PROVE  \E c \in Challenge : Book!Offer(c)
<1> PICK c \in Challenge : c = handler[r].id
  BY DEF CreateRow, IInv, HandlersConsistent, HandlerHolds
<1> DEFINE p == handler[r].at
           row == [req |-> cached[p][c].req, expiresAt |-> cached[p][c].expiresAt,
                   consumedAt |-> None]
<1>1. /\ handler[r].pc = "create" /\ p \in Proc /\ c \in Challenge
      /\ cached[p][c] # None /\ rows[c] = None
  BY DEF CreateRow, IInv, TypeOK, HandlersConsistent, HandlerHolds
<1>2. cached[p][c] \in CacheEntry
  BY <1>1 DEF IInv, TypeOK
<1>3. rows' = [rows EXCEPT ![c] = row] /\ UNCHANGED <<ledger, receipts, granted>>
  BY DEF CreateRow, world
<1>4. row \in Row /\ row.req \in Requirement
  BY <1>2 DEF Row, CacheEntry
<1>5. row # None
  BY <1>4
<1> HIDE DEF row
<1>6. offers' = [offers EXCEPT ![c] = row.req]
  BY <1>1, <1>3, <1>5 DEF offers, IInv, TypeOK
<1>7. offers[c] = None /\ offers'[c] \in Requirement
  BY <1>1, <1>4, <1>6 DEF offers
<1>8. served' = served
  BY <1>3 DEF served
<1>9. Book!Offer(c)
  <2>1. offers' = [offers EXCEPT ![c] = offers'[c]]
    BY <1>1, <1>6 DEF offers
  <2>2. QED
    BY <1>3, <1>7, <1>8, <2>1 DEF Book!Offer, offers, served
<1>10. QED
  BY <1>1, <1>9

LEMMA CommitRefines ==
  ASSUME IInv, NEW r \in Req, Commit(r), Unspent(handler[r].id, handler[r].tx)
  PROVE  /\ handler[r].id \in Challenge /\ handler[r].tx \in Tx
         /\ Book!Redeem(handler[r].id, handler[r].tx)
<1> DEFINE c == handler[r].id
           t == handler[r].tx
<1>1. /\ handler[r].pc = "commit" /\ HandlerHolds(handler[r])
      /\ rows' = [rows EXCEPT ![c].consumedAt = now]
      /\ receipts' = receipts \union {[challenge |-> c, tx |-> t]}
      /\ UNCHANGED <<ledger, granted>>
  BY DEF Commit, IInv, HandlersConsistent, world
<1>2. /\ c \in Challenge /\ t \in Tx /\ rows[c] # None
      /\ ledger[t] # None /\ PaysExactly(ledger[t], rows[c].req)
  BY <1>1 DEF HandlerHolds, IInv, CopiesAgree
<1>3. rows[c] \in Row
  BY <1>2 DEF IInv, TypeOK
<1>4. /\ rows'[c] \in Row /\ rows'[c].req = rows[c].req
      /\ \A d \in Challenge \ {c} : rows'[d] = rows[d]
  BY <1>1, <1>2, <1>3 DEF IInv, TypeOK, Row
<1>5. offers' = offers /\ served' = served
  BY <1>1, <1>2, <1>4 DEF offers, served
<1>6. offers[c] = rows[c].req
  BY <1>2 DEF offers
<1>7. offers[c] # None
  BY <1>3, <1>6 DEF Row
<1>8. \A entry \in receipts : entry.challenge # c /\ entry.tx # t
  BY DEF Unspent, Redeemed, Recorded
<1>9. Book!Redeem(c, t)
  BY <1>1, <1>2, <1>5, <1>6, <1>7, <1>8 DEF Book!Redeem, offers, served
<1>10. QED
  BY <1>2, <1>9

LEMMA NextRefines == IInv /\ [Next]_vars => [Book!Next]_(Book!vars)
<1> SUFFICES ASSUME IInv, [Next]_vars PROVE Book!Next \/ UNCHANGED Book!vars
  OBVIOUS
<1>1. ASSUME NEW r \in Req, Answer(r) PROVE Book!Next \/ UNCHANGED Book!vars
  <2>1. CASE FindReceipt(r)
    <3>1. CASE Recorded(handler[r].tx)
      <4>1. handler[r].tx \in Tx
        BY <2>1 DEF FindReceipt, IInv, HandlersConsistent, HandlerHolds
      <4>2. QED
        BY <2>1, <3>1, <4>1, GrantRefines DEF FindReceipt, database
    <3>2. CASE ~ Recorded(handler[r].tx)
      BY <2>1, <3>2, Stutters DEF FindReceipt, database
    <3>3. QED
      BY <3>1, <3>2
  <2>2. CASE Issue(r) \/ Refuse(r) \/ CheckPlan(r) \/ Reply402(r)
             \/ Verify(r) \/ Consume(r) \/ Record(r)
    BY <2>2, Stutters DEF Issue, Refuse, CheckPlan, Reply402, Verify, Consume,
         Record, database, world
  <2>3. CASE CreateRow(r)
    BY <2>3, CreateRowRefines DEF Book!Next
  <2>4. CASE Commit(r)
    <3>1. CASE Unspent(handler[r].id, handler[r].tx)
      BY <2>4, <3>1, CommitRefines DEF Book!Next
    <3>2. CASE ~ Unspent(handler[r].id, handler[r].tx)
      BY <2>4, <3>2, Stutters DEF Commit, world
    <3>3. QED
      BY <3>1, <3>2
  <2>5. QED
    BY <1>1, <2>1, <2>2, <2>3, <2>4 DEF Answer
<1>2. ASSUME NEW r \in Req, NEW p \in Proc, NEW call \in Call,
             NEW t \in Tx \union {None}, Request(r, p, call, t)
      PROVE  Book!Next \/ UNCHANGED Book!vars
  <2>1. CASE t # None /\ Remembered(p, t)
    <3>1. t \in Tx /\ Recorded(t)
      BY <2>1 DEF Remembered, IInv, MemoryNeverAhead
    <3>2. QED
      BY <1>2, <2>1, <3>1, GrantRefines DEF Request, database
  <2>2. CASE ~ (t # None /\ Remembered(p, t))
    BY <1>2, <2>2, Stutters DEF Request, database, world
  <2>3. QED
    BY <2>1, <2>2
<1>3. ASSUME NEW r \in Req, NEW p \in Proc, NEW c \in Challenge, NEW t \in Tx,
             Submit(r, p, c, t)
      PROVE  UNCHANGED Book!vars
  BY <1>3, Stutters DEF Submit, database, world
<1>4. ASSUME NEW r \in Req, Throws(r) \/ Unacked(r) PROVE UNCHANGED Book!vars
  BY <1>4, Stutters DEF Throws, Unacked, database, world
<1>5. ASSUME NEW p \in Proc, Restart(p) PROVE UNCHANGED Book!vars
  BY <1>5, Stutters DEF Restart, database, world
<1>6. CASE Tick \/ \E api \in Api : Publish(api)
  BY <1>6, Stutters DEF Tick, Publish, database, world
<1>7. ASSUME NEW t \in Tx, Settle(t) PROVE Book!Next
  <2>1. PICK payment \in Payments : ledger' = [ledger EXCEPT ![t] = payment]
    BY <1>7 DEF Settle
  <2>2. ledger[t] = None /\ ledger'[t] = payment
    BY <1>7, <2>1 DEF Settle, IInv, TypeOK
  <2>3. offers' = offers /\ served' = served /\ receipts' = receipts
    BY <1>7 DEF Settle, database, offers, served
  <2>4. Book!Settle(t)
    BY <2>1, <2>2, <2>3 DEF Book!Settle, offers, served
  <2>5. QED
    BY <2>4 DEF Book!Next
<1>8. CASE UNCHANGED vars
  BY <1>8, Stutters DEF vars
<1>9. QED
  BY <1>1, <1>2, <1>3, <1>4, <1>5, <1>6, <1>7, <1>8 DEF Next, Arrive

\* Through the database and the answers it gives, the gateway is a book of
\* offers, settled payments and receipts, whatever fails inside it.
THEOREM Refinement == Spec => ImplementsReceiptBook
<1>1. QED
  BY InitRefines, NextRefines, Invariant, PTL DEF Spec, ImplementsReceiptBook, Book!Spec
=============================================================================
