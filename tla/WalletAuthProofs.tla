-------------------------- MODULE WalletAuthProofs --------------------------
(***************************************************************************)
(* WalletAuth keeps its safety properties for any number of processes,     *)
(* requests, challenges and wallets.  IInv is inductive: a step either     *)
(* moves one request on and leaves the rest as it is (RequestStep), or is  *)
(* one of the five that write a challenge, a row, a session, an answer or  *)
(* a signature.                                                            *)
(***************************************************************************)
EXTENDS WalletAuth, TLAPS

LEMMA IdleTyped == Idle \in Handler
BY DEF Idle, Handler

\* A request that moves on keeps what it carries.
LEMMA GotoTyped ==
    ASSUME TypeOK, NEW r \in Req,
           NEW pc \in {"idle", "upsert", "create", "deliver", "find", "commit"},
           Goto(r, pc) \/ End(r)
    PROVE  handler' \in [Req -> Handler]
<1>1. [handler[r] EXCEPT !.pc = pc] \in Handler
      BY DEF TypeOK, Handler
<1>2. CASE Goto(r, pc)
  <2>1. handler' = [handler EXCEPT ![r] = [handler[r] EXCEPT !.pc = pc]]
        BY <1>2 DEF Goto
  <2>. QED BY <1>1, <2>1 DEF TypeOK
<1>3. CASE End(r)
      BY <1>3, IdleTyped DEF End, TypeOK
<1>. QED BY <1>2, <1>3

LEMMA BeginTyped ==
    ASSUME TypeOK, NEW r \in Req, NEW h \in Handler, Begin(r, h)
    PROVE  handler' \in [Req -> Handler]
BY DEF Begin, TypeOK
-----------------------------------------------------------------------------
(* Type correctness *)

LEMMA InitTyped == Init => TypeOK
BY AuthAssumption, IdleTyped DEF Init, TypeOK

LEMMA IssueTyped ==
    ASSUME TypeOK, NEW r \in Req, NEW p \in Proc, NEW c \in Challenge,
           NEW w \in Wallet, NEW o \in Origin, Issue(r, p, c, w, o)
    PROVE  TypeOK'
<1> DEFINE e == [message |-> [id |-> c, address |-> w, origin |-> o,
                              network |-> settings[p], expiresAt |-> now + Lifetime],
                 used |-> FALSE]
           h == [pc |-> "upsert", at |-> p, id |-> c, input |-> None]
<1>1. e \in Entry
      BY AuthAssumption DEF TypeOK, Entry, Message
<1>2. h \in Handler
      BY DEF Handler
<1>3. cached' = [cached EXCEPT ![p] = [cached[p] EXCEPT ![c] = e]] /\ Begin(r, h)
      BY DEF Issue
<1> HIDE DEF e, h
<1>4. [cached[p] EXCEPT ![c] = e] \in [Challenge -> Entry \union {None}]
      BY <1>1 DEF TypeOK
<1>5. cached' \in [Proc -> [Challenge -> Entry \union {None}]]
      BY <1>3, <1>4 DEF TypeOK
<1>6. handler' \in [Req -> Handler]
      BY <1>2, <1>3, BeginTyped
<1>. QED BY <1>5, <1>6 DEF Issue, TypeOK, database, world

LEMMA UpsertTyped ==
    ASSUME IInv, NEW r \in Req, UpsertIdentity(r)
    PROVE  TypeOK'
<1>1. PICK h \in Handler : h = handler[r]
      BY DEF IInv, TypeOK
<1>2. h.at \in Proc /\ h.id \in Challenge /\ cached[h.at][h.id] # None
      BY <1>1 DEF IInv, HandlerConsistent, Creating, UpsertIdentity
<1>3. cached[h.at][h.id].message \in Message
      BY <1>2 DEF IInv, TypeOK, Entry
<1>4. users' = [users EXCEPT ![cached[h.at][h.id].message.address] =
                  cached[h.at][h.id].message.network]
      BY <1>1 DEF UpsertIdentity
<1>5. users' \in [Wallet -> Network \union {None}]
      BY <1>3, <1>4 DEF Message, IInv, TypeOK
<1>6. handler' \in [Req -> Handler]
      BY GotoTyped DEF UpsertIdentity, IInv
<1>. QED BY <1>5, <1>6 DEF UpsertIdentity, IInv, TypeOK, memory, world

LEMMA CreateRowTyped ==
    ASSUME IInv, NEW r \in Req, CreateRow(r)
    PROVE  TypeOK'
<1>1. PICK h \in Handler : h = handler[r]
      BY DEF IInv, TypeOK
<1>2. h.at \in Proc /\ h.id \in Challenge /\ cached[h.at][h.id] # None
      BY <1>1 DEF IInv, HandlerConsistent, Creating, CreateRow
<1>3. cached[h.at][h.id].message \in Message
      BY <1>2 DEF IInv, TypeOK, Entry
<1>4. rows' = [rows EXCEPT ![h.id] = [message |-> cached[h.at][h.id].message,
                                      consumedAt |-> None]]
      BY <1>1 DEF CreateRow
<1>5. rows' \in [Challenge -> Row \union {None}]
      BY <1>3, <1>4 DEF Row, IInv, TypeOK
<1>6. handler' \in [Req -> Handler]
      BY GotoTyped DEF CreateRow, IInv
<1>. QED BY <1>5, <1>6 DEF CreateRow, IInv, TypeOK, memory, world

LEMMA DeliverTyped ==
    ASSUME IInv, NEW r \in Req, Deliver(r)
    PROVE  TypeOK'
<1>1. PICK h \in Handler : h = handler[r]
      BY DEF IInv, TypeOK
<1>2. h.at \in Proc /\ h.id \in Challenge /\ cached[h.at][h.id] # None
      BY <1>1 DEF IInv, HandlerConsistent, Deliver
<1>3. cached[h.at][h.id].message \in Message
      BY <1>2 DEF IInv, TypeOK, Entry
<1>4. delivered' \subseteq Message
      BY <1>1, <1>3 DEF Deliver, IInv, TypeOK
<1>5. handler' \in [Req -> Handler]
      BY GotoTyped DEF Deliver, IInv
<1>. QED BY <1>4, <1>5 DEF Deliver, IInv, TypeOK, memory, database

LEMMA InputsTyped == TypeOK => Inputs \subseteq Input
BY DEF TypeOK, Inputs, Input

LEMMA VerifyCachedTyped ==
    ASSUME TypeOK, NEW r \in Req, NEW p \in Proc, NEW c \in Challenge,
           NEW input \in Inputs, VerifyCached(r, p, c, input)
    PROVE  TypeOK'
<1> DEFINE h == [pc |-> "commit", at |-> p, id |-> c, input |-> input]
<1>1. h \in Handler
      BY InputsTyped DEF Handler
<1>2. [cached[p][c] EXCEPT !.used = TRUE] \in Entry
  <2>1. cached[p][c] \in Entry
        BY DEF VerifyCached, TypeOK
  <2>. QED BY <2>1, Zenon DEF Entry
<1>3. /\ cached' = [cached EXCEPT ![p] = [cached[p] EXCEPT ![c] =
                      [cached[p][c] EXCEPT !.used = TRUE]]]
      /\ Begin(r, h)
      BY DEF VerifyCached
<1> HIDE DEF h
<1>4. cached' \in [Proc -> [Challenge -> Entry \union {None}]]
      BY <1>2, <1>3 DEF TypeOK
<1>5. handler' \in [Req -> Handler]
      BY <1>1, <1>3, BeginTyped
<1>. QED BY <1>4, <1>5 DEF VerifyCached, TypeOK, database, world

LEMMA VerifyUnknownTyped ==
    ASSUME TypeOK, NEW r \in Req, NEW p \in Proc, NEW c \in Challenge,
           NEW input \in Inputs, VerifyUnknown(r, p, c, input)
    PROVE  TypeOK'
<1> DEFINE h == [pc |-> "find", at |-> p, id |-> c, input |-> input]
<1>1. h \in Handler
      BY InputsTyped DEF Handler
<1>2. Begin(r, h)
      BY DEF VerifyUnknown
<1> HIDE DEF h
<1>3. handler' \in [Req -> Handler]
      BY <1>1, <1>2, BeginTyped
<1>. QED BY <1>3 DEF VerifyUnknown, TypeOK, database, memory, world

LEMMA FindTyped ==
    ASSUME TypeOK, NEW r \in Req, Find(r) \/ Throws(r)
    PROVE  TypeOK'
<1>1. handler' \in [Req -> Handler]
      BY GotoTyped DEF Find, Throws
<1>. QED BY <1>1 DEF Find, Throws, TypeOK, database, memory, world

LEMMA CommitTyped ==
    ASSUME IInv, NEW r \in Req, Commit(r)
    PROVE  TypeOK'
<1>1. PICK h \in Handler : h = handler[r]
      BY DEF IInv, TypeOK
<1>2. h.id \in Challenge /\ h.input.address \in Wallet
      BY <1>1 DEF IInv, HandlerConsistent, Commit, Input
<1>3. handler' \in [Req -> Handler]
      BY GotoTyped DEF Commit, IInv
<1>4. CASE Unconsumed(h.id) /\ users[h.input.address] # None
  <2>1. rows[h.id] \in Row
        BY <1>2, <1>4 DEF Unconsumed, IInv, TypeOK
  <2>2. [rows[h.id] EXCEPT !.consumedAt = now] \in Row
        BY <2>1 DEF Row, IInv, TypeOK
  <2>3. /\ rows' = [rows EXCEPT ![h.id] = [rows[h.id] EXCEPT !.consumedAt = now]]
        /\ sessions' = [sessions EXCEPT ![h.id] = [sessions[h.id] EXCEPT
                          ![h.input.address] = sessions[h.id][h.input.address] + 1]]
        BY <1>1, <1>4 DEF Commit, OpenSession
  <2>4. sessions[h.id][h.input.address] + 1 \in Nat
        BY <1>2 DEF IInv, TypeOK
  <2>5. rows' \in [Challenge -> Row \union {None}]
        BY <2>2, <2>3 DEF IInv, TypeOK
  <2>6. sessions' \in [Challenge -> [Wallet -> Nat]]
        BY <2>3, <2>4 DEF IInv, TypeOK
  <2>. QED BY <1>3, <2>5, <2>6 DEF Commit, IInv, TypeOK, memory, world
<1>5. CASE ~ (Unconsumed(h.id) /\ users[h.input.address] # None)
  <2>1. UNCHANGED <<rows, sessions>>
        BY <1>1, <1>5 DEF Commit
  <2>. QED BY <1>3, <2>1 DEF Commit, IInv, TypeOK, memory, world
<1>. QED BY <1>4, <1>5

LEMMA RestartTyped ==
    ASSUME TypeOK, NEW p \in Proc, Restart(p)
    PROVE  TypeOK'
<1>1. cached' \in [Proc -> [Challenge -> Entry \union {None}]]
      BY DEF Restart, TypeOK
<1>2. settings' \in [Proc -> Network]
      BY DEF Restart, TypeOK
<1>3. handler' \in [Req -> Handler]
      BY IdleTyped DEF Restart, TypeOK
<1>. QED BY <1>1, <1>2, <1>3 DEF Restart, TypeOK, database, world

LEMMA OutsideTyped ==
    ASSUME TypeOK, Tick \/ Sign
    PROVE  TypeOK'
BY DEF Tick, Sign, TypeOK, database, memory
-----------------------------------------------------------------------------
(* Steps that leave challenges, rows and sessions as they are *)

SameCopies == \A p \in Proc, c \in Challenge :
                 /\ cached'[p][c] = None <=> cached[p][c] = None
                 /\ cached[p][c] # None => cached'[p][c].message = cached[p][c].message

Stable == UNCHANGED <<rows, sessions>> /\ SameCopies /\ signed \subseteq signed'

LEMMA StableKeeps ==
    ASSUME IInv, Stable
    PROVE  /\ OneSessionPerChallenge' /\ ConsumedIffSession' /\ SessionSigned'
           /\ OneCopy' /\ CopiesAgree'
<1>1. OneSessionPerChallenge' /\ ConsumedIffSession'
      BY DEF Stable, IInv, OneSessionPerChallenge, ConsumedIffSession, Consumed
<1>2. SessionSigned'
      BY DEF Stable, IInv, SessionSigned
<1>3. OneCopy'
      BY DEF Stable, SameCopies, IInv, OneCopy
<1>4. CopiesAgree'
      BY DEF Stable, SameCopies, IInv, CopiesAgree
<1>. QED BY <1>1, <1>2, <1>3, <1>4

\* What a request knows stays true while it waits.
LEMMA WaitingKeeps ==
    ASSUME IInv, Stable, NEW r \in Req, handler'[r] = handler[r]
    PROVE  HandlerConsistent(handler[r])'
<1>1. HandlerConsistent(handler[r])
      BY DEF IInv
<1>. QED BY <1>1 DEF Stable, SameCopies, HandlerConsistent, Creating

\* It is enough to look at the requests that move.
LEMMA RequestStep ==
    ASSUME IInv, TypeOK', Stable, OnlyDeliveredSigned',
           \A r \in Req :
              \/ handler'[r] = handler[r]
              \/ /\ HandlerConsistent(handler[r])'
                 /\ Creating(handler[r])' => /\ Creating(handler[r])
                                             /\ handler'[r].id = handler[r].id
    PROVE  IInv'
<1>1. \A r \in Req : HandlerConsistent(handler[r])'
      BY WaitingKeeps
<1>2. \A r \in Req : Creating(handler[r])' => /\ Creating(handler[r])
                                              /\ handler'[r].id = handler[r].id
      BY DEF Creating
<1>3. OwnIdentifiers'
      BY <1>2 DEF IInv, OwnIdentifiers
<1>. QED BY <1>1, <1>3, StableKeeps DEF IInv

\* An idle request knows nothing.
LEMMA EndStep ==
    ASSUME TypeOK, NEW r \in Req, End(r)
    PROVE  /\ HandlerConsistent(handler[r])' /\ ~ Creating(handler[r])'
           /\ \A s \in Req \ {r} : handler'[s] = handler[s]
BY DEF End, TypeOK, Idle, HandlerConsistent, Creating

LEMMA UpsertKeeps ==
    ASSUME IInv, NEW r \in Req, UpsertIdentity(r)
    PROVE  IInv'
<1>1. TypeOK'
      BY UpsertTyped
<1>2. Stable /\ OnlyDeliveredSigned'
      BY DEF UpsertIdentity, Stable, SameCopies, memory, world, IInv,
         OnlyDeliveredSigned
<1>3. handler' = [handler EXCEPT ![r] = [handler[r] EXCEPT !.pc = "create"]]
      BY DEF UpsertIdentity, Goto
<1>4. handler[r] \in Handler /\ handler \in [Req -> Handler]
      BY DEF IInv, TypeOK
<1>5. /\ handler'[r].pc = "create" /\ handler'[r].id = handler[r].id
      /\ handler'[r].at = handler[r].at
      BY <1>3, <1>4 DEF Handler
<1>6. Creating(handler[r]) /\ HandlerConsistent(handler[r])
      BY DEF UpsertIdentity, IInv, Creating
<1>7. HandlerConsistent(handler[r])'
      BY <1>2, <1>5, <1>6 DEF HandlerConsistent, Creating, Stable, SameCopies
<1>8. \A s \in Req \ {r} : handler'[s] = handler[s]
      BY <1>3, <1>4
<1>. QED BY <1>1, <1>2, <1>5, <1>6, <1>7, <1>8, RequestStep

LEMMA DeliverKeeps ==
    ASSUME IInv, NEW r \in Req, Deliver(r)
    PROVE  IInv'
<1>1. TypeOK'
      BY DeliverTyped
<1>2. Stable
      BY DEF Deliver, Stable, SameCopies, memory, database
<1>3. PICK h : h = handler[r]
      OBVIOUS
<1>4. /\ h.at \in Proc /\ h.id \in Challenge
      /\ cached[h.at][h.id] # None /\ rows[h.id] # None
      BY <1>3 DEF IInv, HandlerConsistent, Deliver
<1>5. /\ rows[h.id].message = cached[h.at][h.id].message
      /\ cached[h.at][h.id].message.id = h.id
      BY <1>4 DEF IInv, CopiesAgree
<1>6. /\ delivered' = delivered \union {cached[h.at][h.id].message}
      /\ UNCHANGED <<rows, signed>>
      BY <1>3 DEF Deliver, database
<1>7. OnlyDeliveredSigned'
      BY <1>4, <1>5, <1>6 DEF IInv, OnlyDeliveredSigned
<1>8. End(r)
      BY DEF Deliver
<1>. QED BY <1>1, <1>2, <1>7, <1>8, EndStep, RequestStep DEF IInv

\* What passing the checks of verify shows.
LEMMA AcceptsSigned ==
    ASSUME IInv, NEW c \in Challenge, NEW challenge, NEW input,
           Accepts(challenge, input), input.signature \in signed \union {None},
           challenge.message \in Message, challenge.message.id = c
    PROVE  /\ input.signature # None
           /\ input.signature.id = c
           /\ input.signature.address = input.address
BY AuthNoneAssumption DEF Accepts

LEMMA VerifyCachedKeeps ==
    ASSUME IInv, NEW r \in Req, NEW p \in Proc, NEW c \in Challenge,
           NEW input \in Inputs, VerifyCached(r, p, c, input)
    PROVE  IInv'
<1>1. TypeOK'
      BY VerifyCachedTyped DEF IInv
<1>2. cached[p][c] \in Entry /\ cached[p][c].message.id = c
      BY DEF VerifyCached, IInv, TypeOK, CopiesAgree
<1>3. SameCopies
  <2>1. cached' = [cached EXCEPT ![p] = [cached[p] EXCEPT ![c] =
                     [cached[p][c] EXCEPT !.used = TRUE]]]
        BY DEF VerifyCached
  <2>2. [cached[p][c] EXCEPT !.used = TRUE].message = cached[p][c].message
        BY <1>2 DEF Entry
  <2>3. [cached[p][c] EXCEPT !.used = TRUE] # None
    <3>1. [cached[p][c] EXCEPT !.used = TRUE] \in Entry
          BY <1>2, Zenon DEF Entry
    <3>. QED BY <3>1, AuthNoneAssumption
  <2>4. cached[p][c] # None
        BY DEF VerifyCached
  <2>. QED BY <2>1, <2>2, <2>3, <2>4 DEF SameCopies, IInv, TypeOK
<1>4. Stable /\ OnlyDeliveredSigned'
      BY <1>3 DEF VerifyCached, Stable, database, world, IInv, OnlyDeliveredSigned
<1>5. handler' = [handler EXCEPT ![r] =
                    [pc |-> "commit", at |-> p, id |-> c, input |-> input]]
      BY DEF VerifyCached, Begin
<1>6. input \in Input /\ input.signature \in signed \union {None}
      BY InputsTyped DEF Inputs, IInv
<1>7. /\ input.signature # None /\ input.signature.id = c
      /\ input.signature.address = input.address
  <2>1. PICK challenge : challenge = cached[p][c]
        OBVIOUS
  <2>2. challenge.message \in Message /\ challenge.message.id = c
        BY <1>2, <2>1 DEF Entry
  <2>3. Accepts(challenge, input)
        BY <2>1 DEF VerifyCached
  <2>. QED BY <1>6, <2>2, <2>3, AcceptsSigned
<1>8. handler'[r] = [pc |-> "commit", at |-> p, id |-> c, input |-> input]
      BY <1>5 DEF IInv, TypeOK
<1>9. HandlerConsistent(handler[r])' /\ ~ Creating(handler[r])'
      BY <1>4, <1>6, <1>7, <1>8 DEF HandlerConsistent, Creating, Stable
<1>10. \A s \in Req \ {r} : handler'[s] = handler[s]
      BY <1>5 DEF IInv, TypeOK
<1>. QED BY <1>1, <1>4, <1>9, <1>10, RequestStep

LEMMA VerifyUnknownKeeps ==
    ASSUME IInv, NEW r \in Req, NEW p \in Proc, NEW c \in Challenge,
           NEW input \in Inputs, VerifyUnknown(r, p, c, input)
    PROVE  IInv'
<1>1. TypeOK'
      BY VerifyUnknownTyped DEF IInv
<1>2. Stable /\ OnlyDeliveredSigned'
      BY DEF VerifyUnknown, Stable, SameCopies, database, memory, world, IInv,
         OnlyDeliveredSigned
<1>3. handler' = [handler EXCEPT ![r] =
                    [pc |-> "find", at |-> p, id |-> c, input |-> input]]
      BY DEF VerifyUnknown, Begin
<1>4. input \in Input /\ input.signature \in signed \union {None}
      BY InputsTyped DEF Inputs, IInv
<1>5. handler'[r] = [pc |-> "find", at |-> p, id |-> c, input |-> input]
      BY <1>3 DEF IInv, TypeOK
<1>6. HandlerConsistent(handler[r])' /\ ~ Creating(handler[r])'
      BY <1>2, <1>4, <1>5 DEF HandlerConsistent, Creating, Stable
<1>7. \A s \in Req \ {r} : handler'[s] = handler[s]
      BY <1>3 DEF IInv, TypeOK
<1>. QED BY <1>1, <1>2, <1>6, <1>7, RequestStep

LEMMA FindKeeps ==
    ASSUME IInv, NEW r \in Req, Find(r)
    PROVE  IInv'
<1>1. TypeOK'
      BY FindTyped DEF IInv
<1>2. Stable /\ OnlyDeliveredSigned'
      BY DEF Find, Stable, SameCopies, database, memory, world, IInv,
         OnlyDeliveredSigned
<1>3. PICK h \in Handler : h = handler[r]
      BY DEF IInv, TypeOK
<1>4. /\ h.at \in Proc /\ h.id \in Challenge /\ h.input \in Input
      /\ h.input.signature \in signed \union {None}
      BY <1>3 DEF IInv, HandlerConsistent, Find
<1>5. CASE Accepts(Stored(h.at, h.id), h.input)
  <2>1. PICK challenge : challenge = Stored(h.at, h.id)
        OBVIOUS
  <2>2. Accepts(challenge, h.input) /\ challenge # None
        BY <1>5, <2>1 DEF Accepts
  <2>3. rows[h.id] # None /\ challenge.message = rows[h.id].message
        BY <2>1, <2>2 DEF Stored
  <2>4. challenge.message \in Message /\ challenge.message.id = h.id
        BY <1>4, <2>3 DEF IInv, TypeOK, CopiesAgree, Row
  <2>5. /\ h.input.signature # None /\ h.input.signature.id = h.id
        /\ h.input.signature.address = h.input.address
        BY <1>4, <2>2, <2>4, AcceptsSigned
  <2>6. handler' = [handler EXCEPT ![r] = [h EXCEPT !.pc = "commit"]]
        BY <1>3, <1>5 DEF Find, Goto
  <2>7. /\ handler'[r].pc = "commit" /\ handler'[r].at = h.at
        /\ handler'[r].id = h.id /\ handler'[r].input = h.input
        BY <2>6 DEF IInv, TypeOK, Handler
  <2>8. HandlerConsistent(handler[r])' /\ ~ Creating(handler[r])'
        BY <1>2, <1>4, <2>5, <2>7 DEF HandlerConsistent, Creating, Stable
  <2>9. \A s \in Req \ {r} : handler'[s] = handler[s]
        BY <2>6 DEF IInv, TypeOK
  <2>. QED BY <1>1, <1>2, <2>8, <2>9, RequestStep
<1>6. CASE ~ Accepts(Stored(h.at, h.id), h.input)
  <2>1. End(r)
        BY <1>3, <1>6 DEF Find
  <2>. QED BY <1>1, <1>2, <2>1, EndStep, RequestStep DEF IInv
<1>. QED BY <1>5, <1>6

LEMMA ThrowsKeeps ==
    ASSUME IInv, NEW r \in Req, Throws(r)
    PROVE  IInv'
<1>1. TypeOK'
      BY FindTyped DEF IInv
<1>2. Stable /\ OnlyDeliveredSigned' /\ End(r)
      BY DEF Throws, Stable, SameCopies, database, memory, world, IInv,
         OnlyDeliveredSigned
<1>. QED BY <1>1, <1>2, EndStep, RequestStep DEF IInv

LEMMA OutsideKeeps ==
    ASSUME IInv, Tick \/ Sign
    PROVE  IInv'
<1>1. TypeOK'
      BY OutsideTyped DEF IInv
<1>2. Stable /\ UNCHANGED handler
      BY DEF Tick, Sign, Stable, SameCopies, database, memory
<1>3. OnlyDeliveredSigned'
      BY DEF Tick, Sign, database, IInv, OnlyDeliveredSigned
<1>. QED BY <1>1, <1>2, <1>3, RequestStep
-----------------------------------------------------------------------------
(* The other steps *)

\* A fresh identifier enters one Map, and nothing else knows it.
LEMMA IssueKeeps ==
    ASSUME IInv, NEW r \in Req, NEW p \in Proc, NEW c \in Challenge,
           NEW w \in Wallet, NEW o \in Origin, Issue(r, p, c, w, o)
    PROVE  IInv'
<1> DEFINE e == [message |-> [id |-> c, address |-> w, origin |-> o,
                              network |-> settings[p], expiresAt |-> now + Lifetime],
                 used |-> FALSE]
           h == [pc |-> "upsert", at |-> p, id |-> c, input |-> None]
<1>1. TypeOK'
      BY IssueTyped DEF IInv
<1>2. /\ rows[c] = None /\ \A q \in Proc : cached[q][c] = None
      /\ o \in Allowed /\ handler[r] = Idle
      /\ cached' = [cached EXCEPT ![p] = [cached[p] EXCEPT ![c] = e]]
      /\ handler' = [handler EXCEPT ![r] = h]
      /\ UNCHANGED <<rows, sessions, delivered, signed>>
      BY DEF Issue, Begin, database, world
<1>3. e # None /\ e.message.id = c /\ e.message.origin = o
  <2>1. e \in Entry
        BY AuthAssumption DEF IInv, TypeOK, Entry, Message
  <2>. QED BY <2>1, AuthNoneAssumption
<1>4. h.pc = "upsert" /\ h.at = p /\ h.id = c
      OBVIOUS
<1> HIDE DEF e, h
<1>5. cached'[p][c] = e
      BY <1>2 DEF IInv, TypeOK
<1>6. \A q \in Proc, d \in Challenge :
         q # p \/ d # c => cached'[q][d] = cached[q][d]
      BY <1>2 DEF IInv, TypeOK
<1>7. handler'[r] = h /\ \A s \in Req \ {r} : handler'[s] = handler[s]
      BY <1>2 DEF IInv, TypeOK
<1>8. OneSessionPerChallenge' /\ ConsumedIffSession' /\ SessionSigned'
      BY <1>2 DEF IInv, OneSessionPerChallenge, ConsumedIffSession, SessionSigned,
         Consumed
<1>9. OneCopy'
      BY <1>2, <1>5, <1>6 DEF IInv, OneCopy
<1>10. CopiesAgree'
      BY <1>2, <1>3, <1>5, <1>6 DEF IInv, CopiesAgree
<1>11. OnlyDeliveredSigned'
      BY <1>2 DEF IInv, OnlyDeliveredSigned
<1>12. HandlerConsistent(handler[r])'
      BY <1>2, <1>3, <1>4, <1>5, <1>7 DEF HandlerConsistent, Creating
<1>13. ASSUME NEW s \in Req \ {r}
       PROVE  HandlerConsistent(handler[s])'
  <2>1. HandlerConsistent(handler[s])
        BY DEF IInv
  <2>2. (Creating(handler[s]) \/ handler[s].pc = "deliver") => handler[s].id # c
        BY <1>2, <2>1 DEF HandlerConsistent, Creating
  <2>. QED BY <1>2, <1>6, <1>7, <2>1, <2>2 DEF HandlerConsistent, Creating
<1>14. ASSUME NEW s \in Req \ {r}, Creating(handler[s])
       PROVE  handler[s].id # c
  <2>1. HandlerConsistent(handler[s])
        BY DEF IInv
  <2>. QED BY <1>2, <1>14, <2>1 DEF HandlerConsistent, Creating
<1>15. OwnIdentifiers'
      BY <1>4, <1>7, <1>14 DEF IInv, OwnIdentifiers, Creating
<1>. QED BY <1>1, <1>8, <1>9, <1>10, <1>11, <1>12, <1>13, <1>15 DEF IInv

\* The row is new, not consumed, and agrees with the only copy.
LEMMA CreateRowKeeps ==
    ASSUME IInv, NEW r \in Req, CreateRow(r)
    PROVE  IInv'
<1>1. TypeOK'
      BY CreateRowTyped
<1>2. PICK h \in Handler : h = handler[r]
      BY DEF IInv, TypeOK
<1>3. /\ h.at \in Proc /\ h.id \in Challenge /\ Creating(h)
      /\ cached[h.at][h.id] # None /\ rows[h.id] = None
      BY <1>2 DEF IInv, HandlerConsistent, Creating, CreateRow
<1> DEFINE row == [message |-> cached[h.at][h.id].message, consumedAt |-> None]
<1>4. /\ rows' = [rows EXCEPT ![h.id] = row]
      /\ handler' = [handler EXCEPT ![r] = [h EXCEPT !.pc = "deliver"]]
      /\ UNCHANGED <<sessions, cached, delivered, signed>>
      BY <1>2 DEF CreateRow, Goto, memory, world
<1>5. row # None /\ row.consumedAt = None
  <2>1. cached[h.at][h.id].message \in Message
        BY <1>3 DEF IInv, TypeOK, Entry
  <2>2. row \in Row
        BY <2>1 DEF Row
  <2>. QED BY <2>2, AuthNoneAssumption
<1>6. row.message = cached[h.at][h.id].message
      OBVIOUS
<1> HIDE DEF row
<1>7. rows'[h.id] = row /\ \A c \in Challenge \ {h.id} : rows'[c] = rows[c]
      BY <1>3, <1>4 DEF IInv, TypeOK
<1>8. /\ handler'[r].pc = "deliver" /\ handler'[r].at = h.at
      /\ handler'[r].id = h.id
      /\ \A s \in Req \ {r} : handler'[s] = handler[s]
      BY <1>4 DEF IInv, TypeOK, Handler
<1>9. OneSessionPerChallenge' /\ SessionSigned'
      BY <1>4 DEF IInv, OneSessionPerChallenge, SessionSigned
<1>10. ConsumedIffSession'
      BY <1>3, <1>4, <1>5, <1>7 DEF IInv, ConsumedIffSession, Consumed
<1>11. OneCopy'
      BY <1>4 DEF IInv, OneCopy
<1>12. CopiesAgree'
  <2>. SUFFICES ASSUME NEW c \in Challenge
                PROVE  /\ \A p \in Proc : cached[p][c] # None =>
                             /\ cached[p][c].message.id = c
                             /\ cached[p][c].message.origin \in Allowed
                             /\ rows'[c] # None =>
                                   rows'[c].message = cached[p][c].message
                       /\ rows'[c] # None => /\ rows'[c].message.id = c
                                             /\ rows'[c].message.origin \in Allowed
       BY <1>4 DEF CopiesAgree
  <2>1. CASE c = h.id
        BY <1>3, <1>6, <1>7, <2>1 DEF IInv, CopiesAgree, OneCopy
  <2>2. CASE c # h.id
        BY <1>7, <2>2 DEF IInv, CopiesAgree
  <2>. QED BY <2>1, <2>2
<1>13. OnlyDeliveredSigned'
  <2>1. \A message \in delivered : message.id # h.id /\ message.id \in Challenge
        BY <1>3 DEF IInv, OnlyDeliveredSigned, TypeOK, Message
  <2>. QED BY <1>4, <1>7, <2>1 DEF IInv, OnlyDeliveredSigned
<1>14. HandlerConsistent(handler[r])'
      BY <1>3, <1>4, <1>5, <1>7, <1>8 DEF HandlerConsistent, Creating
<1>15. ASSUME NEW s \in Req \ {r}
       PROVE  HandlerConsistent(handler[s])'
  <2>1. HandlerConsistent(handler[s])
        BY DEF IInv
  <2>2. Creating(handler[s]) => handler[s].id # h.id
        BY <1>2, <1>3 DEF IInv, OwnIdentifiers
  <2>3. handler[s].pc # "idle" /\ handler[s].id # h.id =>
           rows'[handler[s].id] = rows[handler[s].id]
        BY <1>7, <2>1 DEF HandlerConsistent
  <2>. QED BY <1>4, <1>5, <1>7, <1>8, <2>1, <2>2, <2>3
           DEF HandlerConsistent, Creating
<1>16. OwnIdentifiers'
      BY <1>8 DEF IInv, OwnIdentifiers, Creating
<1>. QED BY <1>1, <1>9, <1>10, <1>11, <1>12, <1>13, <1>14, <1>15, <1>16 DEF IInv

\* The row is consumed with its first session, for the wallet that signed.
LEMMA CommitKeeps ==
    ASSUME IInv, NEW r \in Req, Commit(r)
    PROVE  IInv'
<1>1. TypeOK'
      BY CommitTyped
<1>2. PICK h \in Handler : h = handler[r]
      BY DEF IInv, TypeOK
<1>3. /\ h.id \in Challenge /\ h.input.address \in Wallet
      /\ h.input.signature \in signed
      /\ h.input.signature.id = h.id
      /\ h.input.signature.address = h.input.address
      BY <1>2 DEF IInv, HandlerConsistent, Commit, Input
<1>4. End(r) /\ UNCHANGED <<cached, delivered, signed>>
      BY DEF Commit, memory, world
<1>5. CASE ~ (Unconsumed(h.id) /\ users[h.input.address] # None)
  <2>1. UNCHANGED <<rows, sessions>>
        BY <1>2, <1>5 DEF Commit
  <2>2. Stable /\ OnlyDeliveredSigned'
        BY <1>4, <2>1 DEF Stable, SameCopies, IInv, OnlyDeliveredSigned
  <2>. QED BY <1>1, <1>4, <2>2, EndStep, RequestStep DEF IInv
<1>6. CASE Unconsumed(h.id) /\ users[h.input.address] # None
  <2> DEFINE row == [rows[h.id] EXCEPT !.consumedAt = now]
             w == h.input.address
  <2>1. /\ rows' = [rows EXCEPT ![h.id] = row]
        /\ sessions' = [sessions EXCEPT ![h.id] =
                          [sessions[h.id] EXCEPT ![w] = sessions[h.id][w] + 1]]
        BY <1>2, <1>6 DEF Commit, OpenSession
  <2>2. rows[h.id] \in Row
        BY <1>3, <1>6 DEF Unconsumed, IInv, TypeOK
  <2>3. row \in Row /\ row.message = rows[h.id].message /\ row.consumedAt = now
        BY <2>2 DEF Row, IInv, TypeOK
  <2>4. row # None /\ row.consumedAt # None /\ rows[h.id] # None
        BY <1>6, <2>3, AuthNoneAssumption DEF IInv, TypeOK, Unconsumed
  <2> HIDE DEF row
  <2>5. rows'[h.id] = row /\ \A c \in Challenge \ {h.id} : rows'[c] = rows[c]
        BY <1>3, <2>1 DEF IInv, TypeOK
  <2>6. \A v \in Wallet : sessions[h.id][v] = 0
        BY <1>3, <1>6 DEF IInv, ConsumedIffSession, Consumed, Unconsumed, TypeOK
  <2>7. /\ \A v \in Wallet : sessions'[h.id][v] = IF v = w THEN 1 ELSE 0
        /\ \A c \in Challenge \ {h.id} : sessions'[c] = sessions[c]
        BY <1>3, <2>1, <2>6 DEF IInv, TypeOK
  <2>8. OneSessionPerChallenge'
        BY <1>3, <2>7 DEF IInv, OneSessionPerChallenge
  <2>9. ConsumedIffSession'
    <3>. SUFFICES ASSUME NEW c \in Challenge
                  PROVE  Consumed(c)' <=> \E v \in Wallet : sessions'[c][v] > 0
         BY DEF ConsumedIffSession
    <3>1. CASE c = h.id
          BY <1>3, <2>4, <2>5, <2>7, <3>1 DEF Consumed
    <3>2. CASE c # h.id
          BY <2>5, <2>7, <3>2 DEF Consumed, IInv, ConsumedIffSession
    <3>. QED BY <3>1, <3>2
  <2>10. h.input.signature.origin \in Allowed
    <3>1. h.input.signature \in delivered
          BY <1>3 DEF IInv, OnlyDeliveredSigned
    <3>2. rows[h.id] # None /\ rows[h.id].message = h.input.signature
          BY <1>3, <3>1 DEF IInv, OnlyDeliveredSigned
    <3>. QED BY <1>3, <3>2 DEF IInv, CopiesAgree
  <2>11. SessionSigned'
    <3>. SUFFICES ASSUME NEW c \in Challenge, NEW v \in Wallet, sessions'[c][v] > 0
                  PROVE  \E message \in signed : /\ message.id = c
                                                 /\ message.address = v
                                                 /\ message.origin \in Allowed
         BY <1>4 DEF SessionSigned
    <3>1. CASE c = h.id
      <4>1. v = w
            BY <2>7, <3>1
      <4>. QED BY <1>3, <2>10, <3>1, <4>1
    <3>2. CASE c # h.id
          BY <2>7, <3>2 DEF IInv, SessionSigned
    <3>. QED BY <3>1, <3>2
  <2>12. OneCopy'
        BY <1>4 DEF IInv, OneCopy
  <2>13. CopiesAgree'
        BY <1>4, <2>3, <2>4, <2>5 DEF IInv, CopiesAgree
  <2>14. OnlyDeliveredSigned'
    <3>1. \A message \in delivered : message.id \in Challenge
          BY DEF IInv, TypeOK, Message
    <3>. QED BY <1>4, <2>3, <2>4, <2>5, <3>1 DEF IInv, OnlyDeliveredSigned
  <2>15. ASSUME NEW s \in Req \ {r}
         PROVE  HandlerConsistent(handler[s])' /\ handler'[s] = handler[s]
    <3>1. HandlerConsistent(handler[s]) /\ handler'[s] = handler[s]
          BY <1>4, EndStep DEF IInv
    <3>2. handler[s].id \in Challenge =>
             (rows'[handler[s].id] = None <=> rows[handler[s].id] = None)
          BY <2>4, <2>5
    <3>. QED BY <1>4, <3>1, <3>2 DEF HandlerConsistent, Creating
  <2>16. HandlerConsistent(handler[r])' /\ ~ Creating(handler[r])'
        BY <1>4, EndStep DEF IInv
  <2>17. OwnIdentifiers'
        BY <2>15, <2>16 DEF IInv, OwnIdentifiers, Creating
  <2>. QED BY <1>1, <2>8, <2>9, <2>11, <2>12, <2>13, <2>14, <2>15, <2>16, <2>17
           DEF IInv
<1>. QED BY <1>5, <1>6

\* A restart forgets the requests that needed the forgotten Map.
LEMMA RestartKeeps ==
    ASSUME IInv, NEW p \in Proc, Restart(p)
    PROVE  IInv'
<1>1. TypeOK'
      BY RestartTyped DEF IInv
<1>2. /\ UNCHANGED <<rows, sessions, delivered, signed>>
      /\ handler' = [r \in Req |-> IF handler[r].at = p THEN Idle ELSE handler[r]]
      BY DEF Restart, database, world
<1>3. /\ \A c \in Challenge : cached'[p][c] = None
      /\ \A q \in Proc \ {p} : cached'[q] = cached[q]
      BY DEF Restart, IInv, TypeOK
<1>4. OneSessionPerChallenge' /\ ConsumedIffSession' /\ SessionSigned'
      BY <1>2 DEF IInv, OneSessionPerChallenge, ConsumedIffSession, SessionSigned,
         Consumed
<1>5. OneCopy'
      BY <1>3 DEF IInv, OneCopy
<1>6. CopiesAgree'
  <2>. SUFFICES ASSUME NEW c \in Challenge
                PROVE  /\ \A q \in Proc : cached'[q][c] # None =>
                             /\ cached'[q][c].message.id = c
                             /\ cached'[q][c].message.origin \in Allowed
                             /\ rows[c] # None =>
                                   rows[c].message = cached'[q][c].message
                       /\ rows[c] # None => /\ rows[c].message.id = c
                                            /\ rows[c].message.origin \in Allowed
       BY <1>2 DEF CopiesAgree
  <2>. QED BY <1>3 DEF IInv, CopiesAgree
<1>7. OnlyDeliveredSigned'
      BY <1>2 DEF IInv, OnlyDeliveredSigned
<1>8. ASSUME NEW r \in Req
      PROVE  HandlerConsistent(handler[r])'
  <2>1. CASE handler[r].at = p
        BY <1>2, <2>1 DEF Idle, HandlerConsistent, Creating
  <2>2. CASE handler[r].at # p
    <3>1. HandlerConsistent(handler[r]) /\ handler'[r] = handler[r]
          BY <1>2, <2>2 DEF IInv
    <3>2. handler[r].at \in Proc => cached'[handler[r].at] = cached[handler[r].at]
          BY <1>3, <2>2
    <3>. QED BY <1>2, <3>1, <3>2 DEF HandlerConsistent, Creating
  <2>. QED BY <2>1, <2>2
<1>9. \A r \in Req : Creating(handler[r])' => handler'[r] = handler[r]
      BY <1>2 DEF Creating, Idle
<1>10. OwnIdentifiers'
      BY <1>9 DEF IInv, OwnIdentifiers, Creating
<1>. QED BY <1>1, <1>4, <1>5, <1>6, <1>7, <1>8, <1>10 DEF IInv
-----------------------------------------------------------------------------
(* Theorems *)

LEMMA Initially == Init => IInv
<1>. SUFFICES ASSUME Init PROVE IInv
     OBVIOUS
<1>1. TypeOK
      BY InitTyped
<1>2. OneSessionPerChallenge /\ SessionSigned /\ ConsumedIffSession
      BY DEF Init, OneSessionPerChallenge, SessionSigned, ConsumedIffSession, Consumed
<1>3. OneCopy /\ CopiesAgree /\ OnlyDeliveredSigned
      BY DEF Init, OneCopy, CopiesAgree, OnlyDeliveredSigned
<1>4. (\A r \in Req : HandlerConsistent(handler[r])) /\ OwnIdentifiers
      BY DEF Init, Idle, HandlerConsistent, OwnIdentifiers, Creating
<1>. QED BY <1>1, <1>2, <1>3, <1>4 DEF IInv

LEMMA NextKeeps == IInv /\ [Next]_vars => IInv'
<1>. SUFFICES ASSUME IInv, [Next]_vars PROVE IInv'
     OBVIOUS
<1>1. ASSUME NEW r \in Req, Answer(r) \/ Throws(r)
      PROVE  IInv'
      BY <1>1, UpsertKeeps, CreateRowKeeps, DeliverKeeps, FindKeeps, CommitKeeps,
         ThrowsKeeps DEF Answer
<1>2. ASSUME NEW r \in Req, NEW p \in Proc, Arrive(r, p)
      PROVE  IInv'
      BY <1>2, IssueKeeps, VerifyCachedKeeps, VerifyUnknownKeeps DEF Arrive
<1>3. ASSUME NEW p \in Proc, Restart(p)
      PROVE  IInv'
      BY <1>3, RestartKeeps
<1>4. CASE Tick \/ Sign
      BY <1>4, OutsideKeeps
<1>5. CASE UNCHANGED vars
  <2>1. TypeOK'
        BY <1>5 DEF vars, IInv, TypeOK
  <2>2. Stable /\ OnlyDeliveredSigned' /\ UNCHANGED handler
        BY <1>5 DEF vars, Stable, SameCopies, IInv, OnlyDeliveredSigned
  <2>. QED BY <2>1, <2>2, RequestStep
<1>. QED BY <1>1, <1>2, <1>3, <1>4, <1>5 DEF Next

\* Every reachable state satisfies the inductive invariant.
THEOREM Invariant == Spec => []IInv
BY Initially, NextKeeps, PTL DEF Spec

\* Every variable has its type.
THEOREM TypeCorrect == Spec => []TypeOK
<1>1. IInv => TypeOK
      BY DEF IInv
<1>. QED BY <1>1, Invariant, PTL

\* A challenge opens one session at most, whatever processes it reaches.
THEOREM SessionOnce == Spec => []OneSessionPerChallenge
<1>1. IInv => OneSessionPerChallenge
      BY DEF IInv
<1>. QED BY <1>1, Invariant, PTL

\* Rows are consumed exactly by the sessions they open.
THEOREM ConsumedWithSession == Spec => []ConsumedIffSession
<1>1. IInv => ConsumedIffSession
      BY DEF IInv
<1>. QED BY <1>1, Invariant, PTL

\* A session belongs to the wallet that signed its challenge.
THEOREM SignedFor == Spec => []SessionSigned
<1>1. IInv => SessionSigned
      BY DEF IInv
<1>. QED BY <1>1, Invariant, PTL

\* Every process checks signatures against the message that was delivered.
THEOREM MessageAgreed == Spec => []OneMessage
<1>1. ASSUME IInv, NEW message \in delivered, NEW p \in Proc
      PROVE  IF cached[p][message.id] # None
             THEN cached[p][message.id].message = message
             ELSE /\ Stored(p, message.id) # None
                  /\ Stored(p, message.id).message = message
  <2>1. message.id \in Challenge /\ message \in Message
        BY <1>1 DEF IInv, TypeOK, Message
  <2>2. rows[message.id] # None /\ rows[message.id].message = message
        BY <1>1 DEF IInv, OnlyDeliveredSigned
  <2>3. CASE cached[p][message.id] # None
        BY <1>1, <2>1, <2>2, <2>3 DEF IInv, CopiesAgree
  <2>4. CASE cached[p][message.id] = None
    <3>1. Stored(p, message.id) = [message |-> message, used |-> Consumed(message.id)]
          BY <2>2 DEF Stored
    <3>2. Consumed(message.id) \in BOOLEAN
          BY DEF Consumed
    <3>3. Stored(p, message.id) \in Entry
          BY <2>1, <3>1, <3>2 DEF Entry
    <3>. QED BY <2>4, <3>1, <3>3, AuthNoneAssumption
  <2>. QED BY <2>3, <2>4
<1>2. IInv => OneMessage
      BY <1>1 DEF OneMessage
<1>. QED BY <1>2, Invariant, PTL
-----------------------------------------------------------------------------
(* Signing in implements SignIn *)

\* A step that changes none of what SignIn sees is a stutter.
LEMMA Unseen ==
    ASSUME UNCHANGED <<delivered, signed, sessions>>
    PROVE  UNCHANGED Book!vars
BY DEF Book!vars

\* A message is shown once: what was shown for its challenge before, if
\* anything, is that message.
LEMMA DeliverShows ==
    ASSUME IInv, NEW r \in Req, Deliver(r)
    PROVE  Book!Next \/ UNCHANGED Book!vars
<1> DEFINE p == handler[r].at
           c == handler[r].id
           message == cached[p][c].message
<1>1. /\ p \in Proc /\ c \in Challenge
      /\ cached[p][c] # None /\ rows[c] # None
      BY DEF Deliver, IInv, HandlerConsistent
<1>2. /\ message.id = c /\ message.origin \in Allowed
      /\ rows[c].message = message
      BY <1>1 DEF IInv, CopiesAgree
<1>3. message \in Message
      BY <1>1 DEF IInv, TypeOK, Entry
<1>4. message \in Offered
      BY <1>2, <1>3 DEF Message, Offered
<1>5. delivered' = delivered \union {message} /\ UNCHANGED <<signed, sessions>>
      BY DEF Deliver, database
<1> HIDE DEF message, p, c
<1>6. CASE message \in delivered
      BY <1>5, <1>6, Unseen
<1>7. CASE message \notin delivered
  <2>1. \A other \in delivered : other.id # message.id
        BY <1>2, <1>7 DEF IInv, OnlyDeliveredSigned
  <2>2. Book!Show(message)
        BY <1>4, <1>5, <2>1 DEF Book!Show
  <2>3. message \in delivered'
        BY <1>5
  <2>. QED BY <2>2, <2>3 DEF Book!Next
<1>. QED BY <1>6, <1>7

\* The transaction opens the first session of its challenge, or none.
LEMMA CommitOpens ==
    ASSUME IInv, NEW r \in Req, Commit(r)
    PROVE  Book!Next \/ UNCHANGED Book!vars
<1> DEFINE c == handler[r].id
           message == handler[r].input.signature
           w == handler[r].input.address
<1>1. /\ c \in Challenge /\ message \in signed
      /\ message.id = c /\ message.address = w
      BY DEF Commit, IInv, HandlerConsistent
<1>2. w \in Wallet
      BY <1>1 DEF IInv, TypeOK, Message
<1>3. UNCHANGED <<delivered, signed>>
      BY DEF Commit, world
<1>4. CASE Unconsumed(c) /\ users[w] # None
  <2>1. sessions' = [sessions EXCEPT ![c][w] = @ + 1]
        BY <1>4 DEF Commit, OpenSession
  <2>2. \A v \in Wallet : sessions[c][v] = 0
    <3>1. ~ Consumed(c)
          BY <1>4 DEF Consumed, Unconsumed
    <3>2. \A v \in Wallet : sessions[c][v] \in Nat /\ ~ sessions[c][v] > 0
          BY <1>1, <3>1 DEF IInv, ConsumedIffSession, TypeOK
    <3> HIDE DEF c
    <3>. QED BY <3>2
  <2>3. sessions' = [sessions EXCEPT ![c][w] = 1]
    <3> HIDE DEF c, w
    <3>1. sessions[c][w] + 1 = 1
          BY <1>2, <2>2
    <3>2. sessions' = [sessions EXCEPT ![c] =
                         [sessions[c] EXCEPT ![w] = sessions[c][w] + 1]]
          BY <2>1
    <3>. QED BY <3>1, <3>2
  <2> HIDE DEF c, w, message
  <2>4. Book!Open(message)
        BY <1>1, <1>3, <2>2, <2>3 DEF Book!Open
  <2>. QED BY <1>1, <2>4 DEF Book!Next
<1>5. CASE ~ (Unconsumed(c) /\ users[w] # None)
  <2>1. UNCHANGED sessions
        BY <1>5 DEF Commit
  <2>. QED BY <1>3, <2>1, Unseen
<1>. QED BY <1>4, <1>5

LEMMA StepImplements ==
    ASSUME IInv, [Next]_vars
    PROVE  [Book!Next]_(Book!vars)
<1>1. ASSUME NEW r \in Req, Answer(r)
      PROVE  Book!Next \/ UNCHANGED Book!vars
  <2>1. CASE Deliver(r)
        BY <2>1, DeliverShows
  <2>2. CASE Commit(r)
        BY <2>2, CommitOpens
  <2>3. CASE UpsertIdentity(r) \/ CreateRow(r) \/ Find(r)
        BY <2>3, Unseen DEF UpsertIdentity, CreateRow, Find, database, world
  <2>. QED BY <1>1, <2>1, <2>2, <2>3 DEF Answer
<1>2. CASE Sign
  <2>1. PICK message \in delivered : signed' = signed \union {message}
        BY <1>2 DEF Sign
  <2>2. Book!Sign(message)
        BY <1>2, <2>1 DEF Sign, Book!Sign, database
  <2>. QED BY <2>2 DEF Book!Next
<1>3. ASSUME \/ \E r \in Req : Throws(r)
             \/ \E r \in Req, p \in Proc : Arrive(r, p)
             \/ \E p \in Proc : Restart(p)
             \/ Tick
             \/ UNCHANGED vars
      PROVE  UNCHANGED Book!vars
  <2>1. CASE \E r \in Req, p \in Proc : Arrive(r, p)
    <3>1. UNCHANGED <<database, world>>
          BY <2>1 DEF Arrive, Issue, VerifyCached, VerifyUnknown
    <3>. QED BY <3>1, Unseen DEF database, world
  <2>2. CASE \/ \E r \in Req : Throws(r)
             \/ \E p \in Proc : Restart(p)
             \/ Tick
             \/ UNCHANGED vars
        BY <2>2, Unseen DEF Throws, Restart, Tick, vars, database, world
  <2>. QED BY <1>3, <2>1, <2>2
<1>. QED BY <1>1, <1>2, <1>3 DEF Next

\* To clients and database, processes with Maps of their own that fail and
\* restart are one book in which a challenge is shown as one message and
\* opens one session, for the wallet that signed it.
THEOREM Refinement == Spec => ImplementsSignIn
<1>1. Init => Book!Init
      BY DEF Init, Book!Init
<1>. QED BY <1>1, StepImplements, Invariant, PTL DEF Spec, ImplementsSignIn, Book!Spec
=============================================================================
