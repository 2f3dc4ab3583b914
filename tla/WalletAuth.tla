----------------------------- MODULE WalletAuth -----------------------------
(***************************************************************************)
(* Signing in with a wallet (apps/api/src/auth): a process hands out a     *)
(* one-time message, the wallet signs it, and a signature over it opens a  *)
(* session.  Processes share the database and have a memory of their own.  *)
(***************************************************************************)
EXTENDS Integers

CONSTANTS Proc, Req,      \* API processes, slots for requests in flight
          Challenge,      \* challenge identifiers (randomUUID)
          Wallet,         \* addresses
          Origin, Allowed,\* origins, and those PUBLIC_ORIGIN lists
          Network,
          Faults,         \* which failures happen
          Lifetime,       \* how long a challenge can be signed in with
          MaxNow,         \* bound on the clock
          None

\* What the wallet signs names everything the challenge is about.
Message == [id : Challenge, address : Wallet, origin : Origin,
            network : Network, expiresAt : Nat]
Entry == [message : Message, used : BOOLEAN]
Row == [message : Message, consumedAt : Nat \union {None}]
Input == [address : Wallet, origin : Origin, signature : Message \union {None}]

ASSUME AuthAssumption == /\ Allowed \subseteq Origin
                         /\ Faults \subseteq {"throw", "restart"}
                         /\ Lifetime \in Nat \ {0}
                         /\ MaxNow \in Nat

ASSUME AuthNoneAssumption == /\ None \notin Proc \union Challenge \union Network
                             /\ None \notin Message \union Entry \union Row
                             /\ None \notin Input
                             /\ None \notin Nat

VARIABLES now,
          users,          \* DB: users[w], the network of WalletIdentity, or None
          rows,           \* DB: rows[c], the AuthChallenge row, or None
          sessions,       \* DB: sessions[c][w], UserSession rows w opened with c
          cached,         \* cached[p][c]: the challenges Map of process p
          settings,       \* settings[p]: the network p was started for
          handler,        \* handler[r]: the request in slot r
          delivered,      \* the messages that reached a client
          signed          \* the messages a wallet signed, at the owner's wish

database == <<users, rows, sessions>>
memory == <<cached, settings>>
world == <<now, delivered, signed>>
vars == <<now, users, rows, sessions, cached, settings, handler, delivered, signed>>

Idle == [pc |-> "idle", at |-> None, id |-> None, input |-> None]

Begin(r, h) == handler[r] = Idle /\ handler' = [handler EXCEPT ![r] = h]
Goto(r, pc) == handler' = [handler EXCEPT ![r].pc = pc]
End(r) == handler' = [handler EXCEPT ![r] = Idle]

Consumed(c) == rows[c] # None /\ rows[c].consumedAt # None
Unconsumed(c) == rows[c] # None /\ rows[c].consumedAt = None

\* A slip of Stored: the message is rebuilt for the network of the process.
StoredForThisNetwork(p, c) ==
    IF rows[c] = None THEN None
    ELSE [message |-> [rows[c].message EXCEPT !.network = settings[p]],
          used |-> Consumed(c)]

\* The challenge and its message rebuilt from the row.
Stored(p, c) == IF rows[c] = None THEN None
                ELSE [message |-> rows[c].message, used |-> Consumed(c)]

\* A slip of Accepts: any signature will do.
AcceptsUnsigned(challenge, input) ==
    /\ challenge # None
    /\ ~ challenge.used
    /\ now < challenge.message.expiresAt
    /\ input.address = challenge.message.address
    /\ input.origin = challenge.message.origin

\* The checks of verify.  A wallet's signature verifies for the message it
\* signed and its own address.
Accepts(challenge, input) ==
    /\ challenge # None
    /\ ~ challenge.used
    /\ now < challenge.message.expiresAt
    /\ input.address = challenge.message.address
    /\ input.origin = challenge.message.origin
    /\ input.signature = challenge.message
-----------------------------------------------------------------------------
(* POST /api/auth/challenge *)

\* The message enters the Map before anything is awaited.
Issue(r, p, c, w, o) ==
    /\ o \in Allowed
    /\ rows[c] = None /\ \A q \in Proc : cached[q][c] = None
    /\ cached' = [cached EXCEPT ![p][c] =
                    [message |-> [id |-> c, address |-> w, origin |-> o,
                                  network |-> settings[p],
                                  expiresAt |-> now + Lifetime],
                     used |-> FALSE]]
    /\ Begin(r, [pc |-> "upsert", at |-> p, id |-> c, input |-> None])
    /\ UNCHANGED <<settings, database, world>>

\* A slip of UpsertIdentity: the creation of the row is not awaited.
UpsertUnawaited(r) ==
    /\ handler[r].pc = "upsert"
    /\ LET message == cached[handler[r].at][handler[r].id].message
       IN users' = [users EXCEPT ![message.address] = message.network]
    /\ Goto(r, "deliver")
    /\ UNCHANGED <<rows, sessions, memory, world>>

\* The wallet's identity is created, or moved to this network.
UpsertIdentity(r) ==
    /\ handler[r].pc = "upsert"
    /\ LET message == cached[handler[r].at][handler[r].id].message
       IN users' = [users EXCEPT ![message.address] = message.network]
    /\ Goto(r, "create")
    /\ UNCHANGED <<rows, sessions, memory, world>>

\* A slip of CreateRow: the column is not null, -1 means not consumed.
CreateRowWithSentinel(r) ==
    /\ handler[r].pc = "create"
    /\ LET c == handler[r].id
       IN rows' = [rows EXCEPT ![c] =
                     [message |-> cached[handler[r].at][c].message,
                      consumedAt |-> -1]]
    /\ Goto(r, "deliver")
    /\ UNCHANGED <<users, sessions, memory, world>>

CreateRow(r) ==
    /\ handler[r].pc = "create"
    /\ LET c == handler[r].id
       IN rows' = [rows EXCEPT ![c] =
                     [message |-> cached[handler[r].at][c].message,
                      consumedAt |-> None]]
    /\ Goto(r, "deliver")
    /\ UNCHANGED <<users, sessions, memory, world>>

Deliver(r) ==
    /\ handler[r].pc = "deliver"
    /\ delivered' = delivered \union {cached[handler[r].at][handler[r].id].message}
    /\ End(r)
    /\ UNCHANGED <<now, signed, database, memory>>
-----------------------------------------------------------------------------
(* POST /api/auth/verify *)

\* A challenge in the Map is checked and marked used with no await between.
VerifyCached(r, p, c, input) ==
    /\ cached[p][c] # None
    /\ Accepts(cached[p][c], input)
    /\ cached' = [cached EXCEPT ![p][c].used = TRUE]
    /\ Begin(r, [pc |-> "commit", at |-> p, id |-> c, input |-> input])
    /\ UNCHANGED <<settings, database, world>>

\* Any other is looked up first.
VerifyUnknown(r, p, c, input) ==
    /\ cached[p][c] = None
    /\ Begin(r, [pc |-> "find", at |-> p, id |-> c, input |-> input])
    /\ UNCHANGED <<database, memory, world>>

\* The mark on a challenge rebuilt from its row is lost with the request.
Find(r) ==
    /\ handler[r].pc = "find"
    /\ IF Accepts(Stored(handler[r].at, handler[r].id), handler[r].input)
       THEN Goto(r, "commit")
       ELSE End(r)
    /\ UNCHANGED <<database, memory, world>>

OpenSession(c, w) == sessions' = [sessions EXCEPT ![c][w] = @ + 1]

\* A slip of Commit: the update does not ask for an unconsumed row.
CommitUnconditionally(r) ==
    LET c == handler[r].id
        w == handler[r].input.address
    IN /\ handler[r].pc = "commit"
       /\ rows' = [rows EXCEPT ![c].consumedAt = now]
       /\ OpenSession(c, w)
       /\ End(r)
       /\ UNCHANGED <<users, memory, world>>

\* A slip of Commit: the update is outside the transaction, which may fail.
CommitInTwoSteps(r) ==
    LET c == handler[r].id
    IN /\ handler[r].pc = "commit"
       /\ IF Unconsumed(c)
          THEN /\ rows' = [rows EXCEPT ![c].consumedAt = now]
               /\ OpenSession(c, handler[r].input.address) \/ UNCHANGED sessions
          ELSE UNCHANGED <<rows, sessions>>
       /\ End(r)
       /\ UNCHANGED <<users, memory, world>>

\* A slip of Commit: the mark in the Map is checked once more.
CommitCheckingUsed(r) ==
    LET c == handler[r].id
        challenge == cached[handler[r].at][c]
    IN /\ handler[r].pc = "commit"
       /\ IF /\ Unconsumed(c)
             /\ challenge # None => ~ challenge.used
          THEN /\ rows' = [rows EXCEPT ![c].consumedAt = now]
               /\ OpenSession(c, handler[r].input.address)
          ELSE UNCHANGED <<rows, sessions>>
       /\ End(r)
       /\ UNCHANGED <<users, memory, world>>

\* The transaction: the conditional update, the wallet, the session, or none.
Commit(r) ==
    LET c == handler[r].id
        w == handler[r].input.address
    IN /\ handler[r].pc = "commit"
       /\ IF Unconsumed(c) /\ users[w] # None
          THEN /\ rows' = [rows EXCEPT ![c].consumedAt = now]
               /\ OpenSession(c, w)
          ELSE UNCHANGED <<rows, sessions>>
       /\ End(r)
       /\ UNCHANGED <<users, memory, world>>
-----------------------------------------------------------------------------
(* Failures and the outside world *)

Throws(r) == /\ "throw" \in Faults
             /\ handler[r].pc \in {"upsert", "create", "deliver", "find", "commit"}
             /\ End(r)
             /\ UNCHANGED <<database, memory, world>>

Restart(p) ==
    /\ "restart" \in Faults
    /\ cached' = [cached EXCEPT ![p] = [c \in Challenge |-> None]]
    /\ \E network \in Network : settings' = [settings EXCEPT ![p] = network]
    /\ handler' = [r \in Req |-> IF handler[r].at = p THEN Idle ELSE handler[r]]
    /\ UNCHANGED <<database, world>>

Tick == /\ now < MaxNow
        /\ now' = now + 1
        /\ UNCHANGED <<delivered, signed, database, memory, handler>>

\* The owner of a wallet signs the message shown.
Sign == /\ \E message \in delivered : signed' = signed \union {message}
        /\ UNCHANGED <<now, delivered, database, memory, handler>>
-----------------------------------------------------------------------------
Init == /\ now = 0
        /\ users = [w \in Wallet |-> None]
        /\ rows = [c \in Challenge |-> None]
        /\ sessions = [c \in Challenge |-> [w \in Wallet |-> 0]]
        /\ cached = [p \in Proc |-> [c \in Challenge |-> None]]
        /\ settings \in [Proc -> Network]
        /\ handler = [r \in Req |-> Idle]
        /\ delivered = {}
        /\ signed = {}

Answer(r) == \/ UpsertIdentity(r) \/ CreateRow(r) \/ Deliver(r)
             \/ Find(r) \/ Commit(r)

\* Inputs: some wallet and origin, with a signature made, or none that is.
Inputs == [address : Wallet, origin : Origin, signature : signed \union {None}]

Arrive(r, p) ==
    \/ \E c \in Challenge, w \in Wallet, o \in Origin : Issue(r, p, c, w, o)
    \/ \E c \in Challenge, input \in Inputs :
          VerifyCached(r, p, c, input) \/ VerifyUnknown(r, p, c, input)

Next == \/ \E r \in Req : Answer(r) \/ Throws(r)
        \/ \E r \in Req, p \in Proc : Arrive(r, p)
        \/ \E p \in Proc : Restart(p)
        \/ Tick
        \/ Sign

Spec == Init /\ [][Next]_vars

\* Awaited calls are answered sooner or later.
FairSpec == Spec /\ \A r \in Req : WF_vars(Answer(r))
-----------------------------------------------------------------------------
(* Properties *)

Handler == [pc : {"idle", "upsert", "create", "deliver", "find", "commit"},
            at : Proc \union {None}, id : Challenge \union {None},
            input : Input \union {None}]

\* Every variable has its type.
TypeOK == /\ now \in Nat
          /\ users \in [Wallet -> Network \union {None}]
          /\ rows \in [Challenge -> Row \union {None}]
          /\ sessions \in [Challenge -> [Wallet -> Nat]]
          /\ cached \in [Proc -> [Challenge -> Entry \union {None}]]
          /\ settings \in [Proc -> Network]
          /\ handler \in [Req -> Handler]
          /\ delivered \subseteq Message
          /\ signed \subseteq Message

\* A signed message opens at most one session, in whichever processes it is
\* presented at once and although a process forgets its Map at a restart.
OneSessionPerChallenge ==
    \A c \in Challenge, w \in Wallet : sessions[c][w] > 0 =>
       /\ sessions[c][w] = 1
       /\ \A v \in Wallet \ {w} : sessions[c][v] = 0

\* A challenge row is consumed exactly when its session exists, so a failed
\* sign-in never spends the row and a session never leaves it open.
ConsumedIffSession ==
    \A c \in Challenge : Consumed(c) <=> \E w \in Wallet : sessions[c][w] > 0

\* Whoever holds a session signed that challenge's message with that wallet,
\* and asked for it from an allowed origin.
SessionSigned ==
    \A c \in Challenge, w \in Wallet : sessions[c][w] > 0 =>
       \E message \in signed : /\ message.id = c
                               /\ message.address = w
                               /\ message.origin \in Allowed

\* A delivered message stays the message every process checks signatures
\* against, after restarts into another network too.
OneMessage ==
    \A message \in delivered, p \in Proc :
       LET c == message.id
       IN IF cached[p][c] # None
          THEN cached[p][c].message = message
          ELSE Stored(p, c) # None /\ Stored(p, c).message = message

\* Strengthenings of the above.  A challenge is in one Map at most, and its
\* copies agree; what was delivered is stored, and only that is signed.
OneCopy == \A p, q \in Proc, c \in Challenge :
              cached[p][c] # None /\ cached[q][c] # None => p = q

CopiesAgree ==
    \A c \in Challenge :
       /\ \A p \in Proc : cached[p][c] # None =>
             /\ cached[p][c].message.id = c
             /\ cached[p][c].message.origin \in Allowed
             /\ rows[c] # None => rows[c].message = cached[p][c].message
       /\ rows[c] # None => /\ rows[c].message.id = c
                            /\ rows[c].message.origin \in Allowed

OnlyDeliveredSigned ==
    /\ \A message \in delivered : /\ rows[message.id] # None
                                  /\ rows[message.id].message = message
    /\ signed \subseteq delivered

\* What a request knows at the await it is at.
Creating(h) == h.pc \in {"upsert", "create"}

HandlerConsistent(h) ==
    /\ h.pc # "idle" => h.at \in Proc /\ h.id \in Challenge
    /\ Creating(h) => cached[h.at][h.id] # None /\ rows[h.id] = None
    /\ h.pc = "deliver" => cached[h.at][h.id] # None /\ rows[h.id] # None
    /\ h.pc \in {"find", "commit"} =>
          h.input \in Input /\ h.input.signature \in signed \union {None}
    /\ h.pc = "commit" => /\ h.input.signature # None
                          /\ h.input.signature.id = h.id
                          /\ h.input.signature.address = h.input.address

OwnIdentifiers ==
    \A r, s \in Req : /\ Creating(handler[r]) /\ Creating(handler[s])
                      /\ handler[r].id = handler[s].id
                      => r = s

\* The inductive invariant.
IInv == /\ TypeOK
        /\ OneSessionPerChallenge
        /\ ConsumedIffSession
        /\ SessionSigned
        /\ OneCopy
        /\ CopiesAgree
        /\ OnlyDeliveredSigned
        /\ \A r \in Req : HandlerConsistent(handler[r])
        /\ OwnIdentifiers

\* When nothing fails, an accepted signature ends with its challenge consumed.
AcceptedOpensSession ==
    \A r \in Req, c \in Challenge :
       (handler[r].pc = "commit" /\ handler[r].id = c) ~> Consumed(c)
-----------------------------------------------------------------------------
(* Signing in implements SignIn *)

Offered == [id : Challenge, address : Wallet, origin : Allowed,
            network : Network, expiresAt : Nat]

Book == INSTANCE SignIn WITH Message <- Offered, shown <- delivered

\* Whatever the processes forget and whatever fails between two steps, the
\* clients and the database see one message a challenge, and one session for
\* the wallet that signed it.
ImplementsSignIn == Book!Spec
=============================================================================
