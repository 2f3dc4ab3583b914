------------------------------- MODULE SignIn -------------------------------
(***************************************************************************)
(* What signing in with a wallet promises, with no processes, Maps, rows,  *)
(* clocks or failures.                                                     *)
(*                                                                         *)
(* A challenge is shown as one message and never as another.  Its owner    *)
(* may sign what was shown.  A signed message opens one session, for the   *)
(* wallet it names, and that is the only one its challenge ever opens.     *)
(* WalletAuth is shown to implement this module.                           *)
(***************************************************************************)
EXTENDS Integers

CONSTANTS Challenge,      \* identifiers of challenges
          Wallet,         \* addresses
          Message         \* what may be shown: an id and an address among others

VARIABLES shown,          \* the messages that were shown
          signed,         \* those that were signed
          sessions        \* sessions[c][w]: the sessions w opened with c

vars == <<shown, signed, sessions>>

Init == /\ shown = {}
        /\ signed = {}
        /\ sessions = [c \in Challenge |-> [w \in Wallet |-> 0]]

Show(message) == /\ message \in Message
                 /\ \A other \in shown : other.id # message.id
                 /\ shown' = shown \union {message}
                 /\ UNCHANGED <<signed, sessions>>

Sign(message) == /\ signed' = signed \union {message}
                 /\ UNCHANGED <<shown, sessions>>

Open(message) ==
    /\ \A w \in Wallet : sessions[message.id][w] = 0
    /\ sessions' = [sessions EXCEPT ![message.id][message.address] = 1]
    /\ UNCHANGED <<shown, signed>>

Next == \/ \E message \in shown' : Show(message)
        \/ \E message \in shown : Sign(message)
        \/ \E message \in signed : Open(message)

Spec == Init /\ [][Next]_vars
=============================================================================
