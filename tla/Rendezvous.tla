----------------------------- MODULE Rendezvous -----------------------------
(***************************************************************************)
(* What PerformClientHandshake and PerformServerHandshake promise together *)
(* (internal/shred/handshake.go), without messages, clocks and replay      *)
(* state: a session is opened only for an attempt that a client has made,  *)
(* a client holds a tunnel open only when there is a session for that      *)
(* attempt, and whatever was decided is final.                             *)
(*                                                                         *)
(* Nothing is promised about how many sessions one attempt opens.          *)
(***************************************************************************)
EXTENDS Naturals

CONSTANTS
    Attempts,   \* client attempts, numbered from 1
    Handlers    \* server goroutines

VARIABLES
    asked,      \* attempts that have been made
    session,    \* the attempt each handler has opened a session for (0: none)
    open,       \* attempts whose client holds the tunnel open
    gaveUp      \* attempts that have failed

absVars == <<asked, session, open, gaveUp>>

Init ==
    /\ asked = {}
    /\ session = [h \in Handlers |-> 0]
    /\ open = {}
    /\ gaveUp = {}

Ask(a) ==
    /\ a \notin asked
    /\ asked' = asked \cup {a}
    /\ UNCHANGED <<session, open, gaveUp>>

Serve(h, a) ==
    /\ a \in asked
    /\ session[h] = 0
    /\ session' = [session EXCEPT ![h] = a]
    /\ UNCHANGED <<asked, open, gaveUp>>

Undecided(a) == a \in asked \ (open \cup gaveUp)

Connect(a) ==
    /\ Undecided(a)
    /\ \E h \in Handlers : session[h] = a
    /\ open' = open \cup {a}
    /\ UNCHANGED <<asked, session, gaveUp>>

GiveUp(a) ==
    /\ Undecided(a)
    /\ gaveUp' = gaveUp \cup {a}
    /\ UNCHANGED <<asked, session, open>>

Decide(a) == Connect(a) \/ GiveUp(a)

Next ==
    \/ \E a \in Attempts : Ask(a)
    \/ \E h \in Handlers, a \in Attempts : Serve(h, a)
    \/ \E a \in Attempts : Decide(a)

Spec == Init /\ [][Next]_absVars
=============================================================================
