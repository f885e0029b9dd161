----------------------------- MODULE Lifecycle ------------------------------
(***************************************************************************)
(* What Start and Stop promise, the client's (internal/engine/client.go)   *)
(* and the app bindings' (exports.go), without locks, connections, devices *)
(* and packets: one of them runs at a time; the goroutine that reads       *)
(* begins only once the connection stands, may end by itself, and never    *)
(* outlives the Stop that leads down again.                                *)
(*                                                                         *)
(* Where stops are good only once, whoever comes up again stays up.        *)
(***************************************************************************)
CONSTANT Once    \* TRUE if only the first Stop has an effect

VARIABLES
    stage,    \* "down", "rising", "linked", "up", "falling"
    reading,  \* the goroutine that reads is there
    spent     \* a Stop would have no effect

absVars == <<stage, reading, spent>>

Init == stage = "down" /\ reading = FALSE /\ spent = FALSE

Moves(from, to) == stage = from /\ stage' = to

Begin == Moves("down", "rising") /\ UNCHANGED <<reading, spent>>

Fail == Moves("rising", "down") /\ UNCHANGED <<reading, spent>>

\* The connection stands.  The reader is started with it, later, or not at all.
Link == Moves("rising", "linked") /\ reading' \in BOOLEAN /\ UNCHANGED spent

Listen == stage = "linked" /\ ~reading /\ reading' = TRUE /\ UNCHANGED <<stage, spent>>

Rise == Moves("linked", "up") /\ UNCHANGED <<reading, spent>>

Halt == Moves("up", "falling") /\ ~spent /\ spent' = Once /\ UNCHANGED reading

Land == Moves("falling", "down") /\ ~reading /\ UNCHANGED <<reading, spent>>

\* The reader ends, told to or not.
Deafen == reading /\ reading' = FALSE /\ UNCHANGED <<stage, spent>>

Next == Begin \/ Fail \/ Link \/ Listen \/ Rise \/ Halt \/ Land \/ Deafen

Spec == Init /\ [][Next]_absVars
=============================================================================
