------------------------------ MODULE Console ------------------------------
(***************************************************************************)
(* What the operations of web/serialfs.js promise one another: the serial  *)
(* console, which only one can type at, is asked for, worked at, handed    *)
(* back and let go, in this order, by one call at a time, and always let   *)
(* go in the end.  It is the contract by which the modules compose:        *)
(* Overlay, which knows no more of a call than these stages, and           *)
(* Checkpoint and Transfer, which have the protocols, all implement it.    *)
(***************************************************************************)
CONSTANT Calls

VARIABLE stage   \* how far each call is

\* A call has not come to the latch, looks for a prompt, works, hands back, is over.
Stages == {"idle", "ask", "work", "leave", "over"}
InUse  == {"ask", "work", "leave"}

Free == \A c \in Calls : stage[c] \notin InUse

Init == stage = [c \in Calls |-> "idle"]

Comes(c, from, to) ==
    /\ stage[c] = from
    /\ \E s \in to : stage' = [stage EXCEPT ![c] = s]

\* The latch: nobody is at the console.  rollback() asks for no prompt.
Take(c) == Free /\ Comes(c, "idle", {"ask", "work"})

\* A second click, nothing to do, or a throw before anything was typed.
GoAway(c) == Comes(c, "idle", {"over"})

\* The prompt decides; where there is none, and nothing to hand back, that is all.
Asked(c) == Comes(c, "ask", {"work", "leave", "over"})

\* The finally block; or the body has handed the console back itself.
Worked(c) == Comes(c, "work", {"leave", "over"})

HandBack(c) == Comes(c, "leave", {"over"})

Next == \E c \in Calls : Take(c) \/ GoAway(c) \/ Asked(c) \/ Worked(c) \/ HandBack(c)

Spec == Init /\ [][Next]_stage

\* Nobody keeps the console.
LetsGo == ~Free ~> Free

Promise == Spec /\ LetsGo
=============================================================================
