---------------------------- MODULE SessionAgent ----------------------------
(***************************************************************************)
(* What EnsureAgent promises the logins that call it, whatever it does to  *)
(* keep the promise: a login asks for an agent and is told of one, or is   *)
(* refused; a login that is told has a live agent behind the fixed socket, *)
(* and keeps it until something outside the lifecycle breaks the promise.  *)
(***************************************************************************)
CONSTANTS Logins

VARIABLES
    up,        \* does the fixed socket lead to an agent that answers?
    phase,     \* where each login stands
    promised   \* the logins the lifecycle still answers for

avars == <<up, phase, promised>>

Init ==
    /\ up = FALSE
    /\ phase = [l \in Logins |-> "idle"]
    /\ promised = {}

(* A login asks; while others race without the lock it is promised nothing *)
Ask(l) ==
    /\ phase[l] = "idle"
    /\ phase' = [phase EXCEPT ![l] = "asking"]
    /\ promised' \in {promised, promised \cup {l}}
    /\ UNCHANGED up

(* Somebody who asked gets an agent up.                                    *)
Raise ==
    /\ \E l \in Logins : phase[l] = "asking"
    /\ up' = TRUE
    /\ UNCHANGED <<phase, promised>>

(* A login is told of the agent: a live one, if it was promised one, and   *)
(* it costs nobody else a live one that was promised.                      *)
Tell(l) ==
    /\ phase[l] = "asking"
    /\ phase' = [phase EXCEPT ![l] = "done"]
    /\ up' \in BOOLEAN
    /\ l \in promised => up'
    /\ up /\ promised # {} => up'
    /\ UNCHANGED promised

Refuse(l) ==
    /\ phase[l] = "asking"
    /\ phase' = [phase EXCEPT ![l] = "failed"]
    /\ UNCHANGED <<up, promised>>

Quit(l) ==
    /\ phase[l] # "idle"
    /\ phase' = [phase EXCEPT ![l] = "idle"]
    /\ promised' = promised \ {l}
    /\ UNCHANGED up

(* The outside moves, a login goes ahead without the lock, or an agent     *)
(* told to end cleans up late, where another has taken its place: nothing  *)
(* that was promised stands, and the agent may go. It goes in no other way.*)
Break ==
    /\ promised' = {}
    /\ up' \in BOOLEAN
    /\ UNCHANGED phase

Next ==
    \/ \E l \in Logins : Ask(l) \/ Tell(l) \/ Refuse(l) \/ Quit(l)
    \/ Raise \/ Break

Spec == Init /\ [][Next]_avars
=============================================================================
