-------------------------- MODULE MCAgentLifecycle --------------------------
(* Instances of AgentLifecycle for TLC.                                    *)
EXTENDS AgentLifecycle, TLC
CONSTANTS f1, f2, l1, l2
Symm == Permutations(Logins)

(* Bound: while a login races that has gone on without the lock, the world *)
(* around it moves once at most, and not at all where an agent that was    *)
(* told to end still runs.                                                 *)
RacesApart ==
    (\E l \in Logins : met[l] = "race")
    => outside <= IF \E p \in sig : st[p] = "ok" THEN 0 ELSE 1

(* What tells states apart where no agent answers after it missed a probe. *)
(* An agent that hangs never gets to its SIGTERM; the record matters to    *)
(* the logins it names the agent of; a process that is gone, and on        *)
(* nobody's list, matters by the path of Elsewhere it has used up, and the *)
(* socket it left by being nobody's.                                       *)
Forgotten(p) == st[p] = "gone" /\ \A l \in Logins : p \notin list[l] \cup found[l] \cup {cur[l], started[l]}
Seen == <<[f \in Places |-> IF Kind(f) = "sock" /\ Forgotten(fs[f].pid) THEN SockOf(NoPid) ELSE fs[f]], st,
          [p \in Pids |-> IF Forgotten(p) THEN NoPath ELSE sock[p]], {p \in sig : st[p] = "ok"},
          {sock[p] : p \in Pids}\cap Elsewhere,
          {l \in Logins : state = started[l]}, lock, pc, list, cur, found, started, met, outside>>

(* l2 may stop for good wherever it is, holding the lock or not.           *)
StuckSpec == Spec /\ Fairness({l2})
OthersEnd == EveryLoginEnds({l2})
=============================================================================
