---------------------------- MODULE AgentService -----------------------------
(***************************************************************************)
(* The agent where it is a service of the system's and not a process of    *)
(* ours: a login asks whether the endpoint answers, and if not asks the    *)
(* service manager what the service is doing, requests a start once, polls *)
(* until it runs or the budget is spent, and asks the endpoint again.  Any *)
(* number of logins do so at once, with no lock of their own; the service  *)
(* manager is what puts their requests in a row.                           *)
(*                                                                         *)
(* The service takes its time, may fail to stay up, and may be stopped,    *)
(* disabled or enabled by an administrator.                                *)
(***************************************************************************)
EXTENDS Naturals

CONSTANTS
  SvLogins,
  PollBudget,    \* how often a login asks again within serviceStartWait
  MaxSvTroubles  \* what goes wrong with the service or a call

ASSUME AgentServiceAssumption == {PollBudget, MaxSvTroubles} \subseteq Nat

VARIABLES
  svState,    \* what the service is doing
  svListens,  \* it answers on its endpoint
  svStart,    \* it may be started
  svAt,       \* what each login is at
  svAsked,    \* it has asked for a start: started, asked
  svPolls,    \* how often it has waited
  svResult,
  svTroubles

svService == <<svState, svListens, svStart>>
svVars == <<svService, svAt, svAsked, svPolls, svResult, svTroubles>>

AgentServiceInit ==
  /\ svState = "stopped" /\ svListens = FALSE /\ svStart = "on_demand"
  /\ svAt = [l \in SvLogins |-> "idle"] /\ svAsked = [l \in SvLogins |-> FALSE]
  /\ svPolls = [l \in SvLogins |-> 0] /\ svResult = [l \in SvLogins |-> "none"]
  /\ svTroubles = 0

Trouble == svTroubles < MaxSvTroubles /\ svTroubles' = svTroubles + 1
SvGoes(l, to) == svAt' = [svAt EXCEPT ![l] = to] /\ UNCHANGED svResult
SvEnds(l, result) == svAt' = [svAt EXCEPT ![l] = "done"] /\ svResult' = [svResult EXCEPT ![l] = result]
-----------------------------------------------------------------------------
(* A login: ServiceAgent.EnsureAgent.                                       *)

LogsIn(l) ==
  /\ svAt[l] = "idle" /\ SvGoes(l, "probe")
  /\ UNCHANGED <<svService, svAsked, svPolls, svTroubles>>

(* Prober.Reachable: silence is silence, whatever the service is doing.     *)
Probes(l) ==
  /\ svAt[l] = "probe"
  /\ \/ svListens /\ SvEnds(l, "healthy") /\ UNCHANGED svTroubles
     \/ ~svListens /\ SvGoes(l, "ask") /\ UNCHANGED svTroubles
     \/ svListens /\ Trouble /\ SvGoes(l, "ask")
  /\ UNCHANGED <<svService, svAsked, svPolls>>

(* ensureServiceRunning, at the top of its loop.                            *)
AsksState(l) ==
  /\ svAt[l] = "ask"
  /\ \/ svState = "running" /\ SvGoes(l, "probe_again") /\ UNCHANGED svTroubles
     \/ svState = "stopped" /\ svAsked[l] /\ SvEnds(l, "error") /\ UNCHANGED svTroubles
     \/ svState = "stopped" /\ ~svAsked[l] /\ SvGoes(l, "start") /\ UNCHANGED svTroubles
     \/ svState \in {"starting", "stopping"} /\ SvGoes(l, "wait") /\ UNCHANGED svTroubles
     \/ Trouble /\ SvEnds(l, "error")
  /\ UNCHANGED <<svService, svAsked, svPolls>>

\* Mutant: somebody else's start is a refusal of one's own.
NeverStarted == {}

(* A service that is up, or coming up, is what was wanted: explain.         *)
StartedBySomebody == {"starting", "running"}

StartsService(l) ==
  /\ svAt[l] = "start"
  /\ \/ /\ svState = "stopped" /\ svStart # "disabled" /\ svState' = "starting"
        /\ svAsked' = [svAsked EXCEPT ![l] = TRUE] /\ SvGoes(l, "wait") /\ UNCHANGED svTroubles
     \/ /\ svState \in StartedBySomebody /\ UNCHANGED <<svState, svTroubles>>
        /\ svAsked' = [svAsked EXCEPT ![l] = TRUE] /\ SvGoes(l, "wait")
     \/ /\ \/ svState = "stopped" /\ svStart = "disabled"
           \/ svState \notin {"stopped"} \cup StartedBySomebody
        /\ SvEnds(l, "error") /\ UNCHANGED <<svState, svAsked, svTroubles>>
     \/ Trouble /\ SvEnds(l, "error") /\ UNCHANGED <<svState, svAsked>>
  /\ UNCHANGED <<svListens, svStart, svPolls>>

\* Mutant: the wait has no end of its own.
ForEver(l) == TRUE

(* The budget of the whole wait.                                            *)
WithinBudget(l) == svPolls[l] < PollBudget

WaitsAgain(l) ==
  /\ svAt[l] = "wait"
  /\ IF WithinBudget(l) THEN SvGoes(l, "ask") ELSE SvEnds(l, "error")
  /\ svPolls' = [svPolls EXCEPT ![l] = IF @ < PollBudget THEN @ + 1 ELSE @]
  /\ UNCHANGED <<svService, svAsked, svTroubles>>

(* Running is not answering.                                                *)
ProbesAgain(l) ==
  /\ svAt[l] = "probe_again"
  /\ \/ svListens /\ SvEnds(l, IF svAsked[l] THEN "started" ELSE "healthy") /\ UNCHANGED svTroubles
     \/ ~svListens /\ SvEnds(l, "error") /\ UNCHANGED svTroubles
     \/ svListens /\ Trouble /\ SvEnds(l, "error")
  /\ UNCHANGED <<svService, svAsked, svPolls>>
-----------------------------------------------------------------------------
(* The service, and whoever administers it.                                 *)

(* It says that it runs, and listens: in time, or a moment late.            *)
ComesUp ==
  /\ svState = "starting" /\ svState' = "running"
  /\ \/ svListens' = TRUE /\ UNCHANGED svTroubles
     \/ svListens' = FALSE /\ Trouble
  /\ UNCHANGED <<svStart, svAt, svAsked, svPolls, svResult>>

ListensLate ==
  /\ svState = "running" /\ ~svListens /\ svListens' = TRUE
  /\ UNCHANGED <<svState, svStart, svAt, svAsked, svPolls, svResult, svTroubles>>

FallsOver ==
  /\ svState \in {"starting", "running"} /\ Trouble
  /\ svState' = "stopped" /\ svListens' = FALSE
  /\ UNCHANGED <<svStart, svAt, svAsked, svPolls, svResult>>

IsStopped ==
  /\ svState = "running" /\ Trouble
  /\ svState' = "stopping" /\ svListens' = FALSE
  /\ UNCHANGED <<svStart, svAt, svAsked, svPolls, svResult>>

HasStopped ==
  /\ svState = "stopping" /\ svState' = "stopped"
  /\ UNCHANGED <<svListens, svStart, svAt, svAsked, svPolls, svResult, svTroubles>>

IsDisabled ==
  /\ svStart # "disabled" /\ Trouble /\ svStart' = "disabled"
  /\ UNCHANGED <<svState, svListens, svAt, svAsked, svPolls, svResult>>

(* EnableAgentService, for doctor --fix: the start type, and nothing else.  *)
Enables ==
  /\ svStart = "disabled" /\ svStart' = "automatic"
  /\ UNCHANGED <<svState, svListens, svAt, svAsked, svPolls, svResult, svTroubles>>

LoginSteps(l) == Probes(l) \/ AsksState(l) \/ StartsService(l) \/ WaitsAgain(l) \/ ProbesAgain(l)

AgentServiceNext ==
  \/ \E l \in SvLogins : LogsIn(l) \/ LoginSteps(l)
  \/ ComesUp \/ ListensLate \/ FallsOver \/ IsStopped \/ HasStopped \/ IsDisabled \/ Enables

(* A login runs; of the service nothing is assumed.                         *)
AgentServiceFairness == \A l \in SvLogins : WF_svVars(LoginSteps(l))

AgentServiceSpec == AgentServiceInit /\ [][AgentServiceNext]_svVars /\ AgentServiceFairness
-----------------------------------------------------------------------------
(* The types of the variables.                                              *)
AgentServiceTypeOK ==
  /\ svState \in {"stopped", "starting", "running", "stopping"} /\ svListens \in BOOLEAN
  /\ svListens => svState = "running"
  /\ svStart \in {"on_demand", "automatic", "disabled"}
  /\ svAt \in [SvLogins -> {"idle", "probe", "ask", "start", "wait", "probe_again", "done"}]
  /\ svAsked \in [SvLogins -> BOOLEAN] /\ svPolls \in [SvLogins -> 0..PollBudget]
  /\ svResult \in [SvLogins -> {"none", "healthy", "started", "error"}] /\ svTroubles \in 0..MaxSvTroubles

(* service.go, "what makes two shells starting at the same moment cost one  *)
(* start": however many logins find the service stopped at once, none of    *)
(* them is refused an agent for what the others do, but only where a call   *)
(* failed, the service was stopped, disabled or did not stay up, or the     *)
(* budget was spent waiting for it.                                         *)
RefusedForCause ==
  \A l \in SvLogins : svResult[l] = "error" => svTroubles > 0 \/ svPolls[l] = PollBudget

(* ensureServiceRunning, "waiting up to within": whatever the service does, *)
(* or stops doing, a login that has begun ends.                             *)
LoginsEnd == \A l \in SvLogins : svAt[l] = "probe" ~> svAt[l] = "done"
=============================================================================
