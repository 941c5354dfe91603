------------------------ MODULE AgentLifecycleProofs ------------------------
(***************************************************************************)
(* Theorems about AgentLifecycle, for any number of logins, processes and  *)
(* socket paths: its types; that the fixed socket never leads to another   *)
(* account's agent and that only a dead agent of ours is signalled; that,  *)
(* under the lock, a login that was handed an agent keeps it, one that     *)
(* started it has the only one, and the record names it; and that all of   *)
(* this implements SessionAgent.                                           *)
(***************************************************************************)
EXTENDS AgentLifecycle, TLAPS

USE PathsAssumption, NamesAssumption, ParametersAssumption

(* What keeps a login's findings true while other logins and the rest of   *)
(* the machine move: a socket belongs to the process started on its path,  *)
(* links lead to paths of our own account only, and what a login has       *)
(* listed, found or is about to signal was running when it looked.         *)
SocketsBelong ==
    \A f \in Places : Kind(f) = "sock" =>
        /\ fs[f].pid \in Pids
        /\ sock[fs[f].pid] = f
        /\ st[fs[f].pid] # "new"

LinksAreOurs ==
    \A f \in Places : Kind(f) = "link" => fs[f].to \in Elsewhere \ Theirs

TmpOnlyLinks == Kind(Tmp) \in {"none", "link"}

ListedStarted == \A l \in Logins : \A p \in list[l] : st[p] # "new"

FoundOurs ==
    \A l \in Logins : \A p \in found[l] :
        st[p] # "new" /\ sock[p] \in Elsewhere \ Theirs

CurStarted ==
    \A l \in Logins :
        pc[l] \in {"kill", "unlink"} =>
            /\ st[cur[l]] # "new"
            /\ sock[cur[l]] # NoPath
            /\ Ours(cur[l])

PathsSound == SocketsBelong /\ LinksAreOurs /\ TmpOnlyLinks
LoginsSound == ListedStarted /\ FoundOurs /\ CurStarted
Sound == PathsSound /\ LoginsSound

(* Nothing a login is about to signal is healthy: with agents that do not  *)
(* come back, what was found silent stays silent.                          *)
CurSilent == \A l \in Logins : pc[l] = "kill" => ~Serving(cur[l])

-----------------------------------------------------------------------------
(* Type correctness.                                                       *)

LEMMA Nodes ==
    /\ Nothing \in Node /\ AFile \in Node
    /\ \A p \in Pids : SockOf(p) \in Node
    /\ \A f \in Elsewhere \cup {Fixed, NoPath} : LinkTo(f) \in Node
BY DEF Nothing, AFile, SockOf, LinkTo, Node, Places

LEMMA ReturnTypes ==
    ASSUME TypeOK, NEW l \in Logins, NEW r \in {"idle", "done", "failed"},
           Return(l, r)
    PROVE  /\ pc' \in [Logins -> Steps]
           /\ lock' \in Logins \cup {NoLogin}
           /\ lock' # NoLogin => pc'[lock'] \in {"recheck"} \cup Mutating
           /\ list' \in [Logins -> SUBSET Pids]
           /\ cur' \in [Logins -> Pids \cup {NoPid}]
           /\ \A m \in Logins : pc'[m] \in {"kill", "unlink"} => cur'[m] \in Pids
           /\ found' \in [Logins -> SUBSET Pids]
BY DEF TypeOK, Return, Goto, Steps

LEMMA InitTypes == Init => TypeOK
BY Nodes DEF Init, TypeOK, Places, Steps

(* Each of a login's steps, and then each of the machine's.                *)
LEMMA StepTypes ==
    ASSUME TypeOK, NEW l \in Logins, Begin(l) \/ Step(l) \/ Leave(l)
    PROVE  TypeOK'
<1> USE DEF World, Local, Goto, Steps, Working, Locking, Mutating, Reaping,
            Surveying, Starting, Adopting
<1>1. CASE Begin(l)
  BY <1>1 DEF Begin, TypeOK
<1>2. CASE FastProbe(l)
  <2>1. CASE Reachable(Fixed)
    BY <1>2, <2>1, ReturnTypes DEF FastProbe, TypeOK
  <2>2. CASE ~Reachable(Fixed)
    BY <1>2, <2>2 DEF FastProbe, TypeOK
  <2> QED BY <2>1, <2>2
<1>3. CASE TakeLock(l)
  BY <1>3 DEF TakeLock, TypeOK
<1>4. CASE LockTimesOut(l)
  BY <1>4 DEF LockTimesOut, TypeOK
<1>5. CASE LockFails(l)
  BY <1>5, ReturnTypes DEF LockFails, TypeOK
<1>6. CASE Recheck(l)
  <2>1. CASE Reachable(Fixed)
    BY <1>6, <2>1, ReturnTypes DEF Recheck, TypeOK
  <2>2. CASE ~Reachable(Fixed)
    BY <1>6, <2>2 DEF Recheck, TypeOK
  <2> QED BY <2>1, <2>2
<1>7. CASE ListAgents(l)
  BY <1>7 DEF ListAgents, TypeOK, Running
<1>8. CASE ListFails(l)
  BY <1>8, ReturnTypes DEF ListFails, TypeOK
<1>9. CASE ReapProbe(l)
  BY <1>9 DEF ReapProbe, TypeOK
<1>10. CASE Kill(l)
  BY <1>10 DEF Kill, Running, TypeOK
<1>11. CASE Unlink(l)
  BY <1>11, Nodes DEF Unlink, WithoutSocket, TypeOK
<1>12. CASE ReapEnds(l)
  BY <1>12 DEF ReapEnds, TypeOK
<1>13. CASE Survey(l)
  BY <1>13 DEF Survey, TypeOK
<1>14. CASE SurveyEnds(l)
  BY <1>14 DEF SurveyEnds, TypeOK
<1>15. CASE Clear(l)
  BY <1>15, Nodes DEF Clear, TypeOK
<1>16. CASE Start(l)
  BY <1>16 DEF Start, TypeOK
<1>25. CASE Unbind(l)
  BY <1>25, Nodes DEF Unbind, WithoutSocket, TypeOK
<1>17. CASE Spawn(l)
  BY <1>17, Nodes DEF Spawn, TypeOK, Places
<1>18. CASE SpawnFails(l)
  BY <1>18, ReturnTypes DEF SpawnFails, TypeOK
<1>19. CASE Record(l)
  BY <1>19, ReturnTypes DEF Record, TypeOK
<1>20. CASE RecordFails(l)
  BY <1>20, ReturnTypes DEF RecordFails, TypeOK
<1>21. CASE Unstage(l)
  BY <1>21, Nodes DEF Unstage, TypeOK
<1>22. CASE Stage(l)
  <2>1. CASE Kind(Tmp) = "none"
    BY <1>22, <2>1, Nodes DEF Stage, TypeOK
  <2>2. CASE Kind(Tmp) # "none"
    BY <1>22, <2>2, ReturnTypes DEF Stage, TypeOK
  <2> QED BY <2>1, <2>2
<1>23. CASE Swap(l)
  <2>1. CASE Kind(Tmp) = "none"
    BY <1>23, <2>1, ReturnTypes DEF Swap, TypeOK
  <2>2. CASE Kind(Tmp) # "none"
    <3>1. fs' \in [Places -> Node]
      BY <1>23, <2>2, Nodes DEF Swap, TypeOK, Places
    <3>2. Return(l, "done")
      BY <1>23, <2>2 DEF Swap
    <3> QED BY <1>23, <2>2, <3>1, <3>2, ReturnTypes DEF Swap, TypeOK
  <2> QED BY <2>1, <2>2
<1>24. CASE Leave(l)
  BY <1>24, ReturnTypes DEF Leave, TypeOK
<1> QED
  BY <1>1, <1>2, <1>3, <1>4, <1>5, <1>6, <1>7, <1>8, <1>9, <1>10, <1>11, <1>12,
     <1>13, <1>14, <1>15, <1>16, <1>17, <1>18, <1>19, <1>20, <1>21, <1>22,
     <1>23, <1>24, <1>25 DEF Step, Progress, Refused

LEMMA OutsideTypes == TypeOK /\ Outside => TypeOK'
<1> SUFFICES ASSUME TypeOK, Outside PROVE TypeOK'
  OBVIOUS
<1> USE Nodes DEF TypeOK, Ensure, Local, AllMeet, Disturbed, Undisturbed
<1>1. ASSUME NEW p \in Pids, NEW f \in Elsewhere \cup {NoPath}, AgentStarts(p, f)
      PROVE  TypeOK'
  BY <1>1 DEF AgentStarts, Places
<1>2. ASSUME NEW p \in Pids, AgentHangs(p) PROVE TypeOK'
  BY <1>2 DEF AgentHangs
<1>3. ASSUME NEW p \in Pids, AgentResumes(p) PROVE TypeOK'
  BY <1>3 DEF AgentResumes
<1>4. ASSUME NEW p \in Pids, AgentHandlesTerm(p) PROVE TypeOK'
  BY <1>4 DEF AgentHandlesTerm, Exits
<1>5. ASSUME NEW p \in Pids, AgentDies(p) PROVE TypeOK'
  BY <1>5 DEF AgentDies
<1>6. ASSUME NEW p \in Pids, AgentStops(p) PROVE TypeOK'
  BY <1>6 DEF AgentStops, Exits
<1>7. ASSUME NEW f \in Places, SocketVanishes(f) PROVE TypeOK'
  BY <1>7 DEF SocketVanishes
<1> QED BY <1>1, <1>2, <1>3, <1>4, <1>5, <1>6, <1>7 DEF Outside

(* Every variable keeps its type, and a held lock is held by a login that  *)
(* is still inside EnsureAgent: no way out of it forgets to unlock.        *)
THEOREM TypeCorrect == Spec => []TypeOK
<1>1. TypeOK /\ [Next]_vars => TypeOK'
  <2> SUFFICES ASSUME TypeOK, [Next]_vars PROVE TypeOK'
    OBVIOUS
  <2>1. CASE UNCHANGED vars
    BY <2>1 DEF vars, TypeOK
  <2>2. CASE Next
    BY <2>2, StepTypes, OutsideTypes DEF Next
  <2> QED BY <2>1, <2>2
<1> QED BY InitTypes, <1>1, PTL DEF Spec
-----------------------------------------------------------------------------
(* The strengthening is inductive.                                         *)

LEMMA InitSound == Init => Sound
BY DEF Init, Sound, PathsSound, LoginsSound, SocketsBelong, LinksAreOurs,
       TmpOnlyLinks, ListedStarted, FoundOurs, CurStarted, Kind, Nothing, AFile,
       Places

(* A process keeps the path it was started on.                             *)
LEMMA PidsStay ==
    ASSUME TypeOK, Next, NEW p \in Pids, st[p] # "new"
    PROVE  st'[p] # "new" /\ sock'[p] = sock[p]
<1>1. ASSUME NEW l \in Logins, Begin(l) \/ Step(l) \/ Leave(l)
      PROVE  st'[p] # "new" /\ sock'[p] = sock[p]
  BY <1>1 DEF TypeOK, Step, Progress, Refused, Begin, FastProbe, TakeLock, LockTimesOut, LockFails,
     Recheck, ListAgents, ListFails, ReapProbe, Kill, Unlink, ReapEnds,
     Survey, SurveyEnds, Clear, Start, Unbind, Spawn, Fresh, SpawnFails, Record,
     RecordFails, Unstage, Stage, Swap, Leave, World
<1>2. ASSUME Outside PROVE st'[p] # "new" /\ sock'[p] = sock[p]
  BY <1>2 DEF TypeOK, Outside, AgentStarts, Fresh, AgentHangs, AgentResumes,
     AgentHandlesTerm, Exits, AgentDies, AgentStops, SocketVanishes
<1> QED BY <1>1, <1>2 DEF Next

(* What a step does to the files, and to the processes behind them.        *)
FilesKept == \A f \in Places : fs'[f] \in {fs[f], Nothing}

LEMMA KeptFilesSound ==
    ASSUME TypeOK, PathsSound, Next, FilesKept
    PROVE  PathsSound'
<1>1. SocketsBelong'
  <2> SUFFICES ASSUME NEW f \in Places, fs'[f].kind = "sock"
               PROVE  /\ fs'[f].pid \in Pids
                      /\ sock'[fs'[f].pid] = f
                      /\ st'[fs'[f].pid] # "new"
    BY DEF SocketsBelong, Kind
  <2>1. fs'[f] = fs[f]
    BY DEF FilesKept, Nothing
  <2>2. fs[f].pid \in Pids /\ sock[fs[f].pid] = f /\ st[fs[f].pid] # "new"
    BY <2>1 DEF PathsSound, SocketsBelong, Kind
  <2> QED BY <2>1, <2>2, PidsStay
<1>2. LinksAreOurs'
  BY DEF PathsSound, LinksAreOurs, FilesKept, Kind, Nothing
<1>3. TmpOnlyLinks'
  BY DEF PathsSound, TmpOnlyLinks, FilesKept, Kind, Nothing, Places
<1> QED BY <1>1, <1>2, <1>3 DEF PathsSound

LEMMA BoundFilesSound ==
    ASSUME TypeOK, PathsSound, Next,
           NEW p \in Pids, NEW f \in {Fixed} \cup Elsewhere,
           st'[p] = "ok", sock'[p] = f, fs' = [fs EXCEPT ![f] = SockOf(p)]
    PROVE  PathsSound'
<1> USE DEF TypeOK, PathsSound, Kind, SockOf, Places
<1>1. SocketsBelong'
  <2> SUFFICES ASSUME NEW g \in Places, fs'[g].kind = "sock"
               PROVE  /\ fs'[g].pid \in Pids
                      /\ sock'[fs'[g].pid] = g
                      /\ st'[fs'[g].pid] # "new"
    BY DEF SocketsBelong
  <2>1. CASE g = f
    <3>1. fs'[g] = SockOf(p)
      BY <2>1
    <3> QED BY <2>1, <3>1
  <2>2. CASE g # f
    <3>1. fs'[g] = fs[g]
      BY <2>2
    <3>2. fs[g].pid \in Pids /\ sock[fs[g].pid] = g /\ st[fs[g].pid] # "new"
      BY <3>1 DEF SocketsBelong
    <3> QED BY <3>1, <3>2, PidsStay
  <2> QED BY <2>1, <2>2
<1>2. LinksAreOurs'
  BY DEF LinksAreOurs
<1>3. TmpOnlyLinks'
  BY DEF TmpOnlyLinks
<1> QED BY <1>1, <1>2, <1>3

LEMMA StepPathsSound ==
    ASSUME TypeOK, Sound, Next, NEW l \in Logins, Begin(l) \/ Step(l) \/ Leave(l)
    PROVE  PathsSound'
<1>1. CASE Spawn(l)
  <2>1. PICK p \in Pids : /\ st' = [st EXCEPT ![p] = "ok"]
                          /\ sock' = [sock EXCEPT ![p] = Fixed]
                          /\ fs' = [fs EXCEPT ![Fixed] = SockOf(p)]
    BY <1>1 DEF Spawn
  <2> QED BY <2>1, BoundFilesSound DEF TypeOK, Sound
<1>2. CASE Stage(l)
  <2>1. CASE UNCHANGED fs
    BY <2>1, KeptFilesSound DEF FilesKept, Sound
  <2>2. CASE \E p \in Pids : /\ IsLowest(p, found[l])
                             /\ fs' = [fs EXCEPT ![Tmp] = LinkTo(sock[p])]
    <3>1. PICK p \in Pids : p \in found[l] /\ fs' = [fs EXCEPT ![Tmp] = LinkTo(sock[p])]
      BY <2>2 DEF IsLowest
    <3>2. sock[p] \in Elsewhere \ Theirs
      BY <3>1 DEF Sound, LoginsSound, FoundOurs
    <3>3. UNCHANGED <<st, sock>>
      BY <1>2 DEF Stage
    <3> USE <3>1, <3>2, <3>3 DEF Sound, PathsSound, TypeOK, Kind, LinkTo, Places
    <3>4. SocketsBelong'
      BY DEF SocketsBelong
    <3>5. LinksAreOurs'
      BY DEF LinksAreOurs
    <3>6. TmpOnlyLinks'
      BY DEF TmpOnlyLinks
    <3> QED BY <3>4, <3>5, <3>6
  <2> QED BY <1>2, <2>1, <2>2 DEF Stage
<1>3. CASE Swap(l)
  <2>1. CASE UNCHANGED fs
    BY <2>1, KeptFilesSound DEF FilesKept, Sound
  <2>2. CASE /\ Kind(Tmp) # "none"
             /\ fs' = [fs EXCEPT ![Fixed] = fs[Tmp], ![Tmp] = Nothing]
    <3>1. UNCHANGED <<st, sock>>
      BY <1>3 DEF Swap
    <3> USE <2>2, <3>1 DEF Sound, PathsSound, TypeOK, Kind, Nothing, Places
    <3>2. SocketsBelong'
      BY DEF SocketsBelong, TmpOnlyLinks
    <3>3. LinksAreOurs'
      BY DEF LinksAreOurs
    <3>4. TmpOnlyLinks'
      BY DEF TmpOnlyLinks
    <3> QED BY <3>2, <3>3, <3>4
  <2> QED BY <1>3, <2>1, <2>2 DEF Swap
<1>4. CASE ~Spawn(l) /\ ~Stage(l) /\ ~Swap(l)
  <2>1. FilesKept
    BY <1>4 DEF TypeOK, FilesKept, Step, Progress, Refused, Begin, FastProbe, TakeLock, LockTimesOut,
       LockFails, Recheck, ListAgents, ListFails, ReapProbe, Kill, Unlink,
       WithoutSocket, ReapEnds, Survey, SurveyEnds, Clear, Start, Unbind, SpawnFails,
       Record, RecordFails, Unstage, Leave, World
  <2> QED BY <2>1, KeptFilesSound DEF Sound
<1> QED BY <1>1, <1>2, <1>3, <1>4

LEMMA OutsidePathsSound ==
    ASSUME TypeOK, Sound, Next, Outside
    PROVE  PathsSound'
<1>1. ASSUME NEW p \in Pids, NEW f \in Elsewhere, AgentStarts(p, f)
      PROVE  PathsSound'
  <2>1. /\ st'[p] = "ok" /\ sock'[p] = f
        /\ fs' = [fs EXCEPT ![f] = SockOf(p)]
    BY <1>1 DEF AgentStarts, TypeOK, Places
  <2> QED BY <2>1, BoundFilesSound DEF Sound
<1>2. CASE ~ \E p \in Pids, f \in Elsewhere : AgentStarts(p, f)
  <2>1. FilesKept
    BY <1>2 DEF TypeOK, FilesKept, Outside, AgentStarts, AgentHangs, AgentResumes,
       AgentHandlesTerm, Exits, AgentDies, AgentStops, SocketVanishes
  <2> QED BY <2>1, KeptFilesSound DEF Sound
<1> QED BY <1>1, <1>2
(* What a login may take up in a step, and from where.                     *)
LEMMA LocalSteps ==
    ASSUME TypeOK, Next, NEW m \in Logins
    PROVE  /\ list'[m] \subseteq list[m] \cup Running
           /\ found'[m] \subseteq found[m] \cup {p \in list[m] : Adoptable(p)}
           /\ pc'[m] \in {"kill", "unlink"} =>
                \/ pc[m] \in {"kill", "unlink"} /\ cur'[m] = cur[m]
                \/ cur'[m] \in list[m] /\ Reapable(cur'[m])
           /\ pc'[m] = "kill" =>
                \/ pc[m] = "kill" /\ cur'[m] = cur[m]
                \/ cur'[m] \in list[m] /\ Reapable(cur'[m])
<1> DEFINE Goal == /\ list'[m] \subseteq list[m] \cup Running
                   /\ found'[m] \subseteq found[m] \cup {p \in list[m] : Adoptable(p)}
                   /\ pc'[m] \in {"kill", "unlink"} =>
                        \/ pc[m] \in {"kill", "unlink"} /\ cur'[m] = cur[m]
                        \/ cur'[m] \in list[m] /\ Reapable(cur'[m])
                   /\ pc'[m] = "kill" =>
                        \/ pc[m] = "kill" /\ cur'[m] = cur[m]
                        \/ cur'[m] \in list[m] /\ Reapable(cur'[m])
<1>1. ASSUME NEW l \in Logins, NEW r \in {"idle", "done", "failed"}, Return(l, r)
      PROVE  Goal
  BY <1>1 DEF TypeOK, Return, Goto
<1>2. ASSUME UNCHANGED Local, NEW l \in Logins,
             NEW s \in Steps \ {"kill", "unlink"}, Goto(l, s)
      PROVE  Goal
  BY <1>2 DEF TypeOK, Goto, Local
<1>3. ASSUME NEW l \in Logins, Begin(l) \/ Step(l) \/ Leave(l) PROVE Goal
  <2> USE DEF TypeOK, Goto, Local, World
  <2>1. CASE ReapProbe(l)
    BY <2>1 DEF ReapProbe
  <2>2. CASE Survey(l)
    BY <2>2 DEF Survey
  <2>3. CASE ListAgents(l)
    BY <2>3 DEF ListAgents
  <2>4. CASE Kill(l)
    BY <2>4 DEF Kill
  <2>5. CASE Unlink(l)
    BY <2>5 DEF Unlink
  <2>6. CASE (\E r \in {"idle", "done", "failed"} : Return(l, r))
             \/ (UNCHANGED Local /\ \E s \in Steps \ {"kill", "unlink"} : Goto(l, s))
    BY <2>6, <1>1, <1>2
  <2>7. CASE ~ReapProbe(l) /\ ~Survey(l) /\ ~ListAgents(l) /\ ~Kill(l) /\ ~Unlink(l)
    BY <1>3, <2>6, <2>7 DEF Step, Progress, Refused, Begin, FastProbe, TakeLock, LockTimesOut,
       LockFails, Recheck, ListFails, ReapEnds, SurveyEnds, Clear, Start, Unbind, Spawn,
       SpawnFails, Record, RecordFails, Unstage, Stage, Swap, Leave, Steps,
       Working, Locking, Mutating, Reaping, Surveying, Starting, Adopting
  <2> QED BY <2>1, <2>2, <2>3, <2>4, <2>5, <2>7
<1>4. ASSUME Outside PROVE Goal
  <2>1. UNCHANGED <<pc, Local>>
    BY <1>4 DEF Outside, AgentStarts, AgentHangs, AgentResumes, AgentHandlesTerm,
       AgentDies, AgentStops, SocketVanishes, Ensure
  <2> QED BY <2>1 DEF Local
<1> QED BY <1>3, <1>4 DEF Next

LEMMA StepLoginsSound ==
    ASSUME TypeOK, Sound, Next
    PROVE  LoginsSound'
<1> USE DEF Sound, LoginsSound
<1>1. ASSUME NEW m \in Logins, NEW p \in list'[m] PROVE st'[p] # "new"
  <2>1. p \in Pids /\ st[p] # "new"
    BY <1>1, LocalSteps DEF Running, ListedStarted, TypeOK
  <2> QED BY <2>1, PidsStay
<1>2. ASSUME NEW m \in Logins, NEW p \in found'[m]
      PROVE  st'[p] # "new" /\ sock'[p] \in Elsewhere \ Theirs
  <2>1. p \in Pids
    BY <1>2, LocalSteps DEF TypeOK
  <2>2. st[p] # "new" /\ sock[p] \in Elsewhere \ Theirs
    BY <1>2, <2>1, LocalSteps DEF ListedStarted, FoundOurs, Adoptable, Ours, TypeOK
  <2> QED BY <2>1, <2>2, PidsStay
<1>3. ASSUME NEW m \in Logins, pc'[m] \in {"kill", "unlink"}
      PROVE  st'[cur'[m]] # "new" /\ sock'[cur'[m]] # NoPath /\ sock'[cur'[m]] \notin Theirs
  <2>1. cur'[m] \in Pids
    BY <1>3, LocalSteps DEF TypeOK
  <2>2. st[cur'[m]] # "new" /\ sock[cur'[m]] # NoPath /\ sock[cur'[m]] \notin Theirs
    BY <1>3, LocalSteps DEF CurStarted, ListedStarted, Reapable, Ours
  <2> QED BY <2>1, <2>2, PidsStay
<1> QED BY <1>1, <1>2, <1>3 DEF ListedStarted, FoundOurs, CurStarted, Ours

(* What a login believes of the machine stays true until it acts on it.     *)
THEOREM Soundness == Spec => []Sound
<1>1. TypeOK /\ Sound /\ [Next]_vars => Sound'
  <2> SUFFICES ASSUME TypeOK, Sound, [Next]_vars PROVE Sound'
    OBVIOUS
  <2>1. CASE UNCHANGED vars
    BY <2>1 DEF vars, Sound, PathsSound, LoginsSound, SocketsBelong, LinksAreOurs,
       TmpOnlyLinks, ListedStarted, FoundOurs, CurStarted, Kind, Ours
  <2>2. CASE Next
    BY <2>2, StepPathsSound, OutsidePathsSound, StepLoginsSound DEF Next, Sound
  <2> QED BY <2>1, <2>2
<1> QED BY TypeCorrect, InitSound, <1>1, PTL DEF Spec

(* The fixed socket leads to an agent of this account or to nothing: an    *)
(* adoption never points the session at somebody else's agent, whatever    *)
(* the logins that run at once do to each other's links.                   *)
THEOREM FixedIsOurs == Spec => []FixedOnlyOurs
<1>1. TypeOK /\ Sound => FixedOnlyOurs
  BY DEF TypeOK, Sound, PathsSound, SocketsBelong, LinksAreOurs, FixedOnlyOurs,
     Behind, Target, Kind, Ours, Places
<1> QED BY <1>1, TypeCorrect, Soundness, PTL

-----------------------------------------------------------------------------
(* Only a dead agent of ours is signalled.                                 *)

(* A socket comes into being only under a process that was not running.    *)
LEMMA SocketsAreNew ==
    ASSUME TypeOK, Sound, Next, NEW f \in Places, fs'[f].kind = "sock"
    PROVE  fs'[f] = fs[f] \/ st[fs'[f].pid] = "new"
<1>1. ASSUME NEW l \in Logins, Begin(l) \/ Step(l) \/ Leave(l)
      PROVE  fs'[f] = fs[f] \/ st[fs'[f].pid] = "new"
  <2> USE DEF TypeOK, Places
  <2>1. CASE Spawn(l)
    BY <2>1 DEF Spawn, Fresh, SockOf
  <2>2. CASE Stage(l)
    BY <2>2 DEF Stage, LinkTo
  <2>3. CASE Swap(l)
    BY <2>3 DEF Swap, Sound, PathsSound, TmpOnlyLinks, Kind, Nothing
  <2>4. CASE ~Spawn(l) /\ ~Stage(l) /\ ~Swap(l)
    BY <1>1, <2>4 DEF Step, Progress, Refused, Begin, FastProbe, TakeLock, LockTimesOut,
       LockFails, Recheck, ListAgents, ListFails, ReapProbe, Kill, Unlink,
       WithoutSocket, ReapEnds, Survey, SurveyEnds, Clear, Start, Unbind, SpawnFails,
       Record, RecordFails, Unstage, Leave, World, Nothing
  <2> QED BY <2>1, <2>2, <2>3, <2>4
<1>2. ASSUME Outside PROVE fs'[f] = fs[f] \/ st[fs'[f].pid] = "new"
  BY <1>2 DEF TypeOK, Places, Outside, AgentStarts, Fresh, SockOf, AgentHangs,
     AgentResumes, AgentHandlesTerm, Exits, AgentDies, AgentStops,
     SocketVanishes, Nothing
<1> QED BY <1>1, <1>2 DEF Next

(* A silent agent does not start serving again: nobody binds its socket    *)
(* for it, and without slow agents it does not answer later.               *)
LEMMA SilentStays ==
    ASSUME TypeOK, Sound, Next, ~AllowSlowAgents,
           NEW p \in Pids, st[p] # "new", ~Serving(p)
    PROVE  ~Serving(p)'
<1>0. st'[p] # "new" /\ sock'[p] = sock[p]
  BY PidsStay
<1>1. CASE sock[p] = NoPath
  BY <1>0, <1>1 DEF Serving
<1>2. CASE st[p] # "ok"
  <2>1. st'[p] # "ok"
    BY <1>2 DEF TypeOK, Next, Step, Progress, Refused, Begin, FastProbe, TakeLock, LockTimesOut,
       LockFails, Recheck, ListAgents, ListFails, ReapProbe, Kill, Unlink,
       ReapEnds, Survey, SurveyEnds, Clear, Start, Unbind, Spawn, Fresh, SpawnFails,
       Record, RecordFails, Unstage, Stage, Swap, Leave, World, Outside,
       AgentStarts, AgentHangs, AgentResumes, AgentHandlesTerm, Exits, AgentDies,
       AgentStops, SocketVanishes
  <2> QED BY <2>1 DEF Serving
<1>3. CASE sock[p] \in Places /\ ~Behind(sock[p], p)
  <2>1. ~Behind(sock[p], p)'
    BY SocketsAreNew, <1>0, <1>3 DEF Behind, Kind
  <2> QED BY <1>0, <2>1 DEF Serving
<1> QED BY <1>1, <1>2, <1>3 DEF Serving, TypeOK, Places
LEMMA StepCurSilent ==
    ASSUME TypeOK, Sound, Next, ~AllowSlowAgents, CurSilent
    PROVE  CurSilent'
<1> SUFFICES ASSUME NEW m \in Logins, pc'[m] = "kill",
                    NEW p \in Pids, p = cur'[m]
             PROVE  ~Serving(p)'
  <2>1. TypeOK'
    BY StepTypes, OutsideTypes DEF Next
  <2> QED BY <2>1 DEF CurSilent, TypeOK, Serving, Behind, Kind
<1>1. st[p] # "new" /\ ~Serving(p)
  <2>1. CASE pc[m] = "kill" /\ p = cur[m]
    BY <2>1 DEF Sound, LoginsSound, CurStarted, CurSilent
  <2>2. CASE p \in list[m] /\ Reapable(p)
    BY <2>2 DEF Sound, LoginsSound, ListedStarted, Reapable, Reachable, Serving,
       Behind, Target, Kind
  <2> QED BY <2>1, <2>2, LocalSteps
<1> QED BY <1>1, SilentStays

(* The moment of the SIGTERM, not of the probe: what a login signals is of *)
(* this account, was given a socket, and does not serve it; whatever the   *)
(* other logins did in between, with the lock or without it. It rests on   *)
(* an agent that missed a probe never answering again.                     *)
THEOREM OnlyOurDeadSignalled == ~AllowSlowAgents /\ Spec => SignalsOnlyOurDead
<1> SUFFICES ASSUME ~AllowSlowAgents PROVE Spec => SignalsOnlyOurDead
  OBVIOUS
<1>1. Init => CurSilent
  BY DEF Init, CurSilent
<1>2. TypeOK /\ Sound /\ CurSilent /\ [Next]_vars => CurSilent'
  <2> SUFFICES ASSUME TypeOK, Sound, CurSilent, [Next]_vars PROVE CurSilent'
    OBVIOUS
  <2>1. CASE UNCHANGED vars
    BY <2>1 DEF vars, CurSilent, Serving, Behind, Kind
  <2>2. CASE Next
    BY <2>2, StepCurSilent
  <2> QED BY <2>1, <2>2
<1>3. Sound /\ CurSilent /\ [Next]_vars => [SignalsOurDead]_vars
  BY DEF Sound, LoginsSound, CurStarted, CurSilent, SignalsOurDead
<1> QED
  BY <1>1, <1>2, <1>3, TypeCorrect, Soundness, PTL DEF Spec, SignalsOnlyOurDead
-----------------------------------------------------------------------------
(* What the lock is for.                                                   *)

Critical == {"recheck"} \cup Mutating

(* A login that never raced has the lock for as long as it is inside, and  *)
(* when one login races all that are at work do.                           *)
LockHeld ==
    \A l \in Logins : pc[l] \in Critical /\ met[l] # "race" => lock = l

RacesAreShared ==
    \A l, m \in Logins :
        pc[l] \in Working /\ met[l] = "race" =>
            /\ pc[m] \in Working => met[m] = "race"
            /\ pc[m] # "idle" => met[m] # "nothing"

(* A SIGTERM nobody has handled is with an agent that serves no socket.    *)
SigSilent == \A p \in sig : st[p] # "new" /\ ~Serving(p)

(* Only the fixed socket and the staged link may be links, and what is     *)
(* linked to was bound, so that nobody binds it again.                     *)
ElsewhereIsPlain == \A f \in Elsewhere : Kind(f) \in {"none", "sock"}

LinksWereBound ==
    \A f \in Places : Kind(f) = "link" =>
        \E p \in Pids : st[p] # "new" /\ sock[p] = fs[f].to

(* A login past its second look works on a fixed socket that does not      *)
(* answer, until it has put one there itself.                              *)
MutatesTheDead ==
    \A l \in Logins :
        pc[l] \in Mutating \ {"record"} /\ met[l] # "race" => ~Reachable(Fixed)

(* What is left on the fixed socket, by the time it is reaped, and has not *)
(* been told to end.                                                       *)
OnFixed(p) == st[p] = "ok" /\ sock[p] = Fixed /\ p \notin sig

ReapsThemAll ==
    \A l \in Logins : met[l] # "race" =>
        /\ pc[l] \in {"reap", "kill", "unlink"} =>
              \A p \in Pids : OnFixed(p) => p \in list[l]
        /\ pc[l] \in Surveying \cup (Starting \ {"record"}) =>
              \A p \in Pids : ~OnFixed(p)
        /\ pc[l] = "unlink" => ~OnFixed(cur[l])

(* What a login found still answers when it adopts it.                     *)
FoundInTime ==
    \A l \in Logins : pc[l] \notin {"survey"} \cup Adopting => found[l] = {}

FoundAnswers ==
    \A l \in Logins : met[l] = "nothing" =>
        /\ pc[l] \in {"survey"} \cup Adopting =>
              \A p \in found[l] : Reachable(sock[p])
        /\ pc[l] = "swap" /\ Kind(Tmp) # "none" => Reachable(fs[Tmp].to)

(* What a login started is the one agent there.                            *)
StartedServes ==
    \A l \in Logins :
        /\ pc[l] \in {"idle"} \cup (Working \ {"record"}) => started[l] = NoPid
        /\ pc[l] = "record" => started[l] # NoPid
        /\ pc[l] \in {"record", "done"} /\ started[l] # NoPid /\ met[l] = "nothing" =>
              /\ started[l] \in Pids
              /\ sock[started[l]] = Fixed
              /\ Serving(started[l])
              /\ \A p \in Pids : OnFixed(p) => p = started[l]

RecordStands ==
    \A l \in Logins :
        pc[l] = "done" /\ started[l] # NoPid /\ met[l] = "nothing" =>
            /\ state = started[l]
            /\ \A m \in Logins : pc[m] # "record"

Excluded == LockHeld /\ RacesAreShared
Paths == SigSilent /\ CurSilent /\ ElsewhereIsPlain /\ LinksWereBound
Orderly ==
    /\ MutatesTheDead /\ ReapsThemAll /\ FoundInTime /\ FoundAnswers
    /\ HandedSocketLive /\ StartedServes /\ RecordStands

Acts(l) == Begin(l) \/ Step(l) \/ Leave(l)

(* The steps at which a login changes the files or the processes.          *)
Changing == {"kill", "unlink", "clear", "start", "unbind", "spawn", "unstage", "stage", "swap"}

LEMMA LoginFrame ==
    ASSUME TypeOK, NEW l \in Logins, Acts(l)
    PROVE  /\ \A m \in Logins \ {l} :
                /\ pc'[m] = pc[m] /\ started'[m] = started[m]
                /\ list'[m] = list[m] /\ cur'[m] = cur[m] /\ found'[m] = found[m]
           /\ pc[l] \notin Changing => UNCHANGED <<fs, st, sock, sig>>
           /\ pc[l] # "record" => UNCHANGED state
           /\ ~LockTimesOut(l) => \A m \in Logins \ {l} : met'[m] = met[m]
<1> USE DEF TypeOK, Acts, Goto, Return, World, Local
<1>1. \A m \in Logins \ {l} : pc'[m] = pc[m] /\ started'[m] = started[m]
  BY DEF Step, Progress, Refused, Begin, FastProbe, TakeLock, LockTimesOut, LockFails,
     Recheck, ListAgents, ListFails, ReapProbe, Kill, Unlink, ReapEnds,
     Survey, SurveyEnds, Clear, Start, Unbind, Spawn, SpawnFails, Record,
     RecordFails, Unstage, Stage, Swap, Leave
<1>2. \A m \in Logins \ {l} :
        list'[m] = list[m] /\ cur'[m] = cur[m] /\ found'[m] = found[m]
  BY DEF Step, Progress, Refused, Begin, FastProbe, TakeLock, LockTimesOut, LockFails,
     Recheck, ListAgents, ListFails, ReapProbe, Kill, Unlink, ReapEnds,
     Survey, SurveyEnds, Clear, Start, Unbind, Spawn, SpawnFails, Record,
     RecordFails, Unstage, Stage, Swap, Leave
<1>3. pc[l] \notin Changing => UNCHANGED <<fs, st, sock, sig>>
  BY DEF Step, Progress, Refused, Begin, FastProbe, TakeLock, LockTimesOut, LockFails,
     Recheck, ListAgents, ListFails, ReapProbe, Kill, Unlink, ReapEnds,
     Survey, SurveyEnds, Clear, Start, Unbind, Spawn, SpawnFails, Record,
     RecordFails, Unstage, Stage, Swap, Leave, Changing
<1>4. pc[l] # "record" => UNCHANGED state
  BY DEF Step, Progress, Refused, Begin, FastProbe, TakeLock, LockTimesOut, LockFails,
     Recheck, ListAgents, ListFails, ReapProbe, Kill, Unlink, ReapEnds,
     Survey, SurveyEnds, Clear, Start, Unbind, Spawn, SpawnFails, Record,
     RecordFails, Unstage, Stage, Swap, Leave
<1>5. ~LockTimesOut(l) => \A m \in Logins \ {l} : met'[m] = met[m]
  BY DEF Step, Progress, Refused, Begin, FastProbe, TakeLock, LockFails,
     Recheck, ListAgents, ListFails, ReapProbe, Kill, Unlink, ReapEnds,
     Survey, SurveyEnds, Clear, Start, Unbind, Spawn, SpawnFails, Record,
     RecordFails, Unstage, Stage, Swap, Leave
<1> QED BY <1>1, <1>2, <1>3, <1>4, <1>5

(* With agents that do not come back, the machine moves by taking from the *)
(* logins what they were promised, or by the end of an agent that was told *)
(* to and that nobody reached any more.                                    *)
EndsUnseen(p) ==
    /\ p \in sig /\ ~Serving(p)
    /\ st' = [st EXCEPT ![p] = "gone"] /\ sig' = sig \ {p}
    /\ UNCHANGED <<fs, sock, met>>

LEMMA OutsideFrame ==
    ASSUME TypeOK, SigSilent, ~AllowSlowAgents, Outside
    PROVE  /\ AllMeet \/ \E p \in Pids : EndsUnseen(p)
           /\ UNCHANGED Ensure
<1>1. ASSUME NEW p \in Pids, AgentHandlesTerm(p)
      PROVE  (AllMeet \/ EndsUnseen(p)) /\ UNCHANGED Ensure
  <2>1. CASE Overtaken(p)
    BY <1>1, <2>1 DEF AgentHandlesTerm
  <2>2. CASE ~Overtaken(p)
    <3>1. st[p] = "ok" /\ p \in sig /\ ~Serving(p)
      BY <1>1 DEF AgentHandlesTerm, SigSilent
    <3>2. sock[p] \in Places => fs[sock[p]] = Nothing
      BY <2>2, <3>1 DEF Overtaken, Serving, Behind, Kind, SockOf, TypeOK
    <3>3. UNCHANGED fs
      BY <1>1, <3>2 DEF AgentHandlesTerm, Exits, TypeOK
    <3> QED BY <1>1, <2>2, <3>1, <3>3 DEF AgentHandlesTerm, Exits, EndsUnseen
  <2> QED BY <2>1, <2>2
<1>2. CASE ~ \E p \in Pids : AgentHandlesTerm(p)
  BY <1>2 DEF Outside, AgentStarts, AgentHangs, AgentResumes, AgentDies, AgentStops,
     SocketVanishes, Disturbed
<1> QED BY <1>1, <1>2

(* Nobody notices the end of an agent that serves no socket.               *)
LEMMA UnseenEnd ==
    ASSUME TypeOK, Sound, NEW p \in Pids, EndsUnseen(p), NEW f \in Places
    PROVE  Reachable(f)' <=> Reachable(f)
<1>1. Target(f) \in Places /\ Target(f)' = Target(f)
  BY DEF EndsUnseen, Target, Kind, Sound, PathsSound, LinksAreOurs, Places
<1>2. ~(st[p] = "ok" /\ Behind(Target(f), p))
  <2>1. Behind(Target(f), p) => sock[p] = Target(f)
    BY <1>1 DEF Behind, Kind, Sound, PathsSound, SocketsBelong
  <2> QED BY <1>1, <2>1, NamesAssumption, PathsAssumption DEF EndsUnseen, Serving
<1>3. \A q \in Pids : Behind(Target(f), q)' <=> Behind(Target(f), q)
  BY <1>1 DEF EndsUnseen, Behind, Kind
<1>4. \A q \in Pids \ {p} : st'[q] = st[q]
  BY DEF EndsUnseen, TypeOK
<1>5. st'[p] # "ok"
  BY DEF EndsUnseen, TypeOK
<1> QED BY <1>2, <1>3, <1>4, <1>5 DEF Reachable

(* How a login's own step moves it, and who comes to be said to race.      *)
LEMMA LockSteps ==
    ASSUME TypeOK, NEW l \in Logins, Acts(l)
    PROVE  /\ LockTimesOut(l) =>
                /\ UNCHANGED lock
                /\ pc'[l] = "recheck"
                /\ \A m \in Logins : /\ met'[m] # "nothing"
                                     /\ pc[m] \in Working => met'[m] = "race"
           /\ Begin(l) => /\ pc[l] = "idle" /\ pc'[l] = "probe"
                          /\ met'[l] = IF \E m \in Logins : pc[m] \in Working /\ met[m] = "race"
                                       THEN "race" ELSE "nothing"
           /\ ~LockTimesOut(l) /\ ~Begin(l) =>
                /\ pc'[l] # "idle" => met'[l] = met[l]
                /\ pc'[l] \in Working => pc[l] \in Working
                /\ pc'[l] # "idle" => pc[l] # "idle"
                /\ pc'[l] \in Critical => \/ pc[l] \in Critical /\ UNCHANGED lock
                                          \/ lock' = l
           /\ \A m \in Logins \ {l} : lock = m => lock' = m
<1> USE DEF TypeOK, Acts, Goto, Return, World, Local, Critical, Steps, Working, Locking, Mutating,
            Reaping, Surveying, Starting, Adopting
<1>1. CASE LockTimesOut(l)
  BY <1>1 DEF LockTimesOut, Begin
<1>2. CASE Begin(l)
  BY <1>2 DEF Begin, LockTimesOut
<1>3. CASE Leave(l)
  BY <1>3 DEF Leave, Begin, LockTimesOut
<1>4. CASE Step(l) /\ ~LockTimesOut(l)
  <2>1. pc'[l] # "idle" /\ pc[l] # "idle" /\ met' = met
    BY <1>4 DEF Step, Progress, Refused, FastProbe, TakeLock, LockFails,
     Recheck, ListAgents, ListFails, ReapProbe, Kill, Unlink, ReapEnds,
     Survey, SurveyEnds, Clear, Start, Unbind, Spawn, SpawnFails, Record,
     RecordFails, Unstage, Stage, Swap
  <2>2. /\ pc[l] \in Working
        /\ \A m \in Logins \ {l} : lock = m => lock' = m
    BY <1>4 DEF Step, Progress, Refused, FastProbe, TakeLock, LockFails,
     Recheck, ListAgents, ListFails, ReapProbe, Kill, Unlink, ReapEnds,
     Survey, SurveyEnds, Clear, Start, Unbind, Spawn, SpawnFails, Record,
     RecordFails, Unstage, Stage, Swap
  <2>3. pc'[l] \in Critical => \/ pc[l] \in Critical /\ UNCHANGED lock
                               \/ lock' = l
    BY <1>4 DEF Step, Progress, Refused, FastProbe, TakeLock, LockFails,
     Recheck, ListAgents, ListFails, ReapProbe, Kill, Unlink, ReapEnds,
     Survey, SurveyEnds, Clear, Start, Unbind, Spawn, SpawnFails, Record,
     RecordFails, Unstage, Stage, Swap
  <2> QED BY <1>4, <2>1, <2>2, <2>3 DEF Begin
<1> QED BY <1>1, <1>2, <1>3, <1>4

LEMMA StepExcluded ==
    ASSUME TypeOK, Excluded, ~AllowSlowAgents, SigSilent, Next
    PROVE  Excluded'
<1>1. ASSUME NEW l \in Logins, Acts(l) PROVE Excluded'
  <2>1. CASE LockTimesOut(l)
    <3>1. \A m \in Logins : pc'[m] = pc[m] \/ (m = l /\ pc'[m] = "recheck" /\ pc[m] = "lock")
      BY <1>1, <2>1, LoginFrame DEF LockTimesOut, TypeOK, Goto
    <3>2. \A m \in Logins : pc'[m] \in Working => pc[m] \in Working /\ met'[m] = "race"
      BY <1>1, <2>1, <3>1, LockSteps DEF Working, Locking
    <3>3. \A m \in Logins : met'[m] # "nothing"
      BY <1>1, <2>1, LockSteps
    <3>4. Critical \subseteq Working
      BY DEF Critical, Working, Locking
    <3> QED BY <3>2, <3>3, <3>4 DEF Excluded, LockHeld, RacesAreShared
  <2>2. CASE Begin(l)
    <3>1. \A m \in Logins \ {l} : pc'[m] = pc[m] /\ met'[m] = met[m] /\ (lock = m => lock' = m)
      BY <1>1, <2>2, LoginFrame, LockSteps DEF Begin, LockTimesOut
    <3>2. pc[l] = "idle" /\ pc'[l] = "probe"
          /\ met'[l] = IF \E m \in Logins : pc[m] \in Working /\ met[m] = "race"
                       THEN "race" ELSE "nothing"
      BY <1>1, <2>2, LockSteps
    <3>3. LockHeld'
      BY <3>1, <3>2 DEF Excluded, LockHeld, Critical, Mutating, Reaping, Surveying, Starting, Adopting
    <3>4. RacesAreShared'
      BY <3>1, <3>2 DEF Excluded, RacesAreShared, Working, Locking, Mutating, Reaping, Surveying, Starting, Adopting
    <3> QED BY <3>3, <3>4 DEF Excluded
  <2>3. CASE ~LockTimesOut(l) /\ ~Begin(l)
    <3>1. \A m \in Logins \ {l} : pc'[m] = pc[m] /\ met'[m] = met[m] /\ (lock = m => lock' = m)
      BY <1>1, <2>3, LoginFrame, LockSteps
    <3>2. /\ pc'[l] # "idle" => met'[l] = met[l]
          /\ pc'[l] \in Working => pc[l] \in Working
          /\ pc'[l] # "idle" => pc[l] # "idle"
          /\ pc'[l] \in Critical => \/ pc[l] \in Critical /\ UNCHANGED lock
                                    \/ lock' = l
      BY <1>1, <2>3, LockSteps
    <3>3. "idle" \notin Critical /\ "idle" \notin Working
      BY DEF Critical, Working, Locking, Mutating, Reaping, Surveying, Starting, Adopting
    <3>4. LockHeld'
      BY <3>1, <3>2, <3>3 DEF Excluded, LockHeld
    <3>5. RacesAreShared'
      BY <3>1, <3>2, <3>3 DEF Excluded, RacesAreShared
    <3> QED BY <3>4, <3>5 DEF Excluded
  <2> QED BY <2>1, <2>2, <2>3
<1>2. ASSUME Outside PROVE Excluded'
  BY <1>2, OutsideFrame DEF AllMeet, EndsUnseen, Ensure, TypeOK, Excluded, LockHeld, RacesAreShared
<1> QED BY <1>1, <1>2 DEF Next, Acts

(* The paths: what no step of anybody's does.                              *)

LEMMA StepSigSilent ==
    ASSUME TypeOK, Sound, SigSilent, CurSilent, ~AllowSlowAgents, Next
    PROVE  SigSilent'
<1> SUFFICES ASSUME NEW p \in sig' PROVE st'[p] # "new" /\ ~Serving(p)'
  BY DEF SigSilent, Serving, Behind, Kind
<1>1. p \in sig \/ \E l \in Logins : pc[l] = "kill" /\ p = cur[l]
  BY DEF Next, Step, Progress, Refused, Begin, FastProbe, TakeLock, LockTimesOut, LockFails,
     Recheck, ListAgents, ListFails, ReapProbe, Kill, Unlink, ReapEnds, Survey, SurveyEnds, Clear,
     Start, Unbind, Spawn, SpawnFails, Record, RecordFails, Unstage, Stage, Swap, Leave, World,
     Outside, AgentStarts, AgentHangs, AgentResumes, AgentHandlesTerm, Exits, AgentDies,
     AgentStops, SocketVanishes
<1>2. p \in Pids /\ st[p] # "new" /\ ~Serving(p)
  BY <1>1 DEF SigSilent, CurSilent, TypeOK, Sound, LoginsSound, CurStarted
<1> QED BY <1>2, SilentStays, PidsStay

(* A link comes into being by Stage and Swap only.                         *)
LEMMA StepPlain ==
    ASSUME TypeOK, Sound, ElsewhereIsPlain, Next
    PROVE  ElsewhereIsPlain'
<1> SUFFICES ASSUME NEW f \in Elsewhere PROVE fs'[f].kind \in {"none", "sock"}
  BY DEF ElsewhereIsPlain, Kind
<1>0. f \in Places /\ f # Fixed /\ f # Tmp /\ fs[f].kind \in {"none", "sock"}
  BY DEF Places, ElsewhereIsPlain, Kind
<1>1. ASSUME NEW l \in Logins, Acts(l) PROVE fs'[f].kind \in {"none", "sock"}
  BY <1>0, <1>1 DEF TypeOK, Places, Acts, Step, Progress, Refused, Begin, FastProbe, TakeLock,
     LockTimesOut, LockFails, Recheck, ListAgents, ListFails, ReapProbe, Kill, Unlink,
     WithoutSocket, ReapEnds, Survey, SurveyEnds, Clear, Start, Unbind, Spawn, SpawnFails, Record,
     RecordFails, Unstage, Stage, Swap, Leave, World, Nothing, SockOf
<1>2. ASSUME Outside PROVE fs'[f].kind \in {"none", "sock"}
  BY <1>0, <1>2 DEF TypeOK, Places, Outside, AgentStarts, AgentHangs,
     AgentResumes, AgentHandlesTerm, Exits, AgentDies, AgentStops,
     SocketVanishes, Nothing, SockOf
<1> QED BY <1>1, <1>2 DEF Next, Acts

LEMMA StepLinksWereBound ==
    ASSUME TypeOK, Sound, LinksWereBound, Next
    PROVE  LinksWereBound'
<1> SUFFICES ASSUME NEW f \in Places, fs'[f].kind = "link"
             PROVE  \E p \in Pids : st'[p] # "new" /\ sock'[p] = fs'[f].to
  BY DEF LinksWereBound, Kind
<1>1. CASE \E g \in Places : fs'[f] = fs[g]
  <2>1. PICK p \in Pids : st[p] # "new" /\ sock[p] = fs'[f].to
    BY <1>1 DEF LinksWereBound, Kind
  <2> QED BY <2>1, PidsStay
<1>2. ASSUME NEW l \in Logins, Acts(l)
      PROVE \/ \E g \in Places : fs'[f] = fs[g]
            \/ \E p \in Pids : st'[p] # "new" /\ sock'[p] = fs'[f].to
  <2> USE DEF TypeOK, Places, Nothing, SockOf
  <2>1. CASE Stage(l)
    <3>1. CASE UNCHANGED fs
      BY <3>1
    <3>2. CASE \E p \in Pids : IsLowest(p, found[l]) /\ fs' = [fs EXCEPT ![Tmp] = LinkTo(sock[p])]
      <4>1. PICK p \in Pids : p \in found[l] /\ fs' = [fs EXCEPT ![Tmp] = LinkTo(sock[p])]
        BY <3>2 DEF IsLowest
      <4>2. st[p] # "new"
        BY <4>1 DEF Sound, LoginsSound, FoundOurs
      <4>3. CASE f = Tmp
        <5>1. fs'[f].to = sock[p]
          BY <4>1, <4>3 DEF LinkTo
        <5> QED BY <4>2, <5>1, PidsStay
      <4>4. CASE f # Tmp
        BY <4>1, <4>4
      <4> QED BY <4>3, <4>4
    <3> QED BY <2>1, <3>1, <3>2 DEF Stage
  <2>2. CASE Swap(l)
    BY <2>2 DEF Swap
  <2>3. CASE ~Stage(l) /\ ~Swap(l)
    <3>1. fs'[f] = fs[f]
      BY <1>2, <2>3 DEF Acts, Step, Progress, Refused, Begin, FastProbe, TakeLock,
     LockTimesOut, LockFails, Recheck, ListAgents, ListFails, ReapProbe, Kill, Unlink,
     WithoutSocket, ReapEnds, Survey, SurveyEnds, Clear, Start, Unbind, Spawn, SpawnFails, Record,
     RecordFails, Unstage, Leave, World
    <3> QED BY <3>1
  <2> QED BY <2>1, <2>2, <2>3
<1>3. ASSUME Outside PROVE fs'[f] = fs[f]
  BY <1>3 DEF TypeOK, Places, Outside, AgentStarts, AgentHangs,
     AgentResumes, AgentHandlesTerm, Exits, AgentDies, AgentStops,
     SocketVanishes, Nothing, SockOf
<1> QED BY <1>1, <1>2, <1>3 DEF Next, Acts

LEMMA DownStays ==
    ASSUME TypeOK, ~AllowSlowAgents, Next, NEW p \in Pids, st[p] \notin {"new", "ok"}
    PROVE  st'[p] # "ok"
BY DEF TypeOK, Next, Step, Progress, Refused, Begin, FastProbe, TakeLock, LockTimesOut,
   LockFails, Recheck, ListAgents, ListFails, ReapProbe, Kill, Unlink,
   ReapEnds, Survey, SurveyEnds, Clear, Start, Unbind, Spawn, Fresh, SpawnFails,
   Record, RecordFails, Unstage, Stage, Swap, Leave, World, Outside,
   AgentStarts, AgentHangs, AgentResumes, AgentHandlesTerm, Exits, AgentDies,
   AgentStops, SocketVanishes

(* A signal stays with its process until that ends.                        *)
LEMMA SignalStays ==
    ASSUME TypeOK, Next, NEW p \in Pids, p \in sig
    PROVE  p \in sig' \/ st'[p] = "gone"
BY DEF TypeOK, Next, Step, Progress, Refused, Begin, FastProbe, TakeLock, LockTimesOut,
   LockFails, Recheck, ListAgents, ListFails, ReapProbe, Kill, Unlink, ReapEnds, Survey,
   SurveyEnds, Clear, Start, Unbind, Spawn, SpawnFails, Record, RecordFails, Unstage, Stage,
   Swap, Leave, World, Outside, AgentStarts, AgentHangs, AgentResumes, AgentHandlesTerm, Exits,
   AgentDies, AgentStops, SocketVanishes

(* An agent off the fixed socket, or told to end, is so for good.          *)
LEMMA OffStays ==
    ASSUME TypeOK, ~AllowSlowAgents, Next, NEW p \in Pids, st[p] # "new", ~OnFixed(p)
    PROVE  ~OnFixed(p)'
<1>1. CASE st[p] # "ok"
  BY <1>1, DownStays DEF OnFixed
<1>2. CASE sock[p] # Fixed
  BY <1>2, PidsStay DEF OnFixed
<1>3. CASE p \in sig
  BY <1>3, SignalStays DEF OnFixed
<1> QED BY <1>1, <1>2, <1>3 DEF OnFixed

(* Nobody binds a path of Elsewhere that a link leads to.                  *)
LEMMA LinkedNotBound ==
    ASSUME TypeOK, Sound, LinksWereBound, Next,
           NEW f \in Places, Kind(f) = "link", fs'[fs[f].to].kind = "sock"
    PROVE  fs'[fs[f].to] = fs[fs[f].to]
<1> DEFINE t == fs[f].to
<1>1. t \in Elsewhere /\ t \in Places /\ t # Fixed /\ t # Tmp
  BY DEF Sound, PathsSound, LinksAreOurs, Places
<1>2. PICK q \in Pids : st[q] # "new" /\ sock[q] = t
  BY DEF LinksWereBound
<1>3. ASSUME NEW l \in Logins, Acts(l) PROVE fs'[t] = fs[t]
  BY <1>1, <1>3 DEF TypeOK, Acts, Step, Progress, Refused, Begin, FastProbe, TakeLock,
     LockTimesOut, LockFails, Recheck, ListAgents, ListFails, ReapProbe, Kill, Unlink,
     WithoutSocket, ReapEnds, Survey, SurveyEnds, Clear, Start, Unbind, Spawn, SpawnFails, Record,
     RecordFails, Unstage, Stage, Swap, Leave, World, Nothing
<1>4. ASSUME Outside PROVE fs'[t] = fs[t]
  BY <1>1, <1>2, <1>4 DEF TypeOK, Outside, AgentStarts, AgentHangs,
     AgentResumes, AgentHandlesTerm, Exits, AgentDies, AgentStops,
     SocketVanishes, Nothing
<1> QED BY <1>3, <1>4 DEF Next, Acts

(* A fixed socket nobody answers on comes back by Spawn and Swap only.     *)
LEMMA DeadStays ==
    ASSUME TypeOK, Sound, LinksWereBound, ~AllowSlowAgents, Next,
           \A l \in Logins : ~Spawn(l) /\ ~Swap(l),
           ~Reachable(Fixed)
    PROVE  ~Reachable(Fixed)'
<1> SUFFICES ASSUME NEW p \in Pids, st'[p] = "ok", Behind(Target(Fixed), p)'
             PROVE  FALSE
  BY DEF Reachable
<1>1. fs'[Fixed] \in {fs[Fixed], Nothing}
  <2>1. ASSUME NEW l \in Logins, Acts(l) PROVE fs'[Fixed] \in {fs[Fixed], Nothing}
    BY <2>1 DEF TypeOK, Places, Acts, Step, Progress, Refused, Begin, FastProbe, TakeLock,
     LockTimesOut, LockFails, Recheck, ListAgents, ListFails, ReapProbe, Kill, Unlink,
     WithoutSocket, ReapEnds, Survey, SurveyEnds, Clear, Start, Unbind, SpawnFails, Record,
     RecordFails, Unstage, Stage, Leave, World
  <2>2. ASSUME Outside PROVE fs'[Fixed] \in {fs[Fixed], Nothing}
    BY <2>2 DEF TypeOK, Places, Outside, AgentStarts, AgentHangs,
     AgentResumes, AgentHandlesTerm, Exits, AgentDies, AgentStops, SocketVanishes
  <2> QED BY <2>1, <2>2 DEF Next, Acts
<1>2. fs'[Fixed] = fs[Fixed]
  BY <1>1 DEF Behind, Target, Kind, Nothing
<1> DEFINE t == IF Kind(Fixed) = "link" THEN fs[Fixed].to ELSE Fixed
<1>3. t \in Places /\ fs'[t].kind = "sock" /\ fs'[t].pid = p
  BY <1>2 DEF Behind, Target, Kind, Sound, PathsSound, LinksAreOurs, Places
<1>4. fs'[t] = fs[t]
  BY <1>2, <1>3, LinkedNotBound DEF Places
<1>5. st[p] # "new" /\ Behind(Target(Fixed), p)
  BY <1>3, <1>4 DEF Sound, PathsSound, SocketsBelong, Behind, Target, Kind
<1>6. st[p] # "ok"
  BY <1>5 DEF Reachable
<1> QED BY <1>5, <1>6, DownStays

(* What a path of Elsewhere leads to is what is bound there.               *)
LEMMA ReachableElsewhere ==
    ASSUME ElsewhereIsPlain, NEW f \in Elsewhere
    PROVE  Reachable(f) <=> \E p \in Pids : st[p] = "ok" /\ Behind(f, p)
BY DEF ElsewhereIsPlain, Reachable, Target

LEMMA ServingOnFixed ==
    ASSUME NEW p \in Pids, Serving(p), sock[p] = Fixed
    PROVE  Reachable(Fixed)
BY DEF Serving, Reachable, Behind, Target

-----------------------------------------------------------------------------
(* What one login's work does to the others: as long as nobody races, only *)
(* the holder of the lock changes anything, and only while the fixed       *)
(* socket is dead.                                                         *)

LEMMA Places2 ==
    /\ Changing \subseteq Critical /\ "record" \in Critical
    /\ Changing \subseteq Mutating \ {"record"}
    /\ Critical \subseteq Working
    /\ {"idle", "done", "failed"} \cap Working = {}
BY DEF Changing, Critical, Working, Locking, Mutating, Reaping, Surveying, Starting, Adopting

LEMMA Alone ==
    ASSUME Excluded, NEW l \in Logins, NEW m \in Logins, l # m,
           pc[l] \in Critical, pc[m] \in Critical
    PROVE  met[l] = "race" /\ met[m] = "race"
BY Places2 DEF Excluded, LockHeld, RacesAreShared

LEMMA Spared ==
    ASSUME TypeOK, Excluded, MutatesTheDead, HandedSocketLive,
           NEW l \in Logins, Acts(l), NEW m \in Logins, m # l,
           \/ pc[m] \in Critical /\ met'[m] # "race"
           \/ pc[m] = "done" /\ met'[m] = "nothing"
    PROVE  /\ met'[m] = met[m]
           /\ pc[l] \notin Changing
           /\ pc[m] \in Critical => pc[l] \notin Critical
           /\ UNCHANGED <<fs, st, sock, sig>>
<1>1. ~LockTimesOut(l)
  BY LockSteps, Places2
<1>2. met'[m] = met[m]
  BY <1>1, LoginFrame
<1>3. CASE pc[m] \in Critical
  <2>1. pc[l] \notin Critical
    BY <1>2, <1>3, Alone, Places2
  <2> QED BY <1>2, <2>1, LoginFrame, Places2
<1>4. CASE pc[m] = "done"
  <2>1. Reachable(Fixed)
    BY <1>2, <1>4, Places2 DEF HandedSocketLive, Critical
  <2>2. pc[l] \notin Changing
    <3>1. SUFFICES ASSUME pc[l] \in Changing PROVE FALSE
      OBVIOUS
    <3>2. met[l] # "race"
      BY <3>1, <1>2, <1>4, Places2 DEF Excluded, RacesAreShared
    <3> QED BY <3>1, <3>2, <2>1, Places2 DEF MutatesTheDead
  <2>3. pc[m] \notin Critical
    BY <1>4, Places2
  <2> QED BY <1>1, <1>2, <2>2, <2>3, LoginFrame
<1> QED BY <1>3, <1>4

LEMMA OneActs ==
    ASSUME TypeOK, NEW l \in Logins, Acts(l), NEW m \in Logins, m # l
    PROVE  ~Spawn(m) /\ ~Swap(m)
<1>1. pc'[m] = pc[m]
  BY LoginFrame
<1> QED BY <1>1 DEF Spawn, Swap, Goto, Return, TypeOK

LEMMA NobodyActs ==
    ASSUME TypeOK, SigSilent, ~AllowSlowAgents, Outside, NEW m \in Logins
    PROVE  ~Spawn(m) /\ ~Swap(m)
<1>1. pc' = pc
  BY OutsideFrame DEF Ensure
<1> QED BY <1>1 DEF Spawn, Swap, Goto, Return, TypeOK

LEMMA SameWorld ==
    ASSUME UNCHANGED <<fs, st>>, NEW f
    PROVE  Reachable(f)' <=> Reachable(f)
BY DEF Reachable, Behind, Target, Kind

LEMMA StepMutatesTheDead ==
    ASSUME TypeOK, Sound, Excluded, Paths, Orderly, ~AllowSlowAgents, Next
    PROVE  MutatesTheDead'
<1> SUFFICES ASSUME NEW m \in Logins, pc'[m] \in Mutating \ {"record"}, met'[m] # "race"
             PROVE  ~Reachable(Fixed)'
  BY DEF MutatesTheDead
<1> USE DEF Paths, Orderly
<1>1. ASSUME Outside PROVE ~Reachable(Fixed)'
  <2>1. pc[m] \in Mutating \ {"record"} /\ met[m] # "race"
    BY <1>1, OutsideFrame DEF AllMeet, EndsUnseen, Ensure, TypeOK
  <2> QED BY <1>1, <2>1, DeadStays, NobodyActs DEF MutatesTheDead
<1>2. ASSUME NEW l \in Logins, Acts(l), m # l PROVE ~Reachable(Fixed)'
  <2>1. pc[m] \in Mutating \ {"record"}
    BY <1>2, LoginFrame
  <2>2. met[m] # "race" /\ UNCHANGED <<fs, st>>
    BY <1>2, <2>1, Spared DEF Critical
  <2> QED BY <2>1, <2>2, SameWorld DEF MutatesTheDead
<1>3. ASSUME Acts(m) PROVE ~Reachable(Fixed)'
  <2>1. CASE Recheck(m)
    <3>1. pc'[m] # "done"
      BY DEF Mutating, Reaping, Surveying, Starting, Adopting
    <3>2. ~Reachable(Fixed) /\ UNCHANGED <<fs, st>>
      BY <2>1, <3>1 DEF Recheck, World, Return, Goto, TypeOK
    <3> QED BY <3>2, SameWorld
  <2>2. CASE ~Recheck(m)
    <3>1. pc[m] \in Mutating \ {"record"} /\ ~Spawn(m) /\ ~Swap(m)
      BY <1>3, <2>2 DEF TypeOK, Goto, Return, Mutating, Reaping, Surveying, Starting, Adopting,
         Acts, Step, Progress, Refused, Begin, FastProbe, TakeLock, LockTimesOut, LockFails,
         ListAgents, ListFails, ReapProbe, Kill, Unlink, ReapEnds,
         Survey, SurveyEnds, Clear, Start, Unbind, Spawn, SpawnFails, Record,
         RecordFails, Unstage, Stage, Swap, Leave
    <3>2. met[m] # "race"
      <4>1. pc[m] \notin {"idle", "lock"} /\ pc'[m] # "idle"
        BY <3>1 DEF Mutating, Reaping, Surveying, Starting, Adopting
      <4> QED BY <1>3, <4>1, LockSteps DEF Begin, LockTimesOut
    <3> QED BY <1>3, <3>1, <3>2, OneActs, DeadStays DEF MutatesTheDead
  <2> QED BY <2>1, <2>2
<1> QED BY <1>1, <1>2, <1>3 DEF Next, Acts

(* A login's own steps while it never raced, from where it stands.          *)
LEMMA Met ==
    ASSUME TypeOK, NEW m \in Logins, Acts(m), pc[m] \notin {"idle", "lock"}, pc'[m] # "idle"
    PROVE  met'[m] = met[m]
BY LockSteps DEF Begin, LockTimesOut

(* Which step takes a login to where it comes to stand.                    *)
LEMMA CameBy ==
    ASSUME TypeOK, NEW m \in Logins, Acts(m)
    PROVE  /\ pc'[m] \in {"reap", "kill", "unlink"} =>
                ListAgents(m) \/ ReapProbe(m) \/ Kill(m) \/ Unlink(m)
           /\ pc'[m] = "relist" => ReapEnds(m)
           /\ pc'[m] = "survey" => ListAgents(m) \/ Survey(m)
           /\ pc'[m] = "clear" => SurveyEnds(m)
           /\ pc'[m] = "start" => Clear(m)
           /\ pc'[m] = "unbind" => Start(m)
           /\ pc'[m] = "spawn" => Start(m) \/ Unbind(m)
           /\ pc'[m] = "record" => Spawn(m)
           /\ pc'[m] = "unstage" => SurveyEnds(m)
           /\ pc'[m] = "stage" => Unstage(m)
           /\ pc'[m] = "swap" => Stage(m)
           /\ pc'[m] = "done" => FastProbe(m) \/ Recheck(m) \/ Record(m) \/ Swap(m)
BY DEF TypeOK, Goto, Return, Acts, Step, Progress, Refused, Begin, FastProbe, TakeLock,
   LockTimesOut, LockFails, Recheck, ListAgents, ListFails, ReapProbe, Kill, Unlink, ReapEnds,
   Survey, SurveyEnds, Clear, Start, Unbind, Spawn, SpawnFails, Record,
   RecordFails, Unstage, Stage, Swap, Leave

(* An agent comes to be on the fixed socket by Spawn only.                 *)
LEMMA OnFixedBySpawn ==
    ASSUME TypeOK, ~AllowSlowAgents, Next, \A l \in Logins : ~Spawn(l),
           NEW p \in Pids, OnFixed(p)'
    PROVE  OnFixed(p)
<1>0. p \in sig => p \in sig' \/ st'[p] = "gone"
  BY SignalStays
<1>1. ASSUME NEW l \in Logins, Acts(l) PROVE OnFixed(p)
  <2>1. UNCHANGED sock
    BY <1>1 DEF Acts, Step, Progress, Refused, Begin, FastProbe, TakeLock, LockTimesOut,
       LockFails, Recheck, ListAgents, ListFails, ReapProbe, Kill, Unlink, ReapEnds,
       Survey, SurveyEnds, Clear, Start, Unbind, SpawnFails, Record,
       RecordFails, Unstage, Stage, Swap, Leave, World
  <2>2. st'[p] \in {st[p], "gone"}
    BY <1>1 DEF TypeOK, Acts, Step, Progress, Refused, Begin, FastProbe, TakeLock, LockTimesOut,
       LockFails, Recheck, ListAgents, ListFails, ReapProbe, Kill, Unlink, ReapEnds,
       Survey, SurveyEnds, Clear, Start, Unbind, SpawnFails, Record,
       RecordFails, Unstage, Stage, Swap, Leave, World
  <2> QED BY <1>0, <2>1, <2>2 DEF OnFixed
<1>2. ASSUME Outside PROVE OnFixed(p)
  <2>1. ASSUME NEW q \in Pids, NEW f \in Elsewhere \cup {NoPath}, AgentStarts(q, f)
        PROVE  OnFixed(p)
    BY <1>0, <2>1 DEF AgentStarts, OnFixed, TypeOK, Places
  <2>2. CASE UNCHANGED sock /\ st'[p] \in {st[p], "hung", "gone"}
    BY <1>0, <2>2 DEF OnFixed
  <2> QED BY <1>2, <2>1, <2>2 DEF TypeOK, Outside, AgentHangs, AgentResumes, AgentHandlesTerm,
        Exits, AgentDies, AgentStops, SocketVanishes
<1> QED BY <1>1, <1>2 DEF Next, Acts

LEMMA StepReapsThemAll ==
    ASSUME TypeOK, TypeOK', Sound, Excluded, Paths, Orderly, ~AllowSlowAgents, Next
    PROVE  ReapsThemAll'
<1> SUFFICES ASSUME NEW m \in Logins, met'[m] # "race"
             PROVE  /\ pc'[m] \in {"reap", "kill", "unlink"} =>
                          \A p \in Pids : OnFixed(p)' => p \in list'[m]
                    /\ pc'[m] \in Surveying \cup (Starting \ {"record"}) =>
                          \A p \in Pids : ~OnFixed(p)'
                    /\ pc'[m] = "unlink" => ~OnFixed(cur[m])'
  BY DEF ReapsThemAll, OnFixed
<1> USE DEF Paths, Orderly
<1>9. \A l \in Logins : pc[l] = "unlink" => cur[l] \in Pids /\ st[cur[l]] # "new"
  BY DEF TypeOK, Sound, LoginsSound, CurStarted
<1> DEFINE Goal == /\ pc'[m] \in {"reap", "kill", "unlink"} =>
                         \A p \in Pids : OnFixed(p)' => p \in list'[m]
                   /\ pc'[m] \in Surveying \cup (Starting \ {"record"}) =>
                         \A p \in Pids : ~OnFixed(p)'
                   /\ pc'[m] = "unlink" => ~OnFixed(cur[m])'
<1>0. {"reap", "kill", "unlink"} \cup Surveying \cup Starting \subseteq Critical
  BY DEF Critical, Mutating, Reaping
<1>1. CASE /\ pc'[m] = pc[m] /\ list'[m] = list[m] /\ cur'[m] = cur[m] /\ met[m] # "race"
           /\ pc[m] \in Critical => \A l \in Logins : ~Spawn(l)
  <2>1. pc[m] \in Critical => \A p \in Pids : OnFixed(p)' => OnFixed(p)
    BY <1>1, OnFixedBySpawn
  <2>2. pc'[m] = "unlink" => ~OnFixed(cur[m])'
    <3>1. SUFFICES ASSUME pc[m] = "unlink", NEW c \in Pids, c = cur[m] PROVE ~OnFixed(c)'
      BY <1>1, <1>9 DEF OnFixed
    <3>2. st[c] # "new" /\ ~OnFixed(c)
      BY <1>1, <1>9, <3>1 DEF ReapsThemAll
    <3> QED BY <3>2, OffStays
  <2> QED BY <1>0, <1>1, <2>1, <2>2 DEF ReapsThemAll
<1>2. ASSUME Outside PROVE Goal
  <2>1. /\ pc'[m] = pc[m] /\ list'[m] = list[m] /\ cur'[m] = cur[m] /\ met[m] # "race"
    BY <1>2, OutsideFrame DEF AllMeet, EndsUnseen, Ensure, Local, TypeOK
  <2> QED BY <1>1, <1>2, <2>1, NobodyActs
<1>3. ASSUME NEW l \in Logins, Acts(l), m # l PROVE Goal
  <2>1. pc'[m] = pc[m] /\ list'[m] = list[m] /\ cur'[m] = cur[m]
    BY <1>3, LoginFrame
  <2>2. CASE pc[m] \in Critical
    <3>1. met[m] # "race" /\ pc[l] \notin Changing
      BY <1>3, <2>2, Spared
    <3>2. ~Spawn(l)
      BY <3>1 DEF Spawn, Changing
    <3> QED BY <1>1, <1>3, <2>1, <3>1, <3>2, OneActs
  <2>3. CASE pc[m] \notin Critical
    BY <1>0, <2>1, <2>3
  <2> QED BY <2>2, <2>3
<1>4. ASSUME Acts(m), pc'[m] \in {"reap", "kill", "unlink"} \cup Surveying \cup (Starting \ {"record"})
      PROVE  Goal
  <2>1. pc[m] \notin {"idle", "lock"} /\ pc'[m] # "idle"
    BY <1>4, CameBy DEF Surveying, Starting, ListAgents, ReapProbe, Kill, Unlink, ReapEnds, Survey,
       SurveyEnds, Clear, Start, Unbind
  <2>2. met[m] # "race"
    BY <1>4, <2>1, Met
  <2>3. \A l \in Logins : ~Spawn(l)
    <3>1. ~Spawn(m)
      BY <1>4 DEF Spawn, Goto, TypeOK, Surveying, Starting
    <3> QED BY <1>4, <3>1, OneActs
  <2>4. \A p \in Pids : OnFixed(p)' => OnFixed(p)
    BY <2>3, OnFixedBySpawn
  <2>5. CASE ListAgents(m)
    <3>1. CASE pc[m] = "list"
      BY <2>4, <2>5, <3>1 DEF ListAgents, Goto, TypeOK, Running, OnFixed, Surveying, Starting
    <3>2. CASE pc[m] = "relist"
      BY <2>2, <2>4, <2>5, <3>2 DEF ListAgents, Goto, TypeOK, Surveying, Starting, ReapsThemAll
    <3> QED BY <2>5, <3>1, <3>2 DEF ListAgents
  <2>6. CASE ReapProbe(m)
    <3>1. ~Reachable(Fixed)
      BY <2>2, <2>6 DEF ReapProbe, MutatesTheDead, Mutating, Reaping
    <3>2. pc'[m] \in {"reap", "kill"}
      BY <2>6 DEF ReapProbe, Goto, TypeOK
    <3>3. ASSUME NEW p \in Pids, OnFixed(p) PROVE p \in list'[m]
      <4>1. p \in list[m] /\ Reapable(p)
        BY <2>2, <2>6, <3>1, <3>3 DEF ReapProbe, ReapsThemAll, Reapable, OnFixed, Ours, Places
      <4> QED BY <2>6, <4>1 DEF ReapProbe, TypeOK
    <3> QED BY <2>4, <3>2, <3>3 DEF Surveying, Starting
  <2>7. CASE Kill(m)
    <3>1. cur[m] \in Pids /\ cur' = cur /\ list' = list /\ pc'[m] = "unlink"
      BY <2>7 DEF Kill, TypeOK, Local, Goto
    <3>2. ~OnFixed(cur[m])'
      BY <2>7, <3>1 DEF Kill, OnFixed, Running, TypeOK
    <3>3. \A p \in Pids : OnFixed(p) => p \in list[m]
      BY <2>2, <2>7 DEF Kill, ReapsThemAll
    <3> QED BY <2>4, <3>1, <3>2, <3>3 DEF Surveying, Starting
  <2>8. CASE Unlink(m)
    <3>1. pc[m] = "unlink" /\ pc'[m] = "reap" /\ list'[m] = list[m] \ {cur[m]}
      BY <2>8 DEF Unlink, Goto, TypeOK
    <3>2. \A p \in Pids : OnFixed(p) => p \in list[m] /\ p # cur[m]
      BY <2>2, <3>1 DEF ReapsThemAll, OnFixed
    <3> QED BY <2>4, <3>1, <3>2 DEF Surveying, Starting
  <2>9. CASE ReapEnds(m)
    BY <2>2, <2>4, <2>9 DEF ReapEnds, Goto, TypeOK, ReapsThemAll, Surveying, Starting
  <2>10. CASE Survey(m) \/ SurveyEnds(m) \/ Clear(m) \/ Start(m) \/ Unbind(m)
    <3>1. pc[m] \in Surveying \cup (Starting \ {"record"}) /\ pc'[m] \notin {"reap", "kill", "unlink"}
      BY <2>10 DEF Survey, SurveyEnds, Clear, Start, Unbind, Goto, TypeOK, Surveying, Starting
    <3> QED BY <2>2, <2>4, <3>1 DEF ReapsThemAll
  <2> QED BY <1>4, CameBy, <2>5, <2>6, <2>7, <2>8, <2>9, <2>10 DEF Surveying, Starting
<1> QED BY <1>2, <1>3, <1>4, <1>0 DEF Next, Acts

LEMMA StepFoundInTime ==
    ASSUME TypeOK, FoundInTime, Next
    PROVE  FoundInTime'
<1> SUFFICES ASSUME NEW m \in Logins, pc'[m] \notin {"survey"} \cup Adopting
             PROVE  found'[m] = {}
  BY DEF FoundInTime
<1>1. ASSUME Acts(m) PROVE found'[m] = {}
  BY <1>1 DEF FoundInTime, Adopting, TypeOK, Goto, Return, World, Local,
   Acts, Step, Progress, Refused, Begin, FastProbe, TakeLock,
   LockTimesOut, LockFails, Recheck, ListAgents, ListFails, ReapProbe, Kill, Unlink, ReapEnds,
   Survey, SurveyEnds, Clear, Start, Unbind, Spawn, SpawnFails, Record,
   RecordFails, Unstage, Stage, Swap, Leave
<1>2. ASSUME NEW l \in Logins, Acts(l), l # m PROVE found'[m] = {}
  BY <1>2, LoginFrame DEF FoundInTime
<1>3. ASSUME Outside PROVE found'[m] = {}
  <2>1. UNCHANGED <<pc, found>>
    BY <1>3 DEF Outside, AgentStarts, AgentHangs, AgentResumes, AgentHandlesTerm,
       AgentDies, AgentStops, SocketVanishes, Ensure, Local
  <2> QED BY <2>1 DEF FoundInTime
<1> QED BY <1>1, <1>2, <1>3 DEF Next, Acts

LEMMA StepFoundAnswers ==
    ASSUME TypeOK, Sound, Excluded, Paths, Orderly, ~AllowSlowAgents, Next
    PROVE  FoundAnswers'
<1> SUFFICES ASSUME NEW m \in Logins, met'[m] = "nothing"
             PROVE  /\ pc'[m] \in {"survey"} \cup Adopting =>
                          \A p \in found'[m] : Reachable(sock[p])'
                    /\ pc'[m] = "swap" /\ Kind(Tmp)' # "none" => Reachable(fs[Tmp].to)'
  BY DEF FoundAnswers, Kind
<1> USE DEF Paths, Orderly
<1> DEFINE Goal == /\ pc'[m] \in {"survey"} \cup Adopting =>
                         \A p \in found'[m] : Reachable(sock[p])'
                   /\ pc'[m] = "swap" /\ Kind(Tmp)' # "none" => Reachable(fs[Tmp].to)'
<1>1. ASSUME Outside PROVE Goal
  <2>1. PICK q \in Pids : EndsUnseen(q)
    BY <1>1, OutsideFrame DEF AllMeet
  <2>2. pc' = pc /\ found' = found /\ met' = met /\ fs' = fs /\ sock' = sock
    BY <1>1, <2>1, OutsideFrame DEF EndsUnseen, Ensure, Local
  <2>3. \A p \in found[m] : sock[p] \in Places
    BY DEF Sound, LoginsSound, FoundOurs, Places
  <2>4. Kind(Tmp) # "none" => fs[Tmp].to \in Places
    BY DEF Sound, PathsSound, TmpOnlyLinks, LinksAreOurs, Places
  <2> QED BY <2>1, <2>2, <2>3, <2>4, UnseenEnd DEF FoundAnswers, Kind
<1>2. CASE pc'[m] \notin {"survey"} \cup Adopting
  BY <1>2 DEF Adopting
<1>3. ASSUME NEW l \in Logins, Acts(l), m # l, pc'[m] \in {"survey"} \cup Adopting
      PROVE  Goal
  <2>1. pc'[m] = pc[m] /\ found'[m] = found[m]
    BY <1>3, LoginFrame
  <2>2. pc[m] \in Critical
    BY <1>3, <2>1 DEF Critical, Mutating, Surveying
  <2>3. met[m] = "nothing" /\ UNCHANGED <<fs, st, sock>>
    BY <1>3, <2>2, Spared
  <2> QED BY <1>3, <2>1, <2>3, SameWorld DEF FoundAnswers, Kind
<1>4. ASSUME Acts(m), pc'[m] \in {"survey"} \cup Adopting
      PROVE  Goal
  <2>1. pc[m] \notin {"idle", "lock"} /\ pc'[m] # "idle"
    BY <1>4, CameBy DEF Adopting, ListAgents, Survey, SurveyEnds, Unstage, Stage
  <2>2. met[m] = "nothing"
    BY <1>4, <2>1, Met
  <2>3. CASE ListAgents(m)
    <3>1. pc'[m] = "survey" /\ found'[m] = {}
      BY <1>4, <2>3 DEF ListAgents, Goto, TypeOK, FoundInTime, Adopting
    <3> QED BY <3>1
  <2>4. CASE Survey(m)
    <3>1. /\ pc'[m] = "survey" /\ pc[m] = "survey" /\ UNCHANGED <<fs, st, sock>>
          /\ \A p \in found'[m] : p \in found[m] \/ Adoptable(p)
      BY <2>4 DEF Survey, World, TypeOK
    <3> QED BY <2>2, <3>1, SameWorld DEF FoundAnswers, Adoptable
  <2>5. CASE SurveyEnds(m)
    <3>1. /\ pc'[m] # "swap" /\ pc[m] = "survey" /\ UNCHANGED <<fs, st, sock>>
          /\ found'[m] = found[m]
      BY <2>5 DEF SurveyEnds, World, Local, TypeOK, Goto
    <3> QED BY <2>2, <3>1, SameWorld DEF FoundAnswers
  <2>6. ASSUME NEW p \in found[m], pc[m] \in Adopting,
               UNCHANGED <<st, sock>>, \A f \in Elsewhere : fs'[f] = fs[f]
        PROVE  /\ sock[p] \in Elsewhere
               /\ Reachable(sock[p])'
               /\ sock'[p] = sock[p]
    <3>1. sock[p] \in Elsewhere /\ Reachable(sock[p])
      BY <2>2, <2>6 DEF Sound, LoginsSound, FoundOurs, FoundAnswers
    <3>2. fs'[sock[p]] = fs[sock[p]] /\ sock'[p] = sock[p]
      BY <2>6, <3>1
    <3>3. fs[sock[p]].kind # "link"
      BY <3>1 DEF ElsewhereIsPlain, Kind
    <3> QED BY <2>6, <3>1, <3>2, <3>3 DEF Reachable, Behind, Target, Kind
  <2>7. CASE Unstage(m)
    <3>1. /\ pc'[m] = "stage" /\ pc[m] \in Adopting /\ UNCHANGED <<st, sock>>
          /\ \A f \in Elsewhere : fs'[f] = fs[f]
          /\ found'[m] = found[m]
      BY <2>7 DEF Unstage, Local, TypeOK, Goto, Adopting, Places
    <3> QED BY <2>6, <3>1
  <2>8. CASE Stage(m) /\ pc'[m] = "swap"
    <3>1. Kind(Tmp) = "none"
      BY <2>8 DEF Stage, Return, Goto, TypeOK
    <3>2. PICK p \in found[m] : fs' = [fs EXCEPT ![Tmp] = LinkTo(sock[p])]
      BY <2>8, <3>1 DEF Stage, IsLowest
    <3>3. /\ pc[m] \in Adopting /\ UNCHANGED <<st, sock>>
          /\ \A f \in Elsewhere : fs'[f] = fs[f]
          /\ found'[m] = found[m]
          /\ fs'[Tmp] = LinkTo(sock[p])
      BY <2>8, <3>1, <3>2 DEF Stage, Local, TypeOK, Goto, Adopting, Places
    <3>4. fs'[Tmp].to = sock[p] /\ sock'[p] = sock[p]
      BY <2>6, <3>3 DEF LinkTo
    <3>5. Reachable(fs[Tmp].to)'
      BY <2>6, <3>3, <3>4 DEF Reachable, Behind, Target, Kind
    <3> QED BY <2>6, <3>3, <3>5
  <2> QED BY <1>4, CameBy, <2>3, <2>4, <2>5, <2>7, <2>8 DEF Adopting
<1> QED BY <1>1, <1>2, <1>3, <1>4 DEF Next, Acts

LEMMA StepHandedSocketLive ==
    ASSUME TypeOK, Sound, Excluded, Paths, Orderly, ~AllowSlowAgents, Next
    PROVE  HandedSocketLive'
<1> SUFFICES ASSUME NEW m \in Logins, pc'[m] = "done", met'[m] = "nothing"
             PROVE  Reachable(Fixed)'
  BY DEF HandedSocketLive
<1> USE DEF Paths, Orderly
<1>1. ASSUME Outside PROVE Reachable(Fixed)'
  <2>1. PICK q \in Pids : EndsUnseen(q)
    BY <1>1, OutsideFrame DEF AllMeet
  <2>2. pc[m] = "done" /\ met[m] = "nothing"
    BY <1>1, <2>1, OutsideFrame DEF EndsUnseen, Ensure
  <2> QED BY <2>1, <2>2, UnseenEnd DEF HandedSocketLive, Places
<1>2. ASSUME NEW l \in Logins, Acts(l), m # l PROVE Reachable(Fixed)'
  <2>1. pc[m] = "done"
    BY <1>2, LoginFrame
  <2>2. met[m] = "nothing" /\ UNCHANGED <<fs, st>>
    BY <1>2, <2>1, Spared
  <2> QED BY <2>1, <2>2, SameWorld DEF HandedSocketLive
<1>3. ASSUME Acts(m) PROVE Reachable(Fixed)'
  <2>1. pc[m] \in Working /\ met[m] = "nothing"
    <3>1. pc[m] \in {"probe", "recheck", "record", "swap"} /\ pc'[m] # "idle"
      BY <1>3, CameBy DEF FastProbe, Recheck, Record, Swap
    <3> QED BY <1>3, <3>1, Met DEF Working, Locking, Mutating, Starting, Adopting
  <2>2. CASE FastProbe(m) \/ Recheck(m)
    <3>1. Reachable(Fixed) /\ UNCHANGED <<fs, st>>
      BY <2>2 DEF FastProbe, Recheck, World, Goto, TypeOK
    <3> QED BY <3>1, SameWorld
  <2>3. CASE Record(m)
    <3>1. pc[m] = "record" /\ UNCHANGED <<fs, st>>
      BY <2>3 DEF Record
    <3> QED BY <2>1, <3>1, SameWorld, ServingOnFixed DEF StartedServes
  <2>4. CASE Swap(m)
    <3>1. pc[m] = "swap" /\ Kind(Tmp) # "none" /\ UNCHANGED st
          /\ fs' = [fs EXCEPT ![Fixed] = fs[Tmp], ![Tmp] = Nothing]
      BY <2>4 DEF Swap, Return, Goto, TypeOK
    <3>2. Kind(Tmp) = "link" /\ fs[Tmp].to \in Elsewhere /\ Reachable(fs[Tmp].to)
      BY <2>1, <3>1 DEF FoundAnswers, Sound, PathsSound, TmpOnlyLinks, LinksAreOurs, Places
    <3>3. PICK p \in Pids : st[p] = "ok" /\ Behind(fs[Tmp].to, p)
      BY <3>2, ReachableElsewhere
    <3>4. fs'[Fixed] = fs[Tmp] /\ fs'[fs[Tmp].to] = fs[fs[Tmp].to]
      BY <3>1, <3>2 DEF TypeOK, Places
    <3>5. Behind(Target(Fixed), p)'
      BY <3>2, <3>3, <3>4 DEF Behind, Target, Kind
    <3> QED BY <3>1, <3>3, <3>5 DEF Reachable
  <2> QED BY <1>3, CameBy, <2>2, <2>3, <2>4
<1> QED BY <1>1, <1>2, <1>3 DEF Next, Acts

LEMMA StepStartedServes ==
    ASSUME TypeOK, Sound, Excluded, Paths, Orderly, ~AllowSlowAgents, Next
    PROVE  StartedServes'
<1> DEFINE Served(m) ==
             /\ started[m] \in Pids
             /\ sock[started[m]] = Fixed
             /\ Serving(started[m])
             /\ \A p \in Pids : OnFixed(p) => p = started[m]
<1> SUFFICES ASSUME NEW m \in Logins
             PROVE  /\ pc'[m] \in {"idle"} \cup (Working \ {"record"}) => started'[m] = NoPid
                    /\ pc'[m] = "record" => started'[m] # NoPid
                    /\ pc'[m] \in {"record", "done"} /\ started'[m] # NoPid /\ met'[m] = "nothing" =>
                          Served(m)'
  BY DEF StartedServes, OnFixed, Serving, Behind, Kind
<1> USE DEF Paths, Orderly
<1> DEFINE Goal == /\ pc'[m] \in {"idle"} \cup (Working \ {"record"}) => started'[m] = NoPid
                   /\ pc'[m] = "record" => started'[m] # NoPid
                   /\ pc'[m] \in {"record", "done"} /\ started'[m] # NoPid /\ met'[m] = "nothing" =>
                         Served(m)'
<1>1. ASSUME Outside PROVE Goal
  <2>1. pc' = pc /\ started' = started
    BY <1>1, OutsideFrame DEF Ensure
  <2>2. CASE AllMeet
    BY <2>1, <2>2 DEF AllMeet, StartedServes
  <2>3. ASSUME NEW q \in Pids, EndsUnseen(q) PROVE Goal
    <3>1. \A p \in Pids \ {q} : st'[p] = st[p] /\ (p \in sig' <=> p \in sig)
      BY <2>3 DEF EndsUnseen, TypeOK
    <3>2. st'[q] = "gone" /\ ~Serving(q) /\ fs' = fs /\ sock' = sock /\ met' = met
      BY <2>3 DEF EndsUnseen, TypeOK
    <3> QED BY <2>1, <3>1, <3>2 DEF StartedServes, Serving, Behind, Kind, OnFixed
  <2> QED BY <1>1, <2>2, <2>3, OutsideFrame
<1>2. ASSUME NEW l \in Logins, Acts(l), m # l PROVE Goal
  <2>1. pc'[m] = pc[m] /\ started'[m] = started[m]
    BY <1>2, LoginFrame
  <2>2. ASSUME pc[m] \in {"record", "done"}, started[m] # NoPid, met'[m] = "nothing"
        PROVE  Served(m)'
    <3>1. met[m] = "nothing" /\ UNCHANGED <<fs, st, sock, sig>>
      BY <1>2, <2>2, Spared, Places2
    <3> QED BY <2>1, <2>2, <3>1 DEF StartedServes, Serving, Behind, Kind, OnFixed
  <2> QED BY <2>1, <2>2 DEF StartedServes
<1>3. ASSUME Acts(m) PROVE Goal
  <2>1. pc'[m] \in {"idle"} \cup (Working \ {"record"}) => started'[m] = NoPid
    BY <1>3 DEF StartedServes, TypeOK, Goto, Return, World, Local, Working, Locking, Mutating,
       Reaping, Surveying, Starting, Adopting, Acts, Step, Progress, Refused, Begin, FastProbe,
       TakeLock, LockTimesOut, LockFails, Recheck, ListAgents, ListFails, ReapProbe, Kill, Unlink,
       ReapEnds, Survey, SurveyEnds, Clear, Start, Unbind, Spawn, SpawnFails, Record,
       RecordFails, Unstage, Stage, Swap, Leave
  <2>2. CASE Spawn(m)
    <3>1. PICK p \in Pids : /\ st' = [st EXCEPT ![p] = "ok"]
                            /\ sock' = [sock EXCEPT ![p] = Fixed]
                            /\ fs' = [fs EXCEPT ![Fixed] = SockOf(p)]
                            /\ started' = [started EXCEPT ![m] = p]
      BY <2>2 DEF Spawn
    <3>2. pc[m] = "spawn" /\ pc'[m] = "record" /\ met' = met /\ sig' = sig
      BY <2>2 DEF Spawn, Goto, TypeOK
    <3>3. started'[m] = p /\ sock'[p] = Fixed /\ Serving(p)'
      BY <3>1 DEF TypeOK, Serving, Behind, Kind, SockOf, Places
    <3>4. ASSUME met[m] = "nothing", NEW q \in Pids, OnFixed(q)' PROVE q = p
      <4>1. ~OnFixed(q)
        BY <3>2, <3>4 DEF ReapsThemAll, Starting
      <4> QED BY <3>1, <3>2, <3>4, <4>1 DEF OnFixed, TypeOK
    <3> QED BY <2>1, <3>2, <3>3, <3>4
  <2>3. CASE Record(m)
    <3>1. /\ pc[m] = "record" /\ pc'[m] = "done" /\ met' = met /\ started' = started
          /\ UNCHANGED <<fs, st, sock, sig>>
      BY <2>3 DEF Record, Return, Goto, TypeOK
    <3> QED BY <2>1, <3>1 DEF StartedServes, Serving, Behind, Kind, OnFixed
  <2>4. CASE FastProbe(m) \/ Recheck(m) \/ Swap(m)
    <3>1. pc[m] \in {"probe", "recheck", "swap"} /\ started' = started /\ pc'[m] # "record"
      BY <2>4 DEF FastProbe, Recheck, Swap, Return, Goto, TypeOK
    <3>2. started[m] = NoPid
      BY <3>1 DEF StartedServes, Working, Locking, Mutating, Adopting
    <3> QED BY <2>1, <3>1, <3>2
  <2>5. CASE pc'[m] \notin {"record", "done"}
    BY <2>1, <2>5
  <2> QED BY <1>3, CameBy, <2>2, <2>3, <2>4, <2>5
<1> QED BY <1>1, <1>2, <1>3 DEF Next, Acts

LEMMA StepRecordStands ==
    ASSUME TypeOK, Sound, Excluded, Paths, Orderly, ~AllowSlowAgents, Next
    PROVE  RecordStands'
<1> SUFFICES ASSUME NEW m \in Logins, pc'[m] = "done", started'[m] # NoPid, met'[m] = "nothing"
             PROVE  state' = started'[m] /\ \A k \in Logins : pc'[k] # "record"
  BY DEF RecordStands
<1> USE DEF Paths, Orderly
<1>1. ASSUME Outside PROVE state' = started'[m] /\ \A k \in Logins : pc'[k] # "record"
  BY <1>1, OutsideFrame DEF AllMeet, EndsUnseen, Ensure, RecordStands
<1>2. ASSUME NEW l \in Logins, Acts(l), m # l
      PROVE  state' = started'[m] /\ \A k \in Logins : pc'[k] # "record"
  <2>1. pc[m] = "done" /\ started'[m] = started[m]
    BY <1>2, LoginFrame
  <2>2. met[m] = "nothing" /\ pc[l] \notin Changing
    BY <1>2, <2>1, Spared
  <2>3. state = started[m] /\ \A k \in Logins : pc[k] # "record"
    BY <2>1, <2>2 DEF RecordStands
  <2>4. state' = state
    BY <1>2, <2>3, LoginFrame
  <2>5. pc'[l] # "record"
    BY <1>2, <2>2, CameBy DEF Spawn, Changing
  <2> QED BY <1>2, <2>1, <2>3, <2>4, <2>5, LoginFrame
<1>3. ASSUME Acts(m)
      PROVE  state' = started'[m] /\ \A k \in Logins : pc'[k] # "record"
  <2>1. CASE Record(m)
    <3>1. pc[m] = "record" /\ met' = met /\ state' = started'[m]
      BY <2>1 DEF Record
    <3>2. ASSUME NEW k \in Logins, k # m PROVE pc'[k] # "record"
      BY <1>3, <3>1, <3>2, Alone, Places2, LoginFrame
    <3> QED BY <3>1, <3>2
  <2>2. CASE FastProbe(m) \/ Recheck(m) \/ Swap(m)
    <3>1. pc[m] \in {"probe", "recheck", "swap"} /\ started' = started
      BY <2>2 DEF FastProbe, Recheck, Swap
    <3> QED BY <3>1 DEF StartedServes, Working, Locking, Mutating, Adopting
  <2> QED BY <1>3, CameBy, <2>1, <2>2
<1> QED BY <1>1, <1>2, <1>3 DEF Next, Acts

LEMMA InitOrderly == Init => Excluded /\ Paths /\ Orderly
<1> SUFFICES ASSUME Init PROVE Excluded /\ Paths /\ Orderly
  OBVIOUS
<1> USE DEF Init
<1>1. Excluded
  BY Places2 DEF Excluded, LockHeld, RacesAreShared, Critical, Mutating, Reaping, Surveying,
     Starting, Adopting, Working, Locking
<1>2. Paths
  BY DEF Paths, SigSilent, CurSilent, ElsewhereIsPlain, LinksWereBound, Kind, Nothing, AFile, Places
<1>3. Orderly
  BY DEF Orderly, MutatesTheDead, ReapsThemAll, FoundInTime, FoundAnswers, HandedSocketLive,
     StartedServes, RecordStands, Critical, Mutating, Reaping, Surveying, Starting, Adopting
<1> QED BY <1>1, <1>2, <1>3

(* While agents that missed a probe stay silent, the lock does its work:   *)
(* a login that never raced works alone and on a dead fixed socket, reaps  *)
(* all there is there, adopts what answers or starts the one agent there;  *)
(* whatever races happened before it.                                      *)
THEOREM LoginsInOrder == ~AllowSlowAgents /\ Spec => [](Excluded /\ Paths /\ Orderly)
<1> DEFINE Inv == Excluded /\ Paths /\ Orderly
<1> SUFFICES ASSUME ~AllowSlowAgents PROVE Spec => []Inv
  OBVIOUS
<1>1. TypeOK /\ TypeOK' /\ Sound /\ Inv /\ [Next]_vars => Inv'
  <2> SUFFICES ASSUME TypeOK, TypeOK', Sound, Inv, [Next]_vars PROVE Inv'
    OBVIOUS
  <2>1. CASE UNCHANGED vars
    <3>1. Excluded'
      BY <2>1 DEF vars, Excluded, LockHeld, RacesAreShared
    <3>2. Paths'
      BY <2>1 DEF vars, Paths, SigSilent, CurSilent, ElsewhereIsPlain, LinksWereBound, Kind, Serving,
         Behind
    <3>3. Orderly'
      BY <2>1, SMTT(30) DEF vars, Orderly, MutatesTheDead, ReapsThemAll, FoundInTime, FoundAnswers,
         HandedSocketLive, StartedServes, RecordStands, Kind, Reachable, Target, Behind, OnFixed,
         Serving
    <3> QED BY <3>1, <3>2, <3>3
  <2>2. CASE Next
    <3>1. Excluded'
      BY <2>2, StepExcluded DEF Paths
    <3>2. Paths'
      BY <2>2, StepSigSilent, StepCurSilent, StepPlain, StepLinksWereBound DEF Paths
    <3>3. Orderly'
      BY <2>2, StepMutatesTheDead, StepReapsThemAll, StepFoundInTime, StepFoundAnswers,
         StepHandedSocketLive, StepStartedServes, StepRecordStands DEF Orderly
    <3> QED BY <3>1, <3>2, <3>3
  <2> QED BY <2>1, <2>2
<1> QED BY InitOrderly, <1>1, TypeCorrect, Soundness, PTL DEF Spec

(* A login that was told of an agent has one behind the fixed socket for   *)
(* as long as nothing outside the logins, no login without the lock and no *)
(* signalled agent that cleans up over another's socket has interfered     *)
(* since it began: nothing else any login does takes it away. A signalled  *)
(* agent's handler may run at any time, and otherwise is not noticed.      *)
THEOREM HandedSocketsLive == ~AllowSlowAgents /\ Spec => []HandedSocketLive
BY LoginsInOrder, PTL DEF Orderly

(* The agent a login started is the only one of ours on the fixed socket   *)
(* that has not been told to end, leftovers of earlier races included.     *)
THEOREM StartedAlone == ~AllowSlowAgents /\ Spec => []OneAgentOnFixed
<1>1. Orderly => OneAgentOnFixed
  BY DEF Orderly, StartedServes, OneAgentOnFixed, OnFixed
<1> QED BY <1>1, LoginsInOrder, PTL

(* agent.state keeps naming the agent that serves the fixed socket.        *)
THEOREM RecordIsTrue == ~AllowSlowAgents /\ Spec => []RecordedAgentServes
<1>1. Orderly => RecordedAgentServes
  BY DEF Orderly, StartedServes, RecordStands, RecordedAgentServes
<1> QED BY <1>1, LoginsInOrder, PTL

-----------------------------------------------------------------------------
(* Each step of the lifecycle is a step of what SessionAgent promises, or  *)
(* none of it.                                                             *)

Up == Reachable(Fixed)
Phase == [l \in Logins |-> IF pc[l] \in Working THEN "asking" ELSE pc[l]]
Promised == {l \in Logins : pc[l] # "idle" /\ met[l] = "nothing"}

LEMMA InitPromise == TypeOK /\ Init => Promise!Init
<1> SUFFICES ASSUME TypeOK, Init PROVE Promise!Init
  OBVIOUS
<1>1. Up = FALSE
  BY DEF Up, Init, Reachable
<1>2. Phase = [l \in Logins |-> "idle"] /\ Promised = {}
  BY Places2 DEF Init, Phase, Promised
<1> QED BY <1>1, <1>2 DEF Promise!Init, Up, Phase, Promised

(* A step that leaves a login where it was, to its asking as to the others, *)
(* and the socket as it was, is none of the promise's.                     *)
LEMMA StutterKept ==
    ASSUME Up' = Up, Phase' = Phase, Promised' = Promised
    PROVE  [Promise!Next]_(Promise!avars)
BY DEF Promise!avars, Up, Phase, Promised

LEMMA BreakKept ==
    ASSUME Promised' = {}, Phase' = Phase
    PROVE  [Promise!Next]_(Promise!avars)
<1>1. Up' \in BOOLEAN
  BY DEF Up, Reachable
<1> QED BY <1>1 DEF Promise!Next, Promise!Break, Up, Phase, Promised

(* The promise seen from one login's step: the other logins keep their      *)
(* phase and what they are promised, unless a lock was not waited for.     *)
LEMMA PromiseOfOthers ==
    ASSUME TypeOK, TypeOK', NEW l \in Logins, Acts(l), ~LockTimesOut(l)
    PROVE  /\ Phase' = [Phase EXCEPT ![l] = Phase'[l]]
           /\ Promised' \ {l} = Promised \ {l}
<1>1. \A m \in Logins \ {l} : pc'[m] = pc[m] /\ met'[m] = met[m]
  BY LoginFrame
<1>2. Phase' = [Phase EXCEPT ![l] = Phase'[l]]
  BY <1>1 DEF Phase
<1>3. Promised' \ {l} = Promised \ {l}
  BY <1>1 DEF Promised
<1> QED BY <1>2, <1>3

(* A login at work that goes on, or has its answer, is promised what it    *)
(* was before.                                                             *)
LEMMA PromiseOfOneAtWork ==
    ASSUME TypeOK, TypeOK', NEW l \in Logins, Acts(l), ~LockTimesOut(l),
           pc[l] \in Working, pc'[l] # "idle"
    PROVE  Promised' = Promised
<1>1. pc[l] # "idle"
  BY Places2
<1>2. met'[l] = met[l]
  BY <1>1, LockSteps DEF Begin
<1> QED BY <1>1, <1>2, PromiseOfOthers DEF Promised

(* How a login's step ends: it goes on working, has its answer or goes.     *)
LEMMA StepOutcomes ==
    ASSUME TypeOK, TypeOK', NEW l \in Logins, Step(l)
    PROVE  /\ pc[l] \in Working
           /\ pc'[l] \in Working \cup {"done", "failed"}
           /\ pc'[l] = "failed" => UNCHANGED <<fs, st>>
           /\ pc'[l] = "done" => \/ Swap(l)
                                 \/ /\ UNCHANGED <<fs, st>>
                                    /\ FastProbe(l) \/ Recheck(l) \/ Record(l)
<1> USE DEF TypeOK, Goto, Return, World, Local
<1>1. pc[l] \in Working
  BY DEF Working, Locking, Mutating, Reaping, Surveying, Starting, Adopting,
     Step, Progress, Refused, FastProbe, TakeLock, LockTimesOut, LockFails,
     Recheck, ListAgents, ListFails, ReapProbe, Kill, Unlink, ReapEnds,
     Survey, SurveyEnds, Clear, Start, Unbind, Spawn, SpawnFails, Record,
     RecordFails, Unstage, Stage, Swap
<1>2. pc'[l] # "idle"
  BY <1>1, Places2 DEF Step, Progress, Refused, FastProbe, TakeLock, LockTimesOut, LockFails,
     Recheck, ListAgents, ListFails, ReapProbe, Kill, Unlink, ReapEnds,
     Survey, SurveyEnds, Clear, Start, Unbind, Spawn, SpawnFails, Record,
     RecordFails, Unstage, Stage, Swap
<1>3. pc'[l] = "failed" => UNCHANGED <<fs, st>>
  BY DEF Step, Progress, Refused, FastProbe, TakeLock, LockTimesOut, LockFails,
     Recheck, ListAgents, ListFails, ReapProbe, Kill, Unlink, ReapEnds,
     Survey, SurveyEnds, Clear, Start, Unbind, Spawn, SpawnFails, Record,
     RecordFails, Unstage, Stage, Swap
<1>4. pc'[l] = "done" => \/ Swap(l)
                         \/ /\ UNCHANGED <<fs, st>>
                            /\ FastProbe(l) \/ Recheck(l) \/ Record(l)
  <2>1. ASSUME pc'[l] = "done" PROVE Swap(l) \/ FastProbe(l) \/ Recheck(l) \/ Record(l)
    BY <1>1, <2>1, Places2 DEF Step, Progress, Refused, TakeLock, LockTimesOut, LockFails,
     ListAgents, ListFails, ReapProbe, Kill, Unlink, ReapEnds,
     Survey, SurveyEnds, Clear, Start, Unbind, Spawn, SpawnFails,
     RecordFails, Unstage, Stage
  <2>2. FastProbe(l) \/ Recheck(l) \/ Record(l) => UNCHANGED <<fs, st>>
    BY DEF FastProbe, Recheck, Record
  <2> QED BY <2>1, <2>2
<1> QED BY <1>1, <1>2, <1>3, <1>4 DEF Steps

(* A login at work that stays at work moves nothing the promise is about,   *)
(* unless it starts an agent, or races.                                    *)
LEMMA WorkingKept ==
    ASSUME TypeOK, TypeOK', Sound, Excluded, Paths, Orderly, ~AllowSlowAgents, Next,
           NEW l \in Logins, Acts(l), pc[l] \in Working, pc'[l] \in Working
    PROVE  [Promise!Next]_(Promise!avars)
<1> USE DEF Paths, Orderly
<1>1. Phase' = Phase
  <2>1. \A m \in Logins \ {l} : pc'[m] = pc[m]
    BY LoginFrame
  <2> QED BY <2>1 DEF Phase
<1>2. CASE LockTimesOut(l)
  <2>1. Promised' = {}
    BY <1>2, LockSteps DEF Promised
  <2> QED BY <1>1, <2>1, BreakKept
<1>3. CASE ~LockTimesOut(l)
  <2>1. Promised' = Promised
    BY <1>3, PromiseOfOneAtWork, Places2
  <2>2. CASE pc[l] \in Changing /\ met[l] = "race"
    <3>1. \A m \in Logins : pc[m] # "idle" => met[m] # "nothing"
      BY <2>2 DEF Excluded, RacesAreShared
    <3>2. Promised = {}
      BY <3>1 DEF Promised
    <3> QED BY <1>1, <2>1, <3>2, BreakKept
  <2>3. CASE pc[l] \in Changing /\ met[l] # "race"
    <3>1. ~Up
      BY <2>3, Places2 DEF MutatesTheDead, Up
    <3>2. CASE Spawn(l)
      <4>1. PICK p \in Pids : st' = [st EXCEPT ![p] = "ok"]
                              /\ fs' = [fs EXCEPT ![Fixed] = SockOf(p)]
        BY <3>2 DEF Spawn
      <4>2. Up' = TRUE
        <5>1. st'[p] = "ok" /\ fs'[Fixed] = SockOf(p)
          BY <4>1 DEF TypeOK, Places
        <5>2. Behind(Target(Fixed), p)'
          BY <5>1 DEF Behind, Target, Kind, SockOf
        <5> QED BY <5>1, <5>2 DEF Up, Reachable
      <4>3. Phase[l] = "asking"
        BY DEF Phase
      <4>4. Promise!Raise
        BY <1>1, <2>1, <4>2, <4>3 DEF Promise!Raise, Up, Phase, Promised
      <4> QED BY <4>4 DEF Promise!Next
    <3>3. CASE ~Spawn(l)
      <4>1. ~Swap(l)
        BY Places2 DEF Swap, Return, Goto, TypeOK
      <4>2. ~Up'
        BY <3>1, <3>3, <4>1, OneActs, DeadStays DEF Up
      <4>3. Up' = Up
        BY <3>1, <4>2 DEF Up, Reachable
      <4> QED BY <1>1, <2>1, <4>3, StutterKept
    <3> QED BY <3>2, <3>3
  <2>4. CASE pc[l] \notin Changing
    <3>1. Up' = Up
      BY <2>4, LoginFrame DEF Up, Reachable, Behind, Target, Kind
    <3> QED BY <1>1, <2>1, <3>1, StutterKept
  <2> QED BY <2>2, <2>3, <2>4
<1> QED BY <1>2, <1>3

(* A login that has its answer is told of an agent, or refused.             *)
LEMMA AnswerKept ==
    ASSUME TypeOK, TypeOK', Excluded, Orderly, HandedSocketLive', ~AllowSlowAgents,
           NEW l \in Logins, Step(l), pc'[l] \in {"done", "failed"}
    PROVE  [Promise!Next]_(Promise!avars)
<1> USE DEF Orderly
<1>1. Acts(l) /\ ~LockTimesOut(l) /\ pc[l] \in Working /\ pc'[l] # "idle"
  BY StepOutcomes DEF Acts, LockTimesOut, Goto, TypeOK
<1>2. Promised' = Promised
  BY <1>1, PromiseOfOneAtWork
<1>3. Phase[l] = "asking" /\ Phase'[l] = pc'[l]
  BY <1>1, Places2 DEF Phase
<1>4. Phase' = [Phase EXCEPT ![l] = pc'[l]]
  BY <1>1, <1>3, PromiseOfOthers
<1>5. Up \in BOOLEAN /\ Up' \in BOOLEAN
  BY DEF Up, Reachable
<1>6. CASE pc'[l] = "failed"
  <2>1. Up' = Up
    BY <1>6, StepOutcomes DEF Up, Reachable, Behind, Target, Kind
  <2>2. Promise!Refuse(l)
    BY <1>2, <1>3, <1>4, <1>6, <2>1 DEF Promise!Refuse, Up, Phase, Promised
  <2> QED BY <2>2 DEF Promise!Next
<1>7. CASE pc'[l] = "done"
  <2>1. l \in Promised => Up'
    BY <1>2, <1>7 DEF HandedSocketLive, Promised, Up
  <2>2. Up /\ Promised # {} => Up'
    <3>1. CASE Swap(l)
      <4>1. pc[l] = "swap"
        BY <3>1 DEF Swap
      <4>2. ASSUME Promised # {} PROVE met[l] # "race"
        BY <1>1, <4>2 DEF Excluded, RacesAreShared, Promised
      <4> QED BY <4>1, <4>2, Places2 DEF MutatesTheDead, Up, Changing
    <3>2. CASE UNCHANGED <<fs, st>>
      BY <3>2, SameWorld DEF Up
    <3> QED BY <1>7, <3>1, <3>2, StepOutcomes
  <2>3. Promise!Tell(l)
    BY <1>2, <1>3, <1>4, <1>5, <1>7, <2>1, <2>2 DEF Promise!Tell, Up, Phase, Promised
  <2> QED BY <2>3 DEF Promise!Next
<1> QED BY <1>6, <1>7

LEMMA BeginKept ==
    ASSUME TypeOK, TypeOK', NEW l \in Logins, Begin(l)
    PROVE  [Promise!Next]_(Promise!avars)
<1>1. Acts(l) /\ ~LockTimesOut(l) /\ pc[l] = "idle" /\ pc'[l] = "probe"
  BY DEF Acts, Begin, LockTimesOut, Goto, TypeOK
<1>2. Phase[l] = "idle" /\ Phase'[l] = "asking"
  BY <1>1, Places2 DEF Phase, Working
<1>3. Phase' = [Phase EXCEPT ![l] = "asking"]
  BY <1>1, <1>2, PromiseOfOthers
<1>4. l \notin Promised
  BY <1>1 DEF Promised
<1>5. Promised' \in {Promised, Promised \cup {l}}
  BY <1>1, <1>4, PromiseOfOthers
<1>6. Up' = Up
  BY DEF Begin, World, Up, Reachable, Behind, Target, Kind
<1>7. Promise!Ask(l)
  BY <1>2, <1>3, <1>5, <1>6 DEF Promise!Ask, Up, Phase, Promised
<1> QED BY <1>7 DEF Promise!Next

LEMMA LeaveKept ==
    ASSUME TypeOK, TypeOK', NEW l \in Logins, Leave(l)
    PROVE  [Promise!Next]_(Promise!avars)
<1>1. Acts(l) /\ ~LockTimesOut(l) /\ pc[l] # "idle" /\ pc'[l] = "idle"
  BY DEF Acts, Leave, LockTimesOut, Goto, Return, TypeOK
<1>2. Phase[l] # "idle" /\ Phase'[l] = "idle"
  BY <1>1, Places2 DEF Phase
<1>3. Phase' = [Phase EXCEPT ![l] = "idle"]
  BY <1>1, <1>2, PromiseOfOthers
<1>4. Promised' = Promised \ {l}
  <2>1. l \notin Promised'
    BY <1>1 DEF Promised
  <2> QED BY <1>1, <2>1, PromiseOfOthers
<1>5. Up' = Up
  BY DEF Leave, World, Up, Reachable, Behind, Target, Kind
<1>6. Promise!Quit(l)
  BY <1>2, <1>3, <1>4, <1>5 DEF Promise!Quit, Up, Phase, Promised
<1> QED BY <1>6 DEF Promise!Next

LEMMA OutsideKept ==
    ASSUME TypeOK, Sound, SigSilent, ~AllowSlowAgents, Outside
    PROVE  [Promise!Next]_(Promise!avars)
<1>1. pc' = pc /\ Phase' = Phase
  BY OutsideFrame DEF Ensure, Phase
<1>2. CASE AllMeet
  <2>1. Promised' = {}
    BY <1>2 DEF AllMeet, Promised
  <2> QED BY <1>1, <2>1, BreakKept
<1>3. ASSUME NEW p \in Pids, EndsUnseen(p) PROVE [Promise!Next]_(Promise!avars)
  <2>1. Up' = Up
    BY <1>3, UnseenEnd DEF Up, Reachable, Places
  <2>2. Promised' = Promised
    BY <1>1, <1>3 DEF EndsUnseen, Promised
  <2> QED BY <1>1, <2>1, <2>2, StutterKept
<1> QED BY <1>2, <1>3, OutsideFrame

(* The lifecycle keeps what SessionAgent promises: a login that is told of *)
(* an agent and answered for has a live one, nothing but the outside, a    *)
(* login without the lock or an agent's late clean-up over another's       *)
(* socket takes it away, and every way EnsureAgent goes about it is one of *)
(* the promise's steps or none.                                            *)
THEOREM KeepsItsPromise == ~AllowSlowAgents /\ Spec => KeepsPromise
<1> SUFFICES ASSUME ~AllowSlowAgents PROVE Spec => KeepsPromise
  OBVIOUS
<1> DEFINE Inv == Excluded /\ Paths /\ Orderly
<1>1. TypeOK /\ TypeOK' /\ Sound /\ Inv /\ Inv' /\ [Next]_vars => [Promise!Next]_(Promise!avars)
  <2> SUFFICES ASSUME TypeOK, TypeOK', Sound, Inv, Inv', [Next]_vars
               PROVE  [Promise!Next]_(Promise!avars)
    OBVIOUS
  <2>1. ASSUME NEW l \in Logins, Begin(l) PROVE [Promise!Next]_(Promise!avars)
    BY <2>1, BeginKept
  <2>2. ASSUME NEW l \in Logins, Step(l), Next PROVE [Promise!Next]_(Promise!avars)
    <3>1. CASE pc'[l] \in Working
      BY <2>2, <3>1, StepOutcomes, WorkingKept DEF Acts
    <3>2. CASE pc'[l] \in {"done", "failed"}
      BY <2>2, <3>2, AnswerKept DEF Orderly
    <3> QED BY <2>2, <3>1, <3>2, StepOutcomes
  <2>3. ASSUME NEW l \in Logins, Leave(l) PROVE [Promise!Next]_(Promise!avars)
    BY <2>3, LeaveKept
  <2>4. CASE Outside
    BY <2>4, OutsideKept DEF Paths
  <2>5. CASE UNCHANGED vars
    <3>1. Up' = Up /\ Phase' = Phase /\ Promised' = Promised
      BY <2>5 DEF vars, Up, Phase, Promised, Reachable, Behind, Target, Kind
    <3> QED BY <3>1, StutterKept
  <2> QED BY <2>1, <2>2, <2>3, <2>4, <2>5 DEF Next
<1>2. TypeOK /\ Init => Promise!Init
  BY InitPromise
<1> QED
  BY <1>1, <1>2, InitTypes, TypeCorrect, Soundness, LoginsInOrder, PTL
  DEF Spec, KeepsPromise, Promise!Spec
=============================================================================
