--------------------------- MODULE AgentLifecycle ---------------------------
(***************************************************************************)
(* The ssh-agent lifecycle of internal/agent: Manager.EnsureAgent and what *)
(* it calls (Reap, healthyForeign, startOurOwn, adoptOne, Start, the flock *)
(* and the probe), run by several logins of one account at once.           *)
(*                                                                         *)
(* The state they share is the file system under the agent directory, the  *)
(* processes of the machine, the lock file and the recorded agent state.   *)
(* Between any two steps of a login another login may take a step, the     *)
(* login may be killed, and the world may move: agents start, stop         *)
(* answering, die, and their socket files disappear.                       *)
(***************************************************************************)
EXTENDS Integers, FiniteSets

CONSTANTS
    Logins,            \* login shells of this account running shell-init
    Pids,              \* process ids; one is never used twice (see README)
    Fixed,             \* EnsureConfig.FixedSock
    Tmp,               \* FixedSock + ".adopt"
    Elsewhere,         \* socket paths agents we did not start are bound to
    NoPath,            \* the Socket of an agent started without -a
    NoPid,
    NoLogin,
    Theirs,            \* those paths of Elsewhere another account binds
    MaxOutside,        \* bound: how often the world around the logins moves
    AllowLockTimeout,  \* may FlockLocker.Wait elapse before the lock is free?
    AllowSlowAgents    \* may an agent that missed a probe answer later?

Places == {Fixed, Tmp} \cup Elsewhere

ASSUME PathsAssumption ==
    /\ Fixed # Tmp
    /\ Fixed \notin Elsewhere /\ Tmp \notin Elsewhere
    /\ NoPath \notin Places
    /\ Theirs \subseteq Elsewhere

ASSUME NamesAssumption ==
    /\ Pids \subseteq Nat
    /\ NoPid \notin Pids
    /\ NoLogin \notin Logins

ASSUME ParametersAssumption ==
    /\ MaxOutside \in Nat
    /\ AllowLockTimeout \in BOOLEAN
    /\ AllowSlowAgents \in BOOLEAN

VARIABLES
    fs,       \* the node at each path: nothing, a file, a socket or a link
    st,       \* each process: not started, answering, hung or gone
    sock,     \* the -a argument each process was started with
    sig,      \* processes with a SIGTERM they have not handled yet
    state,    \* the pid agent.state records
    lock,     \* who holds the flock on the lock file
    pc,       \* where each login is in EnsureAgent
    list,     \* what is left of the process list a login is going through
    cur,      \* the dead agent a login is reaping
    found,    \* healthyForeign's result so far
    started,  \* the agent a login started
    met,      \* history: what each login has met with since it began
    outside   \* how often the world has moved

vars == <<fs, st, sock, sig, state, lock, pc, list, cur, found, started, met,
          outside>>

-----------------------------------------------------------------------------
(* What is on the file system. A socket belongs to the process that bound  *)
(* it: binding the same path again makes another socket.                   *)

Node == [kind : {"none", "file", "sock", "link"},
         pid : Pids \cup {NoPid}, to : Places \cup {NoPath}]

Nothing  == [kind |-> "none", pid |-> NoPid, to |-> NoPath]
AFile    == [kind |-> "file", pid |-> NoPid, to |-> NoPath]
SockOf(p) == [kind |-> "sock", pid |-> p, to |-> NoPath]
LinkTo(f) == [kind |-> "link", pid |-> NoPid, to |-> f]

Kind(path) == fs[path].kind

(* Whether p is the process a client connecting to the node answers to.    *)
Behind(path, p) == Kind(path) = "sock" /\ fs[path].pid = p

(* Where a client that opens path ends up: the adopted agent's socket when *)
(* path is the symlink an adoption left.                                   *)
Target(path) == IF Kind(path) = "link" THEN fs[path].to ELSE path

(* SocketProber.Reachable: somebody answers on path within the timeout.    *)
Reachable(path) == \E p \in Pids : st[p] = "ok" /\ Behind(Target(path), p)

(* A healthy agent: it answers, and its own socket leads to it.            *)
Serving(p) == /\ st[p] = "ok"
              /\ sock[p] # NoPath
              /\ Behind(sock[p], p)

(* ours(): the account an agent belongs to is that of the directory it was *)
(* able to bind in.                                                        *)
Ours(p) == sock[p] \notin Theirs

(* The kernel hands out process ids in ascending order.                    *)
Fresh(p) == st[p] = "new" /\ \A q \in Pids : q < p => st[q] # "new"

Running == {p \in Pids : st[p] \in {"ok", "hung"}}

-----------------------------------------------------------------------------
Locking  == {"lock", "recheck"}
Reaping  == {"list", "reap", "kill", "unlink"}
Surveying == {"relist", "survey"}
Starting == {"clear", "start", "unbind", "spawn", "record"}
Adopting == {"unstage", "stage", "swap"}
Mutating == Reaping \cup Surveying \cup Starting \cup Adopting
Working  == {"probe"} \cup Locking \cup Mutating
Steps    == Working \cup {"idle", "done", "failed"}

Init ==
    /\ fs \in [Places -> {Nothing, AFile}]
    /\ \A f \in Places \ {Fixed} : fs[f] = Nothing
    /\ st = [p \in Pids |-> "new"]
    /\ sock = [p \in Pids |-> NoPath]
    /\ sig = {}
    /\ state = NoPid
    /\ lock = NoLogin
    /\ pc = [l \in Logins |-> "idle"]
    /\ list = [l \in Logins |-> {}]
    /\ cur = [l \in Logins |-> NoPid]
    /\ found = [l \in Logins |-> {}]
    /\ started = [l \in Logins |-> NoPid]
    /\ met = [l \in Logins |-> "nothing"]
    /\ outside = 0

Goto(l, step) == pc' = [pc EXCEPT ![l] = step]

(* EnsureAgent returns: the deferred unlock runs on every way out.         *)
Return(l, result) ==
    /\ Goto(l, result)
    /\ lock' = IF lock = l THEN NoLogin ELSE lock
    /\ list' = [list EXCEPT ![l] = {}]
    /\ cur' = [cur EXCEPT ![l] = NoPid]
    /\ found' = [found EXCEPT ![l] = {}]

World == <<fs, st, sock, sig, state, outside>>
Local == <<list, cur, found>>

-----------------------------------------------------------------------------
(* The fast path, before the lock.                                         *)

Begin(l) ==
    /\ pc[l] = "idle"
    /\ Goto(l, "probe")
    /\ met' = [met EXCEPT ![l] =
                 IF \E m \in Logins : pc[m] \in Working /\ met[m] = "race"
                 THEN "race" ELSE "nothing"]
    /\ UNCHANGED <<World, lock, Local, started>>

FastProbe(l) ==
    /\ pc[l] = "probe"
    /\ IF Reachable(Fixed) THEN Return(l, "done")
       ELSE Goto(l, "lock") /\ UNCHANGED <<lock, Local>>
    /\ UNCHANGED <<World, started, met>>

(* Mutant: a shared lock where an exclusive one is meant.                  *)
TakeSharedLock(l) ==
    /\ pc[l] = "lock"
    /\ lock' = l
    /\ Goto(l, "recheck")
    /\ UNCHANGED <<World, Local, started, met>>

(* FlockLocker.Lock gets the lock.                                         *)
TakeLock(l) ==
    /\ pc[l] = "lock"
    /\ lock = NoLogin
    /\ lock' = l
    /\ Goto(l, "recheck")
    /\ UNCHANGED <<World, Local, started, met>>

(* Mutant: a blocking flock, with no deadline.                             *)
LockNeverTimesOut(l) == FALSE /\ UNCHANGED vars

(* Lock's deadline passes while somebody else holds it: go on without it.  *)
(* No login at work can count on having the landscape to itself any more.  *)
LockTimesOut(l) ==
    /\ pc[l] = "lock"
    /\ AllowLockTimeout
    /\ lock # NoLogin
    /\ Goto(l, "recheck")
    /\ met' = [m \in Logins |-> IF pc[m] \in Working THEN "race" ELSE "outside"]
    /\ UNCHANGED <<World, lock, Local, started>>

(* The lock file cannot be opened, or flock fails with another error.      *)
LockFails(l) ==
    /\ pc[l] = "lock"
    /\ Return(l, "failed")
    /\ UNCHANGED <<World, started, met>>

(* Mutant: no second probe under the lock.                                 *)
NoRecheck(l) ==
    /\ pc[l] = "recheck"
    /\ Goto(l, "list")
    /\ UNCHANGED <<World, lock, Local, started, met>>

Recheck(l) ==
    /\ pc[l] = "recheck"
    /\ IF Reachable(Fixed) THEN Return(l, "done")
       ELSE Goto(l, "list") /\ UNCHANGED <<lock, Local>>
    /\ UNCHANGED <<World, started, met>>

-----------------------------------------------------------------------------
(* Reap: go through one snapshot of the process list.                      *)

(* Inspector.Agents, for Reap and again for healthyForeign.                *)
ListAgents(l) ==
    /\ pc[l] \in {"list", "relist"}
    /\ list' = [list EXCEPT ![l] = Running]
    /\ Goto(l, IF pc[l] = "list" THEN "reap" ELSE "survey")
    /\ UNCHANGED <<World, lock, cur, found, started, met>>

ListFails(l) ==
    /\ pc[l] \in {"list", "relist"}
    /\ Return(l, "failed")
    /\ UNCHANGED <<World, started, met>>

(* Mutants: the fixed socket probed for every process, and the owner left  *)
(* out of the question.                                                    *)
ReapableByFixed(p) == sock[p] # NoPath /\ ~Reachable(Fixed) /\ Ours(p)

(* The guards of Reap's loop: what may be signalled, judged now.           *)
Reapable(p) == sock[p] # NoPath /\ ~Reachable(sock[p]) /\ Ours(p)

ReapProbe(l) ==
    /\ pc[l] = "reap"
    /\ \E p \in list[l] :
         IF Reapable(p)
         THEN /\ cur' = [cur EXCEPT ![l] = p]
              /\ Goto(l, "kill")
              /\ UNCHANGED list
         ELSE /\ list' = [list EXCEPT ![l] = @ \ {p}]
              /\ UNCHANGED <<cur, pc>>
    /\ UNCHANGED <<World, lock, found, started, met>>

(* Terminate returns once the signal is sent, and nothing waits for what   *)
(* it does: see AgentHandlesTerm. A process that is gone gives ESRCH,      *)
(* which Reap ignores.                                                     *)
Kill(l) ==
    /\ pc[l] = "kill"
    /\ sig' = IF cur[l] \in Running THEN sig \cup {cur[l]} ELSE sig
    /\ Goto(l, "unlink")
    /\ UNCHANGED <<fs, st, sock, state, outside, lock, Local, started, met>>

(* removeSocket: only what Lstat calls a socket is unlinked.               *)
WithoutSocket(path) ==
    IF Kind(path) = "sock" THEN [fs EXCEPT ![path] = Nothing] ELSE fs

Unlink(l) ==
    /\ pc[l] = "unlink"
    /\ fs' = WithoutSocket(sock[cur[l]])
    /\ list' = [list EXCEPT ![l] = @ \ {cur[l]}]
    /\ cur' = [cur EXCEPT ![l] = NoPid]
    /\ Goto(l, "reap")
    /\ UNCHANGED <<st, sock, sig, state, outside, lock, found, started, met>>

ReapEnds(l) ==
    /\ pc[l] = "reap"
    /\ list[l] = {}
    /\ Goto(l, "relist")
    /\ UNCHANGED <<World, lock, Local, started, met>>

-----------------------------------------------------------------------------
(* healthyForeign: what answers, is ours, and is not on the fixed socket.  *)

(* Mutant: whoever answers is adopted.                                     *)
AdoptableOfAnyone(p) == sock[p] \notin {NoPath, Fixed} /\ Reachable(sock[p])

Adoptable(p) == /\ sock[p] \notin {NoPath, Fixed}
                /\ Ours(p)
                /\ Reachable(sock[p])

Survey(l) ==
    /\ pc[l] = "survey"
    /\ \E p \in list[l] :
         /\ list' = [list EXCEPT ![l] = @ \ {p}]
         /\ found' = IF Adoptable(p) THEN [found EXCEPT ![l] = @ \cup {p}]
                     ELSE found
    /\ UNCHANGED <<World, lock, pc, cur, started, met>>

SurveyEnds(l) ==
    /\ pc[l] = "survey"
    /\ list[l] = {}
    /\ Goto(l, IF found[l] = {} THEN "clear" ELSE "unstage")
    /\ UNCHANGED <<World, lock, Local, started, met>>

-----------------------------------------------------------------------------
(* startOurOwn.                                                            *)

(* clearStalePath: a socket or a symlink goes, asked nothing.              *)
Clear(l) ==
    /\ pc[l] = "clear"
    /\ fs' = IF Kind(Fixed) \in {"sock", "link"}
             THEN [fs EXCEPT ![Fixed] = Nothing] ELSE fs
    /\ Goto(l, "start")
    /\ UNCHANGED <<st, sock, sig, state, outside, lock, Local, started, met>>

(* Manager.Start probes, and unlinks by name what may be there by then.    *)
Start(l) ==
    /\ pc[l] = "start"
    /\ Goto(l, IF Reachable(Fixed) THEN "spawn" ELSE "unbind")
    /\ UNCHANGED <<World, lock, Local, started, met>>

Unbind(l) ==
    /\ pc[l] = "unbind"
    /\ fs' = WithoutSocket(Fixed)
    /\ Goto(l, "spawn")
    /\ UNCHANGED <<st, sock, sig, state, outside, lock, Local, started, met>>

(* ssh-agent -a Fixed: bind wants the path free.                           *)
Spawn(l) ==
    /\ pc[l] = "spawn"
    /\ Kind(Fixed) = "none"
    /\ \E p \in Pids :
         /\ Fresh(p)
         /\ st' = [st EXCEPT ![p] = "ok"]
         /\ sock' = [sock EXCEPT ![p] = Fixed]
         /\ fs' = [fs EXCEPT ![Fixed] = SockOf(p)]
         /\ started' = [started EXCEPT ![l] = p]
    /\ Goto(l, "record")
    /\ UNCHANGED <<sig, state, outside, lock, Local, met>>

(* The path is taken, or ssh-agent cannot be run at all.                   *)
SpawnFails(l) ==
    /\ pc[l] = "spawn"
    /\ Return(l, "failed")
    /\ UNCHANGED <<World, started, met>>

(* Mutant: a state file that is there already is left alone.               *)
RecordOnce(l) ==
    /\ pc[l] = "record"
    /\ state' = IF state = NoPid THEN started[l] ELSE state
    /\ Return(l, "done")
    /\ UNCHANGED <<fs, st, sock, sig, outside, started, met>>

Record(l) ==
    /\ pc[l] = "record"
    /\ state' = started[l]
    /\ Return(l, "done")
    /\ UNCHANGED <<fs, st, sock, sig, outside, started, met>>

(* The pid ssh-agent printed cannot be read, or WriteState fails: Start    *)
(* returns an error and so does EnsureAgent, with the agent running.       *)
RecordFails(l) ==
    /\ pc[l] = "record"
    /\ Return(l, "failed")
    /\ UNCHANGED <<World, started, met>>

-----------------------------------------------------------------------------
(* adoptOne: the lowest pid, through a symlink renamed into place.         *)

IsLowest(p, S) == p \in S /\ \A q \in S : p <= q

Unstage(l) ==
    /\ pc[l] = "unstage"
    /\ fs' = [fs EXCEPT ![Tmp] = Nothing]
    /\ Goto(l, "stage")
    /\ UNCHANGED <<st, sock, sig, state, outside, lock, Local, started, met>>

(* os.Symlink fails where another login has just staged its own.           *)
Stage(l) ==
    /\ pc[l] = "stage"
    /\ IF Kind(Tmp) = "none"
       THEN /\ \E p \in Pids :
                 /\ IsLowest(p, found[l])
                 /\ fs' = [fs EXCEPT ![Tmp] = LinkTo(sock[p])]
            /\ Goto(l, "swap")
            /\ UNCHANGED <<lock, Local>>
       ELSE Return(l, "failed") /\ UNCHANGED fs
    /\ UNCHANGED <<st, sock, sig, state, outside, started, met>>

(* os.Rename replaces what was at the fixed path; it fails where another   *)
(* login has already renamed or removed the staged link.                   *)
Swap(l) ==
    /\ pc[l] = "swap"
    /\ IF Kind(Tmp) = "none" THEN Return(l, "failed") /\ UNCHANGED fs
       ELSE /\ fs' = [fs EXCEPT ![Fixed] = fs[Tmp], ![Tmp] = Nothing]
            /\ Return(l, "done")
    /\ UNCHANGED <<st, sock, sig, state, outside, started, met>>

-----------------------------------------------------------------------------
(* A login is killed at any point; the kernel drops its flock. A shell     *)
(* that has its answer ends, and another may be opened in its place.       *)
Leave(l) ==
    /\ pc[l] # "idle"
    /\ Return(l, "idle")
    /\ started' = [started EXCEPT ![l] = NoPid]
    /\ met' = [met EXCEPT ![l] = "nothing"]
    /\ UNCHANGED World

(* What a login goes through when no call it makes is refused. Whether      *)
(* ssh-agent starts or does not, it comes back.                            *)
Progress(l) ==
    \/ FastProbe(l) \/ TakeLock(l) \/ LockTimesOut(l) \/ Recheck(l)
    \/ ListAgents(l)
    \/ ReapProbe(l) \/ Kill(l) \/ Unlink(l) \/ ReapEnds(l)
    \/ Survey(l) \/ SurveyEnds(l)
    \/ Clear(l) \/ Start(l) \/ Unbind(l) \/ Spawn(l) \/ SpawnFails(l) \/ Record(l)
    \/ Unstage(l) \/ Stage(l) \/ Swap(l)

Refused(l) == LockFails(l) \/ ListFails(l) \/ RecordFails(l)

Step(l) == Progress(l) \/ Refused(l)

-----------------------------------------------------------------------------
(* The rest of the machine.                                                *)

(* No login can count any more on what it has found, or was told.          *)
AllMeet == met' = [l \in Logins |-> IF met[l] = "race" THEN "race" ELSE "outside"]

Disturbed ==
    /\ outside < MaxOutside
    /\ outside' = outside + 1
    /\ AllMeet

Undisturbed == UNCHANGED <<met, outside>>
Ensure == <<state, lock, pc, Local, started>>

(* Somebody starts an agent elsewhere, with or without -a. A path of       *)
(* Elsewhere is bound at most once: see README, "Bounds".                  *)
AgentStarts(p, f) ==
    /\ Fresh(p)
    /\ \A q \in Pids : st[q] # "new" /\ f # NoPath => sock[q] # f
    /\ st' = [st EXCEPT ![p] = "ok"]
    /\ sock' = [sock EXCEPT ![p] = f]
    /\ fs' = IF f = NoPath THEN fs ELSE [fs EXCEPT ![f] = SockOf(p)]
    /\ Disturbed
    /\ UNCHANGED <<sig, Ensure>>

(* It stops answering: stopped, swapped out, wedged.                       *)
AgentHangs(p) ==
    /\ st[p] = "ok"
    /\ st' = [st EXCEPT ![p] = "hung"]
    /\ Disturbed
    /\ UNCHANGED <<fs, sock, sig, Ensure>>

(* It answers again: to a login it only ever was slow.                     *)
AgentResumes(p) ==
    /\ AllowSlowAgents
    /\ st[p] = "hung"
    /\ st' = [st EXCEPT ![p] = "ok"]
    /\ Undisturbed
    /\ UNCHANGED <<fs, sock, sig, Ensure>>

(* What ssh-agent's handler does: unlink the path it was started on, by    *)
(* name, whatever is there now, and exit.                                  *)
Exits(p) ==
    /\ st' = [st EXCEPT ![p] = "gone"]
    /\ fs' = IF sock[p] \in Places THEN [fs EXCEPT ![sock[p]] = Nothing] ELSE fs
    /\ sig' = sig \ {p}

(* The path it was started on is somebody else's by now.                   *)
Overtaken(p) == sock[p] \in Places /\ fs[sock[p]] \notin {Nothing, SockOf(p)}

(* It gets to the SIGTERM a login sent it: at any time after that login    *)
(* went on, and so after an agent was started, or adopted, in its place.   *)
AgentHandlesTerm(p) ==
    /\ p \in sig
    /\ st[p] = "ok"
    /\ Exits(p)
    /\ IF Overtaken(p) THEN AllMeet ELSE UNCHANGED met
    /\ UNCHANGED <<sock, outside, Ensure>>

(* It is killed outright, and its socket file stays.                       *)
AgentDies(p) ==
    /\ p \in Running
    /\ st' = [st EXCEPT ![p] = "gone"]
    /\ sig' = sig \ {p}
    /\ Disturbed
    /\ UNCHANGED <<fs, sock, Ensure>>

(* Its user stops it, and its handler cleans up.                           *)
AgentStops(p) ==
    /\ st[p] = "ok"
    /\ Exits(p)
    /\ Disturbed
    /\ UNCHANGED <<sock, Ensure>>

(* A cleaner, or a person, removes a socket file under a running agent.    *)
SocketVanishes(f) ==
    /\ Kind(f) = "sock"
    /\ fs' = [fs EXCEPT ![f] = Nothing]
    /\ Disturbed
    /\ UNCHANGED <<st, sock, sig, Ensure>>

Outside ==
    \/ \E p \in Pids, f \in Elsewhere \cup {NoPath} : AgentStarts(p, f)
    \/ \E p \in Pids : \/ AgentHangs(p) \/ AgentResumes(p)
                       \/ AgentHandlesTerm(p) \/ AgentDies(p) \/ AgentStops(p)
    \/ \E f \in Places : SocketVanishes(f)

Next ==
    \/ \E l \in Logins : Begin(l) \/ Step(l) \/ Leave(l)
    \/ Outside

Spec == Init /\ [][Next]_vars

(* What a login does is what a running process does by itself: it goes on  *)
(* unless it is one of the stuck. Nothing is assumed of the outside, and   *)
(* no error is relied upon to end a wait.                                  *)
Fairness(stuck) == \A l \in Logins \ stuck : WF_vars(Progress(l))

-----------------------------------------------------------------------------
(* What the lifecycle promises its logins, as SessionAgent puts it.        *)
Promise == INSTANCE SessionAgent WITH
    up <- Reachable(Fixed),
    phase <- [l \in Logins |->
                IF pc[l] \in Working THEN "asking" ELSE pc[l]],
    promised <- {l \in Logins : pc[l] # "idle" /\ met[l] = "nothing"}

(* The code keeps that promise.                                            *)
KeepsPromise == Promise!Spec

-----------------------------------------------------------------------------
TypeOK ==
    /\ fs \in [Places -> Node]
    /\ st \in [Pids -> {"new", "ok", "hung", "gone"}]
    /\ sock \in [Pids -> {Fixed, NoPath} \cup Elsewhere]
    /\ sig \subseteq Pids
    /\ state \in Pids \cup {NoPid}
    /\ lock \in Logins \cup {NoLogin}
    /\ pc \in [Logins -> Steps]
    /\ list \in [Logins -> SUBSET Pids]
    /\ cur \in [Logins -> Pids \cup {NoPid}]
    /\ found \in [Logins -> SUBSET Pids]
    /\ started \in [Logins -> Pids \cup {NoPid}]
    /\ met \in [Logins -> {"nothing", "outside", "race"}]
    /\ outside \in 0 .. MaxOutside
    /\ lock # NoLogin => pc[lock] \in {"recheck"} \cup Mutating
    /\ \A l \in Logins : pc[l] \in {"kill", "unlink"} => cur[l] \in Pids

(* "A healthy agent is never touched, regardless of who started it, and    *)
(* another user's process is never signalled" (Reap): at the moment of the *)
(* SIGTERM, and not only when it was probed, the process is ours, has a    *)
(* socket we know, and does not serve it.                                  *)
SignalsOurDead ==
    \A l \in Logins :
        pc[l] = "kill" /\ pc'[l] = "unlink" =>
            /\ Ours(cur[l])
            /\ sock[cur[l]] # NoPath
            /\ ~Serving(cur[l])

SignalsOnlyOurDead == [][SignalsOurDead]_vars

(* The fixed socket never leads to an agent of another account, whatever   *)
(* answers where (healthyForeign: "answering the agent protocol correctly  *)
(* cannot be what qualifies an agent").                                    *)
FixedOnlyOurs == \A p \in Pids : Behind(Target(Fixed), p) => Ours(p)

(* EnsureAgent "on success, never leaves the shell pointed at a dead       *)
(* socket": and no login that comes later takes it away from that shell.   *)
(* Only three things may: the outside; a login that went ahead without the *)
(* lock; and an agent signalled while it still ran, that comes to unlink   *)
(* its path when another's socket is on it.                                *)
HandedSocketLive ==
    \A l \in Logins : pc[l] = "done" /\ met[l] = "nothing" => Reachable(Fixed)

(* No login leaves an agent of ours running behind the one it starts,      *)
(* those an earlier race left there included, unless it has been told to   *)
(* end: a second one on the fixed socket would hold keys nothing points at.*)
OneAgentOnFixed ==
    \A l \in Logins, p \in Pids :
        /\ pc[l] = "done" /\ started[l] # NoPid /\ met[l] = "nothing"
        /\ st[p] = "ok" /\ sock[p] = Fixed
        => p = started[l] \/ p \in sig

(* What agent.state records is the agent that serves the fixed socket, for *)
(* as long as the login that started it is left alone.                     *)
RecordedAgentServes ==
    \A l \in Logins :
        pc[l] = "done" /\ started[l] # NoPid /\ met[l] = "nothing"
        => state = started[l] /\ Serving(state)

(* A login always gets an answer: EnsureAgent returns, even behind a lock  *)
(* holder that never lets go.                                              *)
EveryLoginEnds(stuck) ==
    \A l \in Logins \ stuck : pc[l] \in Working ~> pc[l] \notin Working
=============================================================================
