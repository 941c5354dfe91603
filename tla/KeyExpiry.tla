------------------------------ MODULE KeyExpiry -----------------------------
(***************************************************************************)
(* Key lifetimes where the agent keeps none (Windows): every new session   *)
(* takes the keys whose time is up out of the agent before it loads the    *)
(* missing ones. Expirer.ExpireKeys (internal/keys/expire.go), called by   *)
(* deps.expireKeys (internal/cli/expirekeys.go) in shell-init; the records *)
(* it goes by (internal/keystate/keystate.go), written by load-keys        *)
(* (internal/keys/load.go); and move-keys, which changes the path a record *)
(* names a key by (internal/cli/movekeys.go).                              *)
(*                                                                         *)
(* Time is coarse: a lifetime is hours, ssh-add is bounded by seconds, so  *)
(* it does not pass between a key's being added and its being recorded.    *)
(***************************************************************************)
EXTENDS Integers

CONSTANTS
    Keys,         \* key files, told apart by base name, all in the key directory
    Sessions,     \* shells, each opened over and over
    Lifetime,     \* key_lifetime
    MaxTime,      \* bound: how far the clock goes
    MaxMishaps,   \* bound: calls that fail and processes that are killed
    AllowMoves    \* whether the user runs move-keys

ASSUME LifetimeAssumption == Lifetime \in Nat \ {0}
ASSUME BoundsAssumption ==
    /\ MaxTime \in Nat /\ MaxMishaps \in Nat
    /\ AllowMoves \in BOOLEAN

VARIABLES
    now,
    dir,      \* the key directory
    agent,    \* for each key: "out" of the agent, or there as "ours" or "theirs"
    record,   \* Store.Dir: the record under each key's base name, or NoRecord
    pc,
    due,      \* the records a session has found overdue and not yet dealt with
    listed,   \* the keys load-keys saw in the agent, or has dealt with since
    clock,    \* the time a session went by
    adding,   \* the key whose record a session is about to write, or drop
    added,    \* history: when sshakku last put each key in the agent
    unrecorded,  \* history: keys ours that nothing records (an unrecorded add)
    displaced,   \* history: keys whose record names the directory before the move
    forgotten,   \* history: keys a sweep dropped the record of, refused or too late
    spared,   \* history: keys a session could not ask about, or not record having
    renewed,  \* history: keys recorded anew while a session sweeps
    mishaps

session == <<pc, due, listed, clock, adding, spared, renewed>>
agents == <<agent, added, unrecorded, displaced, forgotten>>
vars == <<now, dir, record, session, agents, mishaps>>

Dirs == {"old", "new"}
NoRecord == [dir |-> "none", expires |-> 0]

\* Mutant: a unit of the clock too many.
LateRecord(d, at) == [dir |-> d, expires |-> at + Lifetime + 1]

Record(d, at) == [dir |-> d, expires |-> at + Lifetime]
Recorded(k) == record[k].dir # "none"
NoKey == "none"

Init ==
    /\ now = 0 /\ dir = "old"
    /\ agent \in [Keys -> {"out", "theirs"}]
    /\ record = [k \in Keys |-> NoRecord]
    /\ pc = [s \in Sessions |-> "closed"]
    /\ due = [s \in Sessions |-> {}]
    /\ listed = [s \in Sessions |-> {}]
    /\ clock = [s \in Sessions |-> 0]
    /\ adding = [s \in Sessions |-> NoKey]
    /\ added = [k \in Keys |-> 0]
    /\ unrecorded = {} /\ displaced = {} /\ forgotten = {}
    /\ spared = [s \in Sessions |-> {}]
    /\ renewed = [s \in Sessions |-> {}]
    /\ mishaps = 0

Mishap == mishaps < MaxMishaps /\ mishaps' = mishaps + 1
Goes(s, to) == pc' = [pc EXCEPT ![s] = to]
NobodyOpening == \A s \in Sessions : pc[s] = "closed"

-----------------------------------------------------------------------------
(* shell-init: ExpireKeys.                                                  *)

\* Mutant: a unit of the clock too early.
EarlyOverdue(k) == Recorded(k) /\ now + 1 >= record[k].expires
Overdue(k) == Recorded(k) /\ now >= record[k].expires

\* Those whose record another session is in the middle of writing.
BeingSaved == {adding[t] : t \in {x \in Sessions : pc[x] = "save"}}

(* Records() and the clock, read once. What cannot be read is left out, and *)
(* so is a record that is being written.                                    *)
Opens(s) == \E unread \in SUBSET Keys :
    /\ pc[s] = "closed"
    /\ IF unread \subseteq BeingSaved THEN UNCHANGED mishaps ELSE Mishap
    /\ due' = [due EXCEPT ![s] =
                 {<<k, record[k].dir>> : k \in {x \in Keys \ unread : Overdue(x)}}]
    /\ clock' = [clock EXCEPT ![s] = now]
    /\ spared' = [spared EXCEPT ![s] = unread]
    /\ Goes(s, "sweep")
    /\ UNCHANGED <<now, dir, record, agents, listed, adding, renewed>>

Dealt(s, k, d) == due' = [due EXCEPT ![s] = @ \ {<<k, d>>}]

(* ssh-add ran: it takes the key out if its file is where the record says   *)
(* and the agent has it, and either way the record goes next.               *)
Removes(s, k, d) ==
    /\ pc[s] = "sweep" /\ <<k, d>> \in due[s]
    /\ agent' = [agent EXCEPT ![k] = IF d = dir THEN "out" ELSE @]
    /\ Dealt(s, k, d)
    /\ adding' = [adding EXCEPT ![s] = k]
    /\ Goes(s, "forget")
    /\ UNCHANGED <<now, dir, record, listed, clock, added, unrecorded, displaced,
                   forgotten, spared, renewed, mishaps>>

(* It ran and exited non-zero with the key in the agent and its file there: *)
(* no agent could be reached, or the public half could not be read.         *)
RemovalRefused(s, k, d) ==
    /\ pc[s] = "sweep" /\ <<k, d>> \in due[s]
    /\ Mishap
    /\ Dealt(s, k, d)
    /\ adding' = [adding EXCEPT ![s] = k]
    /\ Goes(s, "refused")
    /\ UNCHANGED <<now, dir, record, agents, listed, clock, spared, renewed>>

\* Mutant: a removal that could not be asked for is forgotten too.
CannotRemoveForgets(s, k, d) ==
    /\ pc[s] = "sweep" /\ <<k, d>> \in due[s]
    /\ Mishap
    /\ Dealt(s, k, d)
    /\ spared' = [spared EXCEPT ![s] = @ \cup {k}]
    /\ record' = [record EXCEPT ![k] = NoRecord]
    /\ UNCHANGED <<now, dir, agents, pc, listed, clock, adding, renewed>>

(* ssh-add could not be found or run, or was stopped at removeTimeout,      *)
(* whether or not it had done its work: the record stays.                   *)
CannotRemove(s, k, d) ==
    /\ pc[s] = "sweep" /\ <<k, d>> \in due[s]
    /\ Mishap
    /\ \/ agent' = [agent EXCEPT ![k] = IF d = dir THEN "out" ELSE @]
       \/ UNCHANGED agent
    /\ Dealt(s, k, d)
    /\ spared' = [spared EXCEPT ![s] = @ \cup {k}]
    /\ UNCHANGED <<now, dir, record, pc, listed, clock, adding, added, unrecorded, displaced,
                   forgotten, renewed>>

(* Records.Forget, by base name: whatever ssh-add answered, and whatever    *)
(* the record there says by now.                                            *)
Forgets(s) ==
    /\ pc[s] \in {"forget", "refused"}
    /\ \/ /\ record' = [record EXCEPT ![adding[s]] = NoRecord]
          /\ forgotten' = IF pc[s] = "refused" \/ adding[s] \in renewed[s]
                          THEN forgotten \cup {adding[s]} ELSE forgotten
          /\ UNCHANGED <<spared, mishaps>>
       \/ /\ Mishap /\ spared' = [spared EXCEPT ![s] = @ \cup {adding[s]}]
          /\ UNCHANGED <<record, forgotten>>
    /\ adding' = [adding EXCEPT ![s] = NoKey]
    /\ Goes(s, "sweep")
    /\ UNCHANGED <<now, dir, agent, added, unrecorded, displaced, due, listed, clock, renewed>>

(* The sweep is over; load-keys runs in the same shell, or does not.        *)
Swept(s) ==
    /\ pc[s] = "sweep" /\ due[s] = {}
    /\ renewed' = [renewed EXCEPT ![s] = {}]
    /\ Goes(s, "swept")
    /\ UNCHANGED <<now, dir, record, agents, due, listed, clock, adding, spared, mishaps>>

-----------------------------------------------------------------------------
(* load-keys, as far as the records go; what is asked and typed on the way  *)
(* to a passphrase is KeyLoading's.                                         *)

ListsAgent(s) ==
    /\ pc[s] = "swept"
    /\ listed' = [listed EXCEPT ![s] = {k \in Keys : agent[k] # "out"}]
    /\ Goes(s, "load")
    /\ UNCHANGED <<now, dir, record, agents, due, clock, adding, spared, renewed, mishaps>>

(* The key is added with no expiry: the agent holds none.                   *)
Adds(s, k) ==
    /\ pc[s] = "load" /\ k \notin listed[s]
    /\ agent' = [agent EXCEPT ![k] = "ours"]
    /\ added' = [added EXCEPT ![k] = now]
    /\ listed' = [listed EXCEPT ![s] = @ \cup {k}]
    /\ adding' = [adding EXCEPT ![s] = k]
    /\ unrecorded' = unrecorded \cup {k}
    /\ Goes(s, "save")
    /\ UNCHANGED <<now, dir, record, displaced, forgotten, due, clock, spared, renewed, mishaps>>

\* A write that stops half way leaves a file that is no record.
Torn(k) == \/ UNCHANGED <<record, unrecorded>>
           \/ record' = [record EXCEPT ![k] = NoRecord] /\ unrecorded' = unrecorded \cup {k}

Sweeping(s) == pc[s] \in {"sweep", "forget", "refused"}

\* saveKeyState: a record that cannot be written is logged, and that is all.
SavesState(s) ==
    /\ pc[s] = "save"
    /\ \/ /\ record' = [record EXCEPT ![adding[s]] = Record(dir, now)]
          /\ unrecorded' = unrecorded \ {adding[s]}
          /\ displaced' = displaced \ {adding[s]} /\ forgotten' = forgotten \ {adding[s]}
          /\ renewed' = [t \in Sessions |->
                            IF Sweeping(t) THEN renewed[t] \cup {adding[s]} ELSE renewed[t]]
          /\ UNCHANGED mishaps
       \/ Mishap /\ Torn(adding[s]) /\ UNCHANGED <<displaced, forgotten, renewed>>
    /\ adding' = [adding EXCEPT ![s] = NoKey]
    /\ Goes(s, "load")
    /\ UNCHANGED <<now, dir, agent, due, listed, clock, added, spared>>

(* The process is no more, and what it knew is not either.                  *)
Ends(s) ==
    /\ Goes(s, "closed")
    /\ due' = [due EXCEPT ![s] = {}] /\ listed' = [listed EXCEPT ![s] = {}]
    /\ clock' = [clock EXCEPT ![s] = 0] /\ adding' = [adding EXCEPT ![s] = NoKey]
    /\ spared' = [spared EXCEPT ![s] = {}] /\ renewed' = [renewed EXCEPT ![s] = {}]

(* Every key is loaded, or the rest are not: excluded, dismissed, given up. *)
Closes(s) ==
    /\ pc[s] \in {"swept", "load"}
    /\ Ends(s)
    /\ UNCHANGED <<now, dir, record, agents, mishaps>>

Killed(s) ==
    /\ Sweeping(s) \/ pc[s] \in {"load", "save"}
    /\ Mishap
    /\ IF pc[s] = "save" THEN Torn(adding[s]) ELSE UNCHANGED <<record, unrecorded>>
    /\ Ends(s)
    /\ UNCHANGED <<now, dir, agent, added, displaced, forgotten>>

Sweeps(s) == \/ Opens(s) \/ Forgets(s) \/ Swept(s)
             \/ \E k \in Keys, d \in Dirs :
                    Removes(s, k, d) \/ RemovalRefused(s, k, d) \/ CannotRemove(s, k, d)
Loads(s) == ListsAgent(s) \/ SavesState(s) \/ Closes(s) \/ \E k \in Keys : Adds(s, k)

-----------------------------------------------------------------------------
(* The user, and the clock.                                                 *)

\* ssh-add run by hand, not in the moment between a session's own and its record.
UserAdds(k) ==
    /\ agent[k] = "out"
    /\ \A s \in Sessions : adding[s] # k
    /\ agent' = [agent EXCEPT ![k] = "theirs"]
    /\ unrecorded' = unrecorded \ {k}
    /\ UNCHANGED <<now, dir, record, session, added, displaced, forgotten, mishaps>>

\* ssh-add -d run by hand.
UserRemoves(k) ==
    /\ agent[k] # "out"
    /\ agent' = [agent EXCEPT ![k] = "out"]
    /\ unrecorded' = unrecorded \ {k}
    /\ UNCHANGED <<now, dir, record, session, added, displaced, forgotten, mishaps>>

(* move-keys, between sessions: every key is in the new directory, under    *)
(* its name, and no record is told.                                         *)
MovesKeys ==
    /\ AllowMoves /\ NobodyOpening
    /\ dir = "old" /\ dir' = "new"
    /\ displaced' = {k \in Keys : Recorded(k)}
    /\ UNCHANGED <<now, agent, record, session, added, unrecorded, forgotten, mishaps>>

Tick ==
    /\ now < MaxTime
    /\ \A s \in Sessions : pc[s] # "save"
    /\ now' = now + 1
    /\ UNCHANGED <<dir, record, session, agents, mishaps>>

Next == \/ \E s \in Sessions : Sweeps(s) \/ Loads(s) \/ Killed(s)
        \/ \E k \in Keys : UserAdds(k) \/ UserRemoves(k)
        \/ MovesKeys \/ Tick

Spec == Init /\ [][Next]_vars

-----------------------------------------------------------------------------
(* The properties.                                                          *)

TypeOK ==
    /\ now \in 0..MaxTime /\ dir \in Dirs
    /\ agent \in [Keys -> {"out", "ours", "theirs"}]
    /\ record \in [Keys -> [dir : Dirs \cup {"none"}, expires : 0..MaxTime + Lifetime]]
    /\ pc \in [Sessions -> {"closed", "sweep", "forget", "refused", "swept", "load", "save"}]
    /\ due \in [Sessions -> SUBSET (Keys \X Dirs)]
    /\ listed \in [Sessions -> SUBSET Keys]
    /\ clock \in [Sessions -> 0..MaxTime]
    /\ adding \in [Sessions -> Keys \cup {NoKey}]
    /\ \A s \in Sessions : pc[s] \in {"forget", "refused", "save"} => adding[s] \in Keys
    /\ added \in [Keys -> 0..MaxTime]
    /\ unrecorded \cup displaced \cup forgotten \subseteq Keys
    /\ spared \in [Sessions -> SUBSET Keys] /\ renewed \in [Sessions -> SUBSET Keys]
    /\ mishaps \in 0..MaxMishaps

HasHadItsTime(k, at) == at >= added[k] + Lifetime

Overstays(s, k) ==
    /\ pc[s] \in {"swept", "load", "save"}
    /\ agent[k] = "ours" /\ k \notin unrecorded \cup spared[s]
    /\ HasHadItsTime(k, clock[s])

(* F53, F16: once a session has swept, and however many open at once, no    *)
(* key sshakku put in the agent is still there a lifetime later, but one it *)
(* could not ask about just now, one whose adding is on no record, and      *)
(* three the code loses sight of: move-keys has moved it since, ssh-add     *)
(* exited non-zero with the key there (expire.go:119-127 forgets it all the *)
(* same), or a sweep dropped the record another session had written since   *)
(* that sweep read it.                                                      *)
NoneOutlives ==
    \A s \in Sessions, k \in Keys : Overstays(s, k) => k \in displaced \cup forgotten

(* What a sweep has asked the agent about it does not ask again: whether    *)
(* the key was there or not, its record goes, unless nothing was asked.     *)
AskedKey(s, k) ==
    /\ pc[s] \in {"swept", "load", "save"} /\ k \notin spared[s]
    /\ Recorded(k)
    => record[k].expires > clock[s]
AskedForOnce == \A s \in Sessions, k \in Keys : AskedKey(s, k)

Takes(s, k) == /\ agent'[k] = "out" /\ agent[k] # "out"
               /\ pc'[s] # pc[s] \/ due'[s] # due[s]

(* No session takes a key out before it has had the lifetime configured,    *)
(* counted from when it was last added, but one whose adding is on no       *)
(* record yet, and one recorded anew since the session read the records     *)
(* (which expire.go:75-86 does once, before the first ssh-add).             *)
NoneTakenEarly == [][\A s \in Sessions, k \in Keys :
    Takes(s, k) /\ agent[k] = "ours" /\ k \notin unrecorded \cup renewed[s]
        => HasHadItsTime(k, now)]_vars
=============================================================================
