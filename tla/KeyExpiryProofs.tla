--------------------------- MODULE KeyExpiryProofs --------------------------
(***************************************************************************)
(* Theorems about KeyExpiry, for any number of keys, of sessions that open *)
(* beside each other, and of mishaps, and any lifetime: no key outlives    *)
(* its lifetime past the next session's sweep, and none is taken out       *)
(* before it, but for the causes the properties name.                      *)
(***************************************************************************)
EXTENDS KeyExpiry, TLAPS

USE LifetimeAssumption, BoundsAssumption

(* A record names a file that is where it says, unless its key was moved    *)
(* since, and so does what a session found, unless it was recorded anew.    *)
Where(k) == IF k \in displaced THEN "old" ELSE dir
RecordsFind ==
    /\ displaced # {} => dir = "new"
    /\ \A k \in Keys : Recorded(k) => record[k].dir = Where(k)
    /\ \A s \in Sessions, k \in Keys, d \in Dirs :
          <<k, d>> \in due[s] => d = Where(k) \/ k \in renewed[s]
ClocksPast == \A s \in Sessions : clock[s] <= now

(* A key of ours that is recorded has in its record when it was last added, *)
(* and one that was forgotten has none.                                     *)
CountedKey(k) ==
    /\ agent[k] = "ours" /\ k \notin unrecorded \cup displaced \cup forgotten =>
          Recorded(k) /\ record[k].expires = added[k] + Lifetime
    /\ k \in forgotten => ~Recorded(k)
RecordsCount == \A k \in Keys : CountedKey(k)

(* What a session is about to write or drop the record of.                  *)
HandlingIn(s) ==
    /\ pc[s] = "forget" => \/ agent[adding[s]] # "ours"
                           \/ adding[s] \in displaced \cup unrecorded \cup renewed[s]
    /\ pc[s] = "save" => added[adding[s]] = now
Handling == \A s \in Sessions : HandlingIn(s)

(* A session has yet to deal with what it found overdue, and nothing else.  *)
IsDue(s, k) == \E d \in Dirs : <<k, d>> \in due[s]
SweepingKey(s, k) ==
    /\ Sweeping(s) /\ Recorded(k) /\ record[k].expires <= clock[s]
       => IsDue(s, k) \/ k \in spared[s] \/ (pc[s] \in {"forget", "refused"} /\ adding[s] = k)
    /\ IsDue(s, k) /\ agent[k] = "ours" /\ k \notin unrecorded \cup displaced \cup renewed[s]
       => added[k] + Lifetime <= clock[s]
    /\ ~Sweeping(s) => ~IsDue(s, k)
SweepingAll == \A s \in Sessions, k \in Keys : SweepingKey(s, k)
SweptClean == AskedForOnce

Inv == RecordsFind /\ ClocksPast /\ RecordsCount /\ Handling /\ SweepingAll /\ SweptClean

-----------------------------------------------------------------------------
LEMMA Numbers ==
    ASSUME TypeOK, NEW s \in Sessions, NEW k \in Keys
    PROVE  record[k].expires \in Int /\ clock[s] \in Int /\ now \in Int /\ added[k] \in Int
BY DEF TypeOK

RecordType == [dir : Dirs \cup {"none"}, expires : 0..MaxTime + Lifetime]

LEMMA RecordsAreTyped ==
    ASSUME TypeOK
    PROVE  NoRecord \in RecordType /\ Record(dir, now) \in RecordType
BY DEF TypeOK, RecordType, NoRecord, Record, Dirs

(* What a write that fails or is cut off leaves.                            *)
Undone(k) == /\ \A j \in Keys : record'[j] = record[j] \/ (j = k /\ record'[j] = NoRecord)
             /\ unrecorded \subseteq unrecorded' /\ unrecorded' \subseteq unrecorded \cup {k}
             /\ record'[k] = record[k] \/ k \in unrecorded'

LEMMA TornIs ==
    ASSUME TypeOK, NEW k \in Keys, Torn(k)
    PROVE  /\ Undone(k)
           /\ record' \in [Keys -> RecordType] /\ unrecorded' \subseteq Keys
<1>1. record \in [Keys -> RecordType] /\ unrecorded \subseteq Keys
  BY DEF TypeOK, RecordType
<1>2. CASE UNCHANGED <<record, unrecorded>>
  BY <1>1, <1>2 DEF Undone
<1>3. CASE record' = [record EXCEPT ![k] = NoRecord] /\ unrecorded' = unrecorded \cup {k}
  BY <1>1, <1>3, RecordsAreTyped DEF Undone
<1> QED
  BY <1>2, <1>3 DEF Torn

(* A process that is no more knows nothing.                                 *)
EndedIn(s) ==
    /\ pc' = [pc EXCEPT ![s] = "closed"]
    /\ \A t \in Sessions :
          /\ due'[t] = IF t = s THEN {} ELSE due[t]
          /\ clock'[t] = IF t = s THEN 0 ELSE clock[t]
          /\ adding'[t] = IF t = s THEN NoKey ELSE adding[t]
          /\ spared'[t] = IF t = s THEN {} ELSE spared[t]
          /\ renewed'[t] = IF t = s THEN {} ELSE renewed[t]

LEMMA EndsIs ==
    ASSUME TypeOK, NEW s \in Sessions, Ends(s)
    PROVE  /\ EndedIn(s)
           /\ pc' \in [Sessions -> {"closed", "sweep", "forget", "refused", "swept", "load", "save"}]
           /\ due' \in [Sessions -> SUBSET (Keys \X Dirs)] /\ listed' \in [Sessions -> SUBSET Keys]
           /\ clock' \in [Sessions -> 0..MaxTime] /\ adding' \in [Sessions -> Keys \cup {NoKey}]
           /\ spared' \in [Sessions -> SUBSET Keys] /\ renewed' \in [Sessions -> SUBSET Keys]
           /\ \A t \in Sessions : pc'[t] \in {"forget", "refused", "save"} => adding'[t] \in Keys
BY DEF TypeOK, Ends, EndedIn, Goes

(* Which of its records a session has dealt with.                           *)
LEMMA DealtIs ==
    ASSUME TypeOK, NEW s \in Sessions, NEW k \in Keys, NEW d \in Dirs, Dealt(s, k, d)
    PROVE  /\ \A t \in Sessions, j \in Keys : IsDue(t, j)' => IsDue(t, j)
           /\ \A t \in Sessions, j \in Keys : IsDue(t, j) => IsDue(t, j)' \/ (t = s /\ j = k)
           /\ \A t \in Sessions, j \in Keys, e \in Dirs : <<j, e>> \in due'[t] => <<j, e>> \in due[t]
BY DEF TypeOK, Dealt, IsDue

(* Dropping a record leaves the others as they are.                         *)
DroppedIn(s) ==
    /\ record'[adding[s]] = NoRecord
    /\ \A k \in Keys : k # adding[s] => record'[k] = record[k]
    /\ forgotten' = IF pc[s] = "refused" \/ adding[s] \in renewed[s]
                    THEN forgotten \cup {adding[s]} ELSE forgotten
    /\ spared' = spared
KeptIn(s) ==
    /\ record' = record /\ forgotten' = forgotten /\ adding[s] \in spared'[s]
    /\ \A t \in Sessions, k \in Keys : k \in spared[t] => k \in spared'[t]

LEMMA ForgetsIs ==
    ASSUME TypeOK, NEW s \in Sessions, Forgets(s)
    PROVE  /\ pc[s] \in {"forget", "refused"} /\ pc' = [pc EXCEPT ![s] = "sweep"] /\ adding[s] \in Keys
           /\ \A t \in Sessions : t # s => adding'[t] = adding[t]
           /\ UNCHANGED <<now, dir, agent, added, unrecorded, displaced, due, clock, renewed>>
           /\ DroppedIn(s) \/ KeptIn(s)
           /\ record' \in [Keys -> RecordType]
<1>1. record \in [Keys -> RecordType] /\ adding[s] \in Keys
  BY DEF TypeOK, RecordType, Forgets
<1>2. ASSUME record' = [record EXCEPT ![adding[s]] = NoRecord], UNCHANGED spared,
             forgotten' = IF pc[s] = "refused" \/ adding[s] \in renewed[s]
                          THEN forgotten \cup {adding[s]} ELSE forgotten
      PROVE  DroppedIn(s)
  BY <1>1, <1>2, RecordsAreTyped DEF DroppedIn
<1>3. ASSUME spared' = [spared EXCEPT ![s] = @ \cup {adding[s]}], UNCHANGED <<record, forgotten>>
      PROVE  KeptIn(s)
  <2>1. spared \in [Sessions -> SUBSET Keys]
    BY DEF TypeOK
  <2>2. \A t \in Sessions : spared'[t] = IF t = s THEN spared[s] \cup {adding[s]} ELSE spared[t]
    BY <1>3, <2>1
  <2> QED BY <1>3, <2>2 DEF KeptIn
<1>4. /\ DroppedIn(s) \/ KeptIn(s)
      /\ record' \in [Keys -> RecordType]
  <2>1. \/ /\ record' = [record EXCEPT ![adding[s]] = NoRecord] /\ UNCHANGED spared
           /\ forgotten' = IF pc[s] = "refused" \/ adding[s] \in renewed[s]
                           THEN forgotten \cup {adding[s]} ELSE forgotten
        \/ spared' = [spared EXCEPT ![s] = @ \cup {adding[s]}] /\ UNCHANGED <<record, forgotten>>
    BY DEF Forgets
  <2>2. \/ DroppedIn(s) \/ KeptIn(s)
    BY <1>2, <1>3, <2>1
  <2>3. record' \in [Keys -> RecordType]
    BY <1>1, <2>1, RecordsAreTyped
  <2> QED BY <2>2, <2>3
<1>5. \A t \in Sessions : t # s => adding'[t] = adding[t]
  BY DEF Forgets, TypeOK
<1> QED
  BY <1>1, <1>4, <1>5 DEF Forgets, Goes

WrittenIn(s) ==
    /\ record'[adding[s]] = Record(dir, now)
    /\ \A k \in Keys : k # adding[s] => record'[k] = record[k]
    /\ unrecorded' = unrecorded \ {adding[s]} /\ displaced' = displaced \ {adding[s]}
    /\ forgotten' = forgotten \ {adding[s]}
    /\ \A t \in Sessions : renewed'[t] = IF Sweeping(t) THEN renewed[t] \cup {adding[s]} ELSE renewed[t]
UnwrittenIn(s) == Undone(adding[s]) /\ UNCHANGED <<displaced, forgotten, renewed>>

LEMMA SavesIs ==
    ASSUME TypeOK, NEW s \in Sessions, SavesState(s)
    PROVE  /\ pc[s] = "save" /\ pc' = [pc EXCEPT ![s] = "load"] /\ adding[s] \in Keys
           /\ \A t \in Sessions : t # s => adding'[t] = adding[t]
           /\ UNCHANGED <<now, dir, agent, added, due, clock, spared>>
           /\ WrittenIn(s) \/ UnwrittenIn(s)
           /\ record' \in [Keys -> RecordType] /\ unrecorded' \subseteq Keys
<1>1. record \in [Keys -> RecordType] /\ adding[s] \in Keys /\ unrecorded \subseteq Keys
  BY DEF TypeOK, RecordType, SavesState
<1>2. ASSUME record' = [record EXCEPT ![adding[s]] = Record(dir, now)],
             unrecorded' = unrecorded \ {adding[s]}, displaced' = displaced \ {adding[s]},
             forgotten' = forgotten \ {adding[s]},
             renewed' = [t \in Sessions |->
                            IF Sweeping(t) THEN renewed[t] \cup {adding[s]} ELSE renewed[t]]
      PROVE  WrittenIn(s) /\ record' \in [Keys -> RecordType] /\ unrecorded' \subseteq Keys
  BY <1>1, <1>2, RecordsAreTyped DEF WrittenIn
<1>3. ASSUME Torn(adding[s]), UNCHANGED <<displaced, forgotten, renewed>>
      PROVE  UnwrittenIn(s) /\ record' \in [Keys -> RecordType] /\ unrecorded' \subseteq Keys
  BY <1>1, <1>3, TornIs DEF UnwrittenIn
<1>4. /\ WrittenIn(s) \/ UnwrittenIn(s)
      /\ record' \in [Keys -> RecordType] /\ unrecorded' \subseteq Keys
  BY <1>2, <1>3 DEF SavesState
<1>5. \A t \in Sessions : t # s => adding'[t] = adding[t]
  BY DEF SavesState, TypeOK
<1> QED
  BY <1>1, <1>4, <1>5 DEF SavesState, Goes

LEMMA KilledIs ==
    ASSUME TypeOK, NEW s \in Sessions, Killed(s)
    PROVE  /\ Ends(s) /\ UNCHANGED <<now, dir, agent, added, displaced, forgotten>>
           /\ \/ UNCHANGED <<record, unrecorded>>
              \/ pc[s] = "save" /\ adding[s] \in Keys /\ Undone(adding[s])
           /\ record' \in [Keys -> RecordType] /\ unrecorded' \subseteq Keys
<1>1. record \in [Keys -> RecordType] /\ unrecorded \subseteq Keys
  BY DEF TypeOK, RecordType
<1>2. CASE pc[s] = "save"
  <2>1. adding[s] \in Keys /\ Torn(adding[s])
    BY <1>2 DEF Killed, TypeOK
  <2> QED BY <1>2, <2>1, TornIs DEF Killed
<1>3. CASE pc[s] # "save"
  BY <1>1, <1>3 DEF Killed
<1> QED BY <1>2, <1>3

(* A step of the sweep that asks, and what becomes of the key by it.        *)
AsksIn(s, k, d) ==
    /\ pc[s] = "sweep" /\ <<k, d>> \in due[s] /\ Dealt(s, k, d)
    /\ \A j \in Keys : agent'[j] = agent[j] \/ (j = k /\ d = dir /\ agent'[j] = "out")
    /\ UNCHANGED <<now, dir, record, added, unrecorded, displaced, forgotten, renewed, clock>>
    /\ \/ /\ pc' = [pc EXCEPT ![s] = "forget"] /\ adding' = [adding EXCEPT ![s] = k]
          /\ spared' = spared /\ (d = dir => agent'[k] = "out")
       \/ /\ pc' = [pc EXCEPT ![s] = "refused"] /\ adding' = [adding EXCEPT ![s] = k]
          /\ spared' = spared
       \/ pc' = pc /\ adding' = adding /\ spared' = [spared EXCEPT ![s] = @ \cup {k}]

LEMMA AsksIs ==
    ASSUME TypeOK, NEW s \in Sessions, NEW k \in Keys, NEW d \in Dirs,
           Removes(s, k, d) \/ RemovalRefused(s, k, d) \/ CannotRemove(s, k, d)
    PROVE  AsksIn(s, k, d)
<1>1. agent \in [Keys -> {"out", "ours", "theirs"}]
  BY DEF TypeOK
<1>2. CASE Removes(s, k, d)
  BY <1>1, <1>2 DEF Removes, AsksIn, Goes
<1>3. CASE RemovalRefused(s, k, d)
  BY <1>3 DEF RemovalRefused, AsksIn, Goes, agents
<1>4. CASE CannotRemove(s, k, d)
  BY <1>1, <1>4 DEF CannotRemove, AsksIn
<1> QED BY <1>2, <1>3, <1>4

LEMMA TypeStep ==
    ASSUME TypeOK, [Next]_vars PROVE TypeOK'
<1> USE DEF session, agents, Goes, Mishap, Recorded, Dirs
<1>1. ASSUME NEW s \in Sessions, Opens(s) PROVE TypeOK'
  BY <1>1 DEF Opens, Overdue, TypeOK
<1>2. ASSUME NEW s \in Sessions, Forgets(s) PROVE TypeOK'
  <2>1. record' \in [Keys -> RecordType] /\ adding[s] \in Keys
    BY <1>2, ForgetsIs
  <2>2. /\ adding' \in [Sessions -> Keys \cup {NoKey}]
        /\ pc' \in [Sessions -> {"closed", "sweep", "forget", "refused", "swept", "load", "save"}]
    BY <1>2, <2>1 DEF Forgets, TypeOK
  <2>3. \A t \in Sessions : pc'[t] \in {"forget", "refused", "save"} => adding'[t] \in Keys
    <3> SUFFICES ASSUME NEW t \in Sessions, pc'[t] \in {"forget", "refused", "save"}
                 PROVE  adding'[t] \in Keys
      OBVIOUS
    <3>1. t # s /\ pc'[t] = pc[t] /\ adding'[t] = adding[t]
      BY <1>2 DEF Forgets, TypeOK
    <3> QED
      BY <3>1 DEF TypeOK
  <2>4. spared' \in [Sessions -> SUBSET Keys] /\ mishaps' \in 0..MaxMishaps
    <3>1. CASE UNCHANGED <<spared, mishaps>>
      BY <3>1 DEF TypeOK
    <3>2. CASE Mishap /\ spared' = [spared EXCEPT ![s] = @ \cup {adding[s]}]
      BY <2>1, <3>2, BoundsAssumption DEF TypeOK
    <3> QED
      BY <1>2, <3>1, <3>2 DEF Forgets
  <2>5. forgotten' \subseteq Keys
    BY <1>2, <2>1 DEF Forgets, TypeOK
  <2>6. UNCHANGED <<now, dir, agent, added, unrecorded, displaced, due, listed, clock, renewed>>
    BY <1>2 DEF Forgets
  <2> QED
    BY <2>1, <2>2, <2>3, <2>4, <2>5, <2>6 DEF TypeOK, RecordType
<1>3. ASSUME NEW s \in Sessions, Swept(s) PROVE TypeOK'
  BY <1>3 DEF Swept, TypeOK
<1>4. ASSUME NEW s \in Sessions, ListsAgent(s) PROVE TypeOK'
  BY <1>4 DEF ListsAgent, TypeOK
<1>5. ASSUME NEW s \in Sessions, SavesState(s) PROVE TypeOK'
  <2>1. /\ record' \in [Keys -> RecordType] /\ unrecorded' \subseteq Keys
        /\ adding[s] \in Keys /\ pc' = [pc EXCEPT ![s] = "load"]
    BY <1>5, SavesIs
  <2>2. /\ displaced' \subseteq Keys /\ forgotten' \subseteq Keys
        /\ renewed' \in [Sessions -> SUBSET Keys] /\ mishaps' \in 0..MaxMishaps
    <3>1. CASE UNCHANGED <<displaced, forgotten, renewed>> /\ Mishap
      BY <3>1 DEF TypeOK
    <3>2. CASE /\ displaced' = displaced \ {adding[s]} /\ forgotten' = forgotten \ {adding[s]}
               /\ renewed' = [t \in Sessions |->
                    IF Sweeping(t) THEN renewed[t] \cup {adding[s]} ELSE renewed[t]]
               /\ UNCHANGED mishaps
      BY <2>1, <3>2 DEF TypeOK
    <3> QED
      BY <1>5, <3>1, <3>2 DEF SavesState
  <2>3. /\ adding' \in [Sessions -> Keys \cup {NoKey}]
        /\ pc' \in [Sessions -> {"closed", "sweep", "forget", "refused", "swept", "load", "save"}]
        /\ \A t \in Sessions : pc'[t] \in {"forget", "refused", "save"} => adding'[t] \in Keys
    BY <1>5, <2>1 DEF SavesState, TypeOK
  <2>4. UNCHANGED <<now, dir, agent, due, listed, clock, added, spared>>
    BY <1>5 DEF SavesState
  <2> QED
    BY <2>1, <2>2, <2>3, <2>4 DEF TypeOK, RecordType
<1>6. ASSUME NEW s \in Sessions, Closes(s) PROVE TypeOK'
  <2>1. Ends(s)
    BY <1>6 DEF Closes
  <2>2. UNCHANGED <<now, dir, record, agent, added, unrecorded, displaced, forgotten, mishaps>>
    BY <1>6 DEF Closes
  <2> QED
    BY <2>1, <2>2, EndsIs DEF TypeOK
<1>7. ASSUME NEW s \in Sessions, Killed(s) PROVE TypeOK'
  <2>1. /\ Ends(s) /\ record' \in [Keys -> RecordType] /\ unrecorded' \subseteq Keys
        /\ UNCHANGED <<now, dir, agent, added, displaced, forgotten>>
    BY <1>7, KilledIs
  <2>2. mishaps' \in 0..MaxMishaps
    BY <1>7 DEF Killed, TypeOK
  <2> QED
    BY <2>1, <2>2, EndsIs DEF TypeOK, RecordType
<1>8. ASSUME NEW s \in Sessions, NEW k \in Keys, NEW d \in Dirs,
             Removes(s, k, d) \/ RemovalRefused(s, k, d)
      PROVE  TypeOK'
  <2>1. CASE Removes(s, k, d)
    BY <2>1 DEF Removes, Dealt, TypeOK
  <2>2. CASE RemovalRefused(s, k, d)
    BY <2>2 DEF RemovalRefused, Dealt, TypeOK
  <2> QED BY <1>8, <2>1, <2>2
<1>9. ASSUME NEW s \in Sessions, NEW k \in Keys, NEW d \in Dirs, CannotRemove(s, k, d) PROVE TypeOK'
  BY <1>9 DEF CannotRemove, Dealt, TypeOK
<1>10. ASSUME NEW s \in Sessions, NEW k \in Keys, Adds(s, k) PROVE TypeOK'
  BY <1>10 DEF Adds, TypeOK
<1>11. ASSUME NEW k \in Keys, UserAdds(k) \/ UserRemoves(k) PROVE TypeOK'
  BY <1>11, SMTT(30) DEF UserAdds, UserRemoves, TypeOK
<1>12. CASE MovesKeys \/ Tick
  BY <1>12 DEF MovesKeys, Tick, TypeOK
<1>13. CASE UNCHANGED vars
  BY <1>13 DEF vars, TypeOK
<1> HIDE DEF Dirs
<1> QED
  BY <1>1, <1>2, <1>3, <1>4, <1>5, <1>6, <1>7, <1>8, <1>9, <1>10, <1>11, <1>12, <1>13
     DEF Next, Sweeps, Loads

(* No session goes by a clock that is ahead.                                *)
LEMMA ClockStep ==
    ASSUME TypeOK, ClocksPast, [Next]_vars PROVE ClocksPast'
<1> USE DEF session, agents, ClocksPast
<1>1. ASSUME NEW s \in Sessions, Opens(s) PROVE ClocksPast'
  BY <1>1 DEF Opens, TypeOK
<1>2. ASSUME NEW s \in Sessions, Closes(s) \/ Killed(s) PROVE ClocksPast'
  <2>1. Ends(s) /\ now' = now
    BY <1>2 DEF Closes, Killed
  <2> QED BY <2>1, EndsIs DEF EndedIn, TypeOK
<1>3. ASSUME NEW s \in Sessions,
             \/ Forgets(s) \/ Swept(s) \/ ListsAgent(s) \/ SavesState(s)
             \/ \E k \in Keys : Adds(s, k)
             \/ \E k \in Keys, d \in Dirs : Removes(s, k, d) \/ RemovalRefused(s, k, d) \/ CannotRemove(s, k, d)
      PROVE  ClocksPast'
  BY <1>3 DEF Forgets, Swept, ListsAgent, SavesState, Adds, Removes, RemovalRefused, CannotRemove
<1>4. CASE Tick
  BY <1>4 DEF Tick, TypeOK
<1>5. CASE MovesKeys \/ UNCHANGED vars \/ \E k \in Keys : UserAdds(k) \/ UserRemoves(k)
  BY <1>5 DEF MovesKeys, vars, UserAdds, UserRemoves
<1> HIDE DEF ClocksPast
<1> QED BY <1>1, <1>2, <1>3, <1>4, <1>5 DEF Next, Sweeps, Loads

LEMMA FindStep ==
    ASSUME TypeOK, Inv, [Next]_vars PROVE RecordsFind'
<1> USE DEF session, agents, Recorded, Where, RecordsFind
<1>i. RecordsFind /\ SweepingAll
  BY DEF Inv
<1>1. ASSUME NEW s \in Sessions, Opens(s) PROVE RecordsFind'
  <2>1. /\ UNCHANGED <<dir, record, displaced, renewed>>
        /\ \A t \in Sessions, k \in Keys, d \in Dirs :
              <<k, d>> \in due'[t] => <<k, d>> \in due[t] \/ (Recorded(k) /\ d = record[k].dir)
    BY <1>1 DEF Opens, Overdue, TypeOK
  <2> QED BY <1>i, <2>1
<1>2. ASSUME NEW s \in Sessions, Forgets(s) PROVE RecordsFind'
  <2>1. /\ UNCHANGED <<dir, displaced, due, renewed>>
        /\ \A k \in Keys : record'[k] = record[k] \/ record'[k] = NoRecord
    BY <1>2, ForgetsIs DEF DroppedIn, KeptIn
  <2> QED BY <1>i, <2>1 DEF NoRecord
<1>3. ASSUME NEW s \in Sessions, Swept(s) PROVE RecordsFind'
  <2>1. /\ UNCHANGED <<dir, record, displaced, due>> /\ due[s] = {}
        /\ \A t \in Sessions : t # s => renewed'[t] = renewed[t]
    BY <1>3 DEF Swept, TypeOK
  <2> QED BY <1>i, <2>1
<1>4. ASSUME NEW s \in Sessions, ListsAgent(s) \/ \E k \in Keys : Adds(s, k) PROVE RecordsFind'
  BY <1>i, <1>4 DEF ListsAgent, Adds
<1>5. ASSUME NEW s \in Sessions, SavesState(s) PROVE RecordsFind'
  <2>1. /\ adding[s] \in Keys /\ UNCHANGED <<dir, due>> /\ (WrittenIn(s) \/ UnwrittenIn(s))
    BY <1>5, SavesIs
  <2>2. CASE UnwrittenIn(s)
    BY <1>i, <2>1, <2>2 DEF UnwrittenIn, Undone, NoRecord
  <2>3. CASE WrittenIn(s)
    <3>1. ASSUME NEW k \in Keys, Recorded(k)' PROVE record'[k].dir = Where(k)'
      <4>1. CASE k = adding[s]
        BY <2>1, <2>3, <4>1 DEF WrittenIn, Record
      <4>2. CASE k # adding[s]
        BY <1>i, <2>1, <2>3, <3>1, <4>2 DEF WrittenIn
      <4> QED BY <4>1, <4>2
    <3>2. ASSUME NEW t \in Sessions, NEW k \in Keys, NEW d \in Dirs, <<k, d>> \in due'[t]
          PROVE  d = Where(k)' \/ k \in renewed'[t]
      <4>1. Sweeping(t) /\ (d = Where(k) \/ k \in renewed[t])
        BY <1>i, <2>1, <3>2 DEF SweepingAll, SweepingKey, IsDue
      <4>2. k # adding[s] => Where(k)' = Where(k)
        BY <2>1, <2>3 DEF WrittenIn
      <4> QED BY <2>3, <4>1, <4>2 DEF WrittenIn
    <3>3. displaced' \subseteq displaced
      BY <2>3 DEF WrittenIn
    <3> QED BY <1>i, <2>1, <3>1, <3>2, <3>3
  <2> QED BY <2>1, <2>2, <2>3
<1>6. ASSUME NEW s \in Sessions, Closes(s) \/ Killed(s) PROVE RecordsFind'
  <2>1. /\ UNCHANGED <<dir, displaced>> /\ EndedIn(s)
        /\ \A k \in Keys : record'[k] = record[k] \/ record'[k] = NoRecord
    BY <1>6, EndsIs, KilledIs DEF Closes, Undone
  <2> QED BY <1>i, <2>1 DEF EndedIn, NoRecord
<1>7. ASSUME NEW s \in Sessions, NEW k \in Keys, NEW d \in Dirs,
             Removes(s, k, d) \/ RemovalRefused(s, k, d) \/ CannotRemove(s, k, d)
      PROVE  RecordsFind'
  <2>1. AsksIn(s, k, d)
    BY <1>7, AsksIs
  <2>2. /\ UNCHANGED <<dir, record, displaced, renewed>>
        /\ \A t \in Sessions, j \in Keys, e \in Dirs : <<j, e>> \in due'[t] => <<j, e>> \in due[t]
    BY <2>1, DealtIs DEF AsksIn
  <2> QED BY <1>i, <2>2
<1>8. CASE \/ Tick \/ UNCHANGED vars \/ \E k \in Keys : UserAdds(k) \/ UserRemoves(k)
  BY <1>i, <1>8 DEF Tick, vars, UserAdds, UserRemoves
<1>9. CASE MovesKeys
  <2>1. /\ dir = "old" /\ dir' = "new" /\ displaced' = {k \in Keys : Recorded(k)}
        /\ UNCHANGED <<record, due>> /\ \A s \in Sessions : ~Sweeping(s)
    BY <1>9 DEF MovesKeys, NobodyOpening, Sweeping
  <2>2. ASSUME NEW t \in Sessions, NEW k \in Keys, NEW d \in Dirs PROVE <<k, d>> \notin due'[t]
    BY <1>i, <2>1 DEF SweepingAll, SweepingKey, IsDue
  <2> QED BY <1>i, <2>1, <2>2
<1> HIDE DEF RecordsFind
<1> QED BY <1>1, <1>2, <1>3, <1>4, <1>5, <1>6, <1>7, <1>8, <1>9 DEF Next, Sweeps, Loads

LEMMA CountStep ==
    ASSUME TypeOK, Inv, [Next]_vars PROVE RecordsCount'
<1> USE DEF session, agents, Recorded, CountedKey
<1>i. \A k \in Keys : CountedKey(k)
  BY DEF Inv, RecordsCount
<1> HIDE DEF CountedKey
<1>s. ASSUME UNCHANGED <<agent, record, added, unrecorded, displaced, forgotten>> PROVE RecordsCount'
  BY <1>i, <1>s DEF RecordsCount, CountedKey
<1>1. ASSUME NEW s \in Sessions, Forgets(s) PROVE RecordsCount'
  <2>1. /\ pc[s] \in {"forget", "refused"} /\ adding[s] \in Keys
        /\ UNCHANGED <<agent, added, unrecorded, displaced>> /\ (DroppedIn(s) \/ KeptIn(s))
    BY <1>1, ForgetsIs
  <2>2. HandlingIn(s)
    BY DEF Inv, Handling
  <2>3. CASE KeptIn(s)
    BY <1>s, <2>1, <2>3 DEF KeptIn
  <2>4. ASSUME DroppedIn(s), NEW k \in Keys PROVE CountedKey(k)'
    <3>1. CASE k # adding[s]
      <4>1. (k \in forgotten' <=> k \in forgotten) /\ record'[k] = record[k]
        BY <2>4, <3>1 DEF DroppedIn
      <4> QED BY <1>i, <2>1, <4>1 DEF CountedKey
    <3>2. CASE k = adding[s]
      <4>1. ~Recorded(k)'
        BY <2>4, <3>2 DEF DroppedIn, NoRecord
      <4>2. agent[k] = "ours" => k \in forgotten' \cup displaced \cup unrecorded
        BY <2>1, <2>2, <2>4, <3>2 DEF DroppedIn, HandlingIn
      <4> QED BY <2>1, <4>1, <4>2 DEF CountedKey
    <3> QED BY <3>1, <3>2
  <2> QED BY <2>1, <2>3, <2>4 DEF RecordsCount
<1>2. ASSUME NEW s \in Sessions, SavesState(s) PROVE RecordsCount'
  <2>1. /\ pc[s] = "save" /\ adding[s] \in Keys /\ UNCHANGED <<agent, added, now, dir>>
        /\ (WrittenIn(s) \/ UnwrittenIn(s))
    BY <1>2, SavesIs
  <2>2. added[adding[s]] = now
    BY <2>1 DEF Inv, Handling, HandlingIn
  <2>3. ASSUME NEW k \in Keys PROVE CountedKey(k)'
    <3>1. CASE WrittenIn(s) /\ k = adding[s]
      <4>1. dir # "none" /\ k \notin forgotten'
        BY <3>1 DEF TypeOK, Dirs, WrittenIn
      <4>2. record'[k] = [dir |-> dir, expires |-> added'[k] + Lifetime]
        BY <2>1, <2>2, <3>1 DEF WrittenIn, Record
      <4> QED BY <4>1, <4>2 DEF CountedKey
    <3>2. CASE WrittenIn(s) /\ k # adding[s]
      BY <1>i, <2>1, <3>2 DEF WrittenIn, CountedKey
    <3>3. CASE UnwrittenIn(s)
      BY <1>i, <2>1, <3>3 DEF UnwrittenIn, Undone, NoRecord, CountedKey
    <3> QED BY <2>1, <3>1, <3>2, <3>3
  <2> QED BY <2>3 DEF RecordsCount
<1>3. ASSUME NEW s \in Sessions, Killed(s) PROVE RecordsCount'
  <2>1. /\ UNCHANGED <<agent, added, displaced, forgotten>>
        /\ \/ UNCHANGED <<record, unrecorded>>
           \/ adding[s] \in Keys /\ Undone(adding[s])
    BY <1>3, KilledIs
  <2>2. ASSUME NEW k \in Keys, Undone(adding[s]), adding[s] \in Keys PROVE CountedKey(k)'
    BY <1>i, <2>1, <2>2 DEF Undone, NoRecord, CountedKey
  <2> QED BY <1>s, <2>1, <2>2 DEF RecordsCount
<1>4. ASSUME NEW s \in Sessions, NEW k \in Keys, NEW d \in Dirs,
             Removes(s, k, d) \/ RemovalRefused(s, k, d) \/ CannotRemove(s, k, d)
      PROVE  RecordsCount'
  <2>1. /\ UNCHANGED <<record, added, unrecorded, displaced, forgotten>>
        /\ \A j \in Keys : agent'[j] = agent[j] \/ agent'[j] = "out"
    BY <1>4, AsksIs DEF AsksIn
  <2> QED BY <1>i, <2>1 DEF RecordsCount, CountedKey
<1>5. ASSUME NEW s \in Sessions, NEW k \in Keys, Adds(s, k) PROVE RecordsCount'
  <2>1. /\ UNCHANGED <<record, displaced, forgotten>> /\ unrecorded' = unrecorded \cup {k}
        /\ \A j \in Keys : j # k => agent'[j] = agent[j] /\ added'[j] = added[j]
    BY <1>5 DEF Adds, TypeOK
  <2> QED BY <1>i, <2>1 DEF RecordsCount, CountedKey
<1>6. ASSUME NEW k \in Keys, UserAdds(k) \/ UserRemoves(k) PROVE RecordsCount'
  <2>1. /\ UNCHANGED <<record, added, displaced, forgotten>> /\ unrecorded' = unrecorded \ {k}
        /\ \A j \in Keys : j # k => agent'[j] = agent[j]
        /\ agent'[k] # "ours"
    BY <1>6 DEF UserAdds, UserRemoves, TypeOK
  <2> QED BY <1>i, <2>1 DEF RecordsCount, CountedKey
<1>7. CASE MovesKeys
  <2>1. /\ UNCHANGED <<agent, record, added, unrecorded, forgotten>>
        /\ displaced = {} /\ displaced' = {k \in Keys : Recorded(k)}
    BY <1>7 DEF MovesKeys, Inv, RecordsFind
  <2> QED BY <1>i, <2>1 DEF RecordsCount, CountedKey
<1>8. ASSUME NEW s \in Sessions, Opens(s) \/ Swept(s) \/ ListsAgent(s) \/ Closes(s) PROVE RecordsCount'
  BY <1>s, <1>8 DEF Opens, Swept, ListsAgent, Closes
<1>9. CASE Tick \/ UNCHANGED vars
  BY <1>s, <1>9 DEF Tick, vars
<1> QED BY <1>1, <1>2, <1>3, <1>4, <1>5, <1>6, <1>7, <1>8, <1>9 DEF Next, Sweeps, Loads

LEMMA HandlingStep ==
    ASSUME TypeOK, Inv, [Next]_vars PROVE Handling'
<1> USE DEF session, agents
<1>i. \A t \in Sessions : HandlingIn(t)
  BY DEF Inv, Handling
<1>p. pc \in [Sessions -> {"closed", "sweep", "forget", "refused", "swept", "load", "save"}]
  BY DEF TypeOK
<1>1. ASSUME NEW s \in Sessions, Opens(s) \/ Swept(s) \/ ListsAgent(s) PROVE Handling'
  <2>1. /\ UNCHANGED <<agent, adding, added, now, displaced, unrecorded>>
        /\ \E to \in {"sweep", "swept", "load"} : pc' = [pc EXCEPT ![s] = to]
        /\ \A t \in Sessions : t # s => renewed'[t] = renewed[t]
    BY <1>1 DEF Opens, Swept, ListsAgent, Goes, TypeOK
  <2> QED BY <1>i, <1>p, <2>1 DEF Handling, HandlingIn
<1>2. ASSUME NEW s \in Sessions, Forgets(s) PROVE Handling'
  <2>1. /\ UNCHANGED <<agent, added, now, displaced, unrecorded, renewed>>
        /\ pc' = [pc EXCEPT ![s] = "sweep"]
        /\ \A t \in Sessions : t # s => adding'[t] = adding[t]
    BY <1>2, ForgetsIs
  <2> QED BY <1>i, <1>p, <2>1 DEF Handling, HandlingIn
<1>3. ASSUME NEW s \in Sessions, SavesState(s) PROVE Handling'
  <2>1. /\ UNCHANGED <<agent, added, now>> /\ pc' = [pc EXCEPT ![s] = "load"] /\ adding[s] \in Keys
        /\ \A t \in Sessions : t # s => adding'[t] = adding[t]
        /\ WrittenIn(s) \/ UnwrittenIn(s)
    BY <1>3, SavesIs
  <2>2. ASSUME NEW t \in Sessions PROVE HandlingIn(t)'
    <3>1. CASE t = s
      BY <1>p, <2>1, <3>1 DEF HandlingIn
    <3>2. CASE t # s /\ UnwrittenIn(s)
      BY <1>i, <1>p, <2>1, <3>2 DEF HandlingIn, UnwrittenIn, Undone
    <3>3. CASE t # s /\ WrittenIn(s) /\ pc[t] = "forget"
      <4>1. renewed'[t] = renewed[t] \cup {adding[s]}
        BY <3>3 DEF WrittenIn, Sweeping
      <4>2. \A k : k \in displaced \cup unrecorded /\ k # adding[s] => k \in displaced' \cup unrecorded'
        BY <3>3 DEF WrittenIn
      <4> QED BY <1>i, <1>p, <2>1, <3>3, <4>1, <4>2 DEF HandlingIn
    <3>4. CASE t # s /\ pc[t] # "forget"
      BY <1>i, <1>p, <2>1, <3>4 DEF HandlingIn
    <3> QED BY <2>1, <3>1, <3>2, <3>3, <3>4
  <2> QED BY <2>2 DEF Handling
<1>4. ASSUME NEW s \in Sessions, Closes(s) \/ Killed(s) PROVE Handling'
  <2>1. /\ EndedIn(s) /\ UNCHANGED <<agent, added, now, displaced>> /\ unrecorded \subseteq unrecorded'
    BY <1>4, EndsIs, KilledIs DEF Closes, Undone
  <2> QED BY <1>i, <1>p, <2>1 DEF Handling, HandlingIn, EndedIn
<1>5. ASSUME NEW s \in Sessions, NEW k \in Keys, NEW d \in Dirs,
             Removes(s, k, d) \/ RemovalRefused(s, k, d) \/ CannotRemove(s, k, d)
      PROVE  Handling'
  <2>1. AsksIn(s, k, d)
    BY <1>5, AsksIs
  <2>2. /\ UNCHANGED <<added, now, displaced, unrecorded, renewed, dir>>
        /\ \A j \in Keys : agent'[j] = agent[j] \/ agent'[j] = "out"
        /\ \A t \in Sessions : t # s => adding'[t] = adding[t] /\ pc'[t] = pc[t]
        /\ adding'[s] = k \/ adding'[s] = adding[s]
    BY <1>p, <2>1 DEF AsksIn, TypeOK
  <2>3. d = Where(k) \/ k \in renewed[s]
    BY <2>1 DEF AsksIn, Inv, RecordsFind
  <2>4. ASSUME pc'[s] = "forget" PROVE adding'[s] = k /\ (agent'[k] = "out" \/ k \in displaced \cup renewed[s])
    <3>1. adding'[s] = k /\ (d = dir => agent'[k] = "out")
      BY <1>p, <2>1, <2>4 DEF AsksIn, TypeOK
    <3> QED BY <2>3, <3>1 DEF Where
  <2>5. pc'[s] # "save"
    BY <1>p, <2>1 DEF AsksIn
  <2>6. ASSUME NEW t \in Sessions, t # s PROVE HandlingIn(t)'
    <3>1. pc[t] \in {"forget", "save"} => adding[t] \in Keys
      BY DEF TypeOK
    <3> QED BY <1>i, <2>2, <2>6, <3>1 DEF HandlingIn
  <2> QED BY <2>2, <2>4, <2>5, <2>6 DEF Handling, HandlingIn
<1>6. ASSUME NEW s \in Sessions, NEW k \in Keys, Adds(s, k) PROVE Handling'
  <2>1. /\ pc' = [pc EXCEPT ![s] = "save"] /\ adding' = [adding EXCEPT ![s] = k]
        /\ added' = [added EXCEPT ![k] = now] /\ unrecorded' = unrecorded \cup {k}
        /\ UNCHANGED <<displaced, renewed, now>>
        /\ \A j \in Keys : j # k => agent'[j] = agent[j]
    BY <1>6 DEF Adds, Goes, TypeOK
  <2>2. ASSUME NEW t \in Sessions PROVE HandlingIn(t)'
    <3>1. CASE t = s
      BY <1>p, <2>1, <3>1 DEF HandlingIn, TypeOK
    <3>2. CASE t # s
      <4>1. pc[t] \in {"forget", "save"} => adding[t] \in Keys
        BY DEF TypeOK
      <4>2. pc'[t] = pc[t] /\ adding'[t] = adding[t]
        BY <2>1, <3>2 DEF TypeOK
      <4>3. added'[adding[t]] = now \/ added'[adding[t]] = added[adding[t]]
        BY <2>1 DEF TypeOK
      <4> QED BY <1>i, <2>1, <4>1, <4>2, <4>3 DEF HandlingIn
    <3> QED BY <3>1, <3>2
  <2> QED BY <2>2 DEF Handling
<1>7. ASSUME NEW k \in Keys, UserAdds(k) \/ UserRemoves(k) PROVE Handling'
  <2>1. /\ UNCHANGED <<pc, adding, added, now, displaced, renewed>> /\ unrecorded' = unrecorded \ {k}
        /\ \A j \in Keys : j # k => agent'[j] = agent[j]
        /\ agent'[k] # "ours"
    BY <1>7 DEF UserAdds, UserRemoves, TypeOK
  <2>2. \A t \in Sessions : pc[t] \in {"forget", "save"} => adding[t] \in Keys
    BY DEF TypeOK
  <2> QED BY <1>i, <2>1, <2>2 DEF Handling, HandlingIn
<1>8. CASE MovesKeys
  <2>1. \A t \in Sessions : pc'[t] = "closed"
    BY <1>8 DEF MovesKeys, NobodyOpening
  <2> QED BY <2>1 DEF Handling, HandlingIn
<1>9. CASE Tick
  <2>1. /\ UNCHANGED <<pc, adding, agent, displaced, unrecorded, renewed>>
        /\ \A t \in Sessions : pc[t] # "save"
    BY <1>9 DEF Tick
  <2> QED BY <1>i, <2>1 DEF Handling, HandlingIn
<1>10. CASE UNCHANGED vars
  BY <1>i, <1>10 DEF vars, Handling, HandlingIn
<1> QED BY <1>1, <1>2, <1>3, <1>4, <1>5, <1>6, <1>7, <1>8, <1>9, <1>10 DEF Next, Sweeps, Loads

(* What was found overdue, and what is clean once it was dealt with.        *)
LEMMA SweepStep ==
    ASSUME TypeOK, Inv, [Next]_vars PROVE SweepingAll' /\ SweptClean'
<1> USE DEF session, agents, Recorded
<1>i. /\ \A t \in Sessions, k \in Keys : SweepingKey(t, k)
      /\ \A t \in Sessions, k \in Keys : AskedKey(t, k)
      /\ \A k \in Keys : CountedKey(k)
      /\ \A t \in Sessions : clock[t] <= now
  BY DEF Inv, SweepingAll, SweptClean, AskedForOnce, RecordsCount, ClocksPast
<1>p. pc \in [Sessions -> {"closed", "sweep", "forget", "refused", "swept", "load", "save"}]
  BY DEF TypeOK
<1>n. /\ \A k \in Keys : record[k].expires \in Int /\ added[k] \in Int
      /\ \A t \in Sessions : clock[t] \in Int
      /\ now \in Int /\ Lifetime \in Nat \ {0}
  BY DEF TypeOK
<1> DEFINE Both(t, k) == SweepingKey(t, k)' /\ AskedKey(t, k)'
<1>g. ASSUME \A t \in Sessions, k \in Keys : Both(t, k) PROVE SweepingAll' /\ SweptClean'
  BY <1>g DEF SweepingAll, SweptClean, AskedForOnce
<1> HIDE DEF Both
<1>1. ASSUME NEW s \in Sessions, Opens(s) PROVE SweepingAll' /\ SweptClean'
  <2>1. /\ UNCHANGED <<now, record, agent, added, unrecorded, displaced, forgotten, renewed, adding>>
        /\ pc[s] = "closed" /\ pc' = [pc EXCEPT ![s] = "sweep"]
        /\ \A t \in Sessions : t # s => due'[t] = due[t] /\ clock'[t] = clock[t] /\ spared'[t] = spared[t]
        /\ clock'[s] = now
    BY <1>1 DEF Opens, Goes, TypeOK
  <2>2. PICK unread \in SUBSET Keys :
           /\ due'[s] = {<<k, record[k].dir>> : k \in {x \in Keys \ unread : Overdue(x)}}
           /\ spared'[s] = unread
    BY <1>1 DEF Opens, TypeOK
  <2>3. ASSUME NEW t \in Sessions, NEW k \in Keys, t # s PROVE Both(t, k)
    BY <1>i, <1>p, <2>1, <2>3 DEF Both, SweepingKey, AskedKey, Sweeping, IsDue
  <2>4. ASSUME NEW k \in Keys PROVE Both(s, k)
    <3>1. IsDue(s, k)' => k \notin unread /\ Overdue(k)
      BY <2>2 DEF IsDue
    <3>2. Overdue(k) /\ k \notin unread => <<k, record[k].dir>> \in due'[s]
      BY <2>2
    <3>3. Recorded(k) => record[k].dir \in Dirs
      BY DEF TypeOK
    <3>4. Recorded(k) /\ record[k].expires <= clock'[s] => IsDue(s, k)' \/ k \in spared'[s]
      BY <2>1, <2>2, <3>2, <3>3, <1>n DEF IsDue, Overdue
    <3>5. IsDue(s, k)' /\ agent[k] = "ours" /\ k \notin unrecorded \cup displaced
             => added[k] + Lifetime <= clock'[s]
      BY <1>i, <1>n, <2>1, <3>1 DEF CountedKey, Overdue
    <3>6. Sweeping(s)' /\ pc'[s] = "sweep"
      BY <1>p, <2>1 DEF Sweeping
    <3> QED BY <2>1, <3>4, <3>5, <3>6 DEF Both, SweepingKey, AskedKey
  <2> QED BY <1>g, <2>3, <2>4
<1>2. ASSUME NEW s \in Sessions, Forgets(s) PROVE SweepingAll' /\ SweptClean'
  <2>1. /\ pc[s] \in {"forget", "refused"} /\ pc' = [pc EXCEPT ![s] = "sweep"] /\ adding[s] \in Keys
        /\ \A t \in Sessions : t # s => adding'[t] = adding[t]
        /\ UNCHANGED <<agent, added, unrecorded, displaced, due, clock, renewed>>
        /\ \A t \in Sessions, k \in Keys : k \in spared[t] => k \in spared'[t]
        /\ \A k \in Keys : record'[k] = record[k] \/ record'[k].dir = "none"
        /\ record'[adding[s]].dir = "none" \/ adding[s] \in spared'[s]
    BY <1>2, ForgetsIs DEF DroppedIn, KeptIn, NoRecord
  <2>2. ASSUME NEW t \in Sessions, NEW k \in Keys PROVE Both(t, k)
    <3>1. IsDue(t, k)' <=> IsDue(t, k)
      BY <2>1 DEF IsDue
    <3>2. CASE t # s
      BY <1>i, <1>p, <2>1, <3>1, <3>2 DEF Both, SweepingKey, AskedKey, Sweeping
    <3>3. CASE t = s
      BY <1>i, <1>p, <2>1, <3>1, <3>3 DEF Both, SweepingKey, AskedKey, Sweeping
    <3> QED BY <3>2, <3>3
  <2> QED BY <1>g, <2>2
<1>3. ASSUME NEW s \in Sessions, Swept(s) PROVE SweepingAll' /\ SweptClean'
  <2>1. /\ UNCHANGED <<record, agent, added, unrecorded, displaced, due, clock, adding, spared>>
        /\ pc[s] = "sweep" /\ pc' = [pc EXCEPT ![s] = "swept"] /\ due[s] = {}
        /\ \A t \in Sessions : t # s => renewed'[t] = renewed[t]
    BY <1>3 DEF Swept, Goes, TypeOK
  <2>2. ASSUME NEW t \in Sessions, NEW k \in Keys PROVE Both(t, k)
    <3>1. (IsDue(t, k)' <=> IsDue(t, k)) /\ ~IsDue(s, k)
      BY <2>1 DEF IsDue
    <3>2. CASE t # s
      BY <1>i, <1>p, <2>1, <3>1, <3>2 DEF Both, SweepingKey, AskedKey, Sweeping
    <3>3. CASE t = s
      BY <1>i, <1>p, <1>n, <2>1, <3>1, <3>3 DEF Both, SweepingKey, AskedKey, Sweeping
    <3> QED BY <3>2, <3>3
  <2> QED BY <1>g, <2>2
<1>4. ASSUME NEW s \in Sessions, ListsAgent(s) PROVE SweepingAll' /\ SweptClean'
  <2>1. /\ UNCHANGED <<record, agent, added, unrecorded, displaced, due, clock, adding, spared, renewed>>
        /\ pc[s] = "swept" /\ pc' = [pc EXCEPT ![s] = "load"]
    BY <1>4 DEF ListsAgent, Goes
  <2>2. ASSUME NEW t \in Sessions, NEW k \in Keys PROVE Both(t, k)
    <3>1. IsDue(t, k)' <=> IsDue(t, k)
      BY <2>1 DEF IsDue
    <3> QED BY <1>i, <1>p, <2>1, <3>1 DEF Both, SweepingKey, AskedKey, Sweeping
  <2> QED BY <1>g, <2>2
<1>5. ASSUME NEW s \in Sessions, SavesState(s) PROVE SweepingAll' /\ SweptClean'
  <2>1. /\ pc[s] = "save" /\ pc' = [pc EXCEPT ![s] = "load"] /\ adding[s] \in Keys
        /\ \A t \in Sessions : t # s => adding'[t] = adding[t]
        /\ UNCHANGED <<now, agent, added, due, clock, spared>>
        /\ WrittenIn(s) \/ UnwrittenIn(s)
    BY <1>5, SavesIs
  <2>2. ASSUME NEW t \in Sessions, NEW k \in Keys PROVE Both(t, k)
    <3>1. IsDue(t, k)' <=> IsDue(t, k)
      BY <2>1 DEF IsDue
    <3>2. /\ Sweeping(t)' <=> Sweeping(t)
          /\ pc'[t] \in {"swept", "load", "save"} <=> pc[t] \in {"swept", "load", "save"}
          /\ Sweeping(t) => adding'[t] = adding[t] /\ pc'[t] = pc[t]
      BY <1>p, <2>1 DEF Sweeping
    <3>3. CASE UnwrittenIn(s)
      <4>1. /\ record'[k] = record[k] \/ ~Recorded(k)'
            /\ unrecorded \subseteq unrecorded' /\ UNCHANGED <<displaced, renewed>>
        BY <3>3 DEF UnwrittenIn, Undone, NoRecord
      <4> QED BY <1>i, <2>1, <3>1, <3>2, <4>1 DEF Both, SweepingKey, AskedKey
    <3>4. CASE WrittenIn(s) /\ k # adding[s]
      <4>1. /\ record'[k] = record[k] /\ (k \in unrecorded' <=> k \in unrecorded)
            /\ (k \in displaced' <=> k \in displaced) /\ (k \in renewed'[t] <=> k \in renewed[t])
        BY <3>4 DEF WrittenIn
      <4> QED BY <1>i, <2>1, <3>1, <3>2, <4>1 DEF Both, SweepingKey, AskedKey
    <3>5. CASE WrittenIn(s) /\ k = adding[s]
      <4>1. record'[k].expires > clock'[t]
        BY <1>i, <1>n, <2>1, <3>5 DEF WrittenIn, Record
      <4>2. ~(record'[k].expires <= clock'[t])
        BY <1>n, <2>1, <3>5, <4>1 DEF WrittenIn, Record
      <4>3. Sweeping(t) => k \in renewed'[t]
        BY <3>5 DEF WrittenIn
      <4> QED BY <1>i, <2>1, <3>1, <3>2, <4>1, <4>2, <4>3 DEF Both, SweepingKey, AskedKey
    <3> QED BY <2>1, <3>3, <3>4, <3>5
  <2> QED BY <1>g, <2>2
<1>6. ASSUME NEW s \in Sessions, Closes(s) \/ Killed(s) PROVE SweepingAll' /\ SweptClean'
  <2>1. /\ EndedIn(s) /\ UNCHANGED <<agent, added, displaced>> /\ unrecorded \subseteq unrecorded'
        /\ \A k \in Keys : record'[k] = record[k] \/ ~Recorded(k)'
    BY <1>6, EndsIs, KilledIs DEF Closes, Undone, NoRecord
  <2>2. ASSUME NEW t \in Sessions, NEW k \in Keys PROVE Both(t, k)
    <3>1. CASE t # s
      BY <1>i, <1>p, <2>1, <3>1, ZenonT(30) DEF Both, SweepingKey, AskedKey, Sweeping, EndedIn, IsDue
    <3>2. CASE t = s
      <4>1. pc'[t] = "closed" /\ ~IsDue(t, k)'
        BY <1>p, <2>1, <3>2 DEF EndedIn, IsDue
      <4> QED BY <4>1 DEF Both, SweepingKey, AskedKey, Sweeping
    <3> QED BY <3>1, <3>2
  <2> QED BY <1>g, <2>2
<1>7. ASSUME NEW s \in Sessions, NEW k \in Keys, NEW d \in Dirs,
             Removes(s, k, d) \/ RemovalRefused(s, k, d) \/ CannotRemove(s, k, d)
      PROVE  SweepingAll' /\ SweptClean'
  <2>1. AsksIn(s, k, d)
    BY <1>7, AsksIs
  <2>2. /\ UNCHANGED <<record, added, unrecorded, displaced, renewed, clock>>
        /\ \A j \in Keys : agent'[j] = agent[j] \/ agent'[j] = "out"
        /\ \A t \in Sessions, j \in Keys : IsDue(t, j)' => IsDue(t, j)
        /\ \A t \in Sessions, j \in Keys : IsDue(t, j) => IsDue(t, j)' \/ (t = s /\ j = k)
    BY <2>1, DealtIs DEF AsksIn
  <2>3. /\ \A t \in Sessions : t # s => /\ pc'[t] = pc[t] /\ adding'[t] = adding[t]
                                        /\ spared'[t] = spared[t]
        /\ pc[s] = "sweep" /\ pc'[s] \in {"sweep", "forget", "refused"}
        /\ \A j \in Keys : j \in spared[s] => j \in spared'[s]
        /\ k \in spared'[s] \/ (pc'[s] \in {"forget", "refused"} /\ adding'[s] = k)
    BY <1>p, <2>1 DEF AsksIn, TypeOK
  <2>4. ASSUME NEW t \in Sessions, NEW j \in Keys PROVE Both(t, j)
    <3>1. CASE t # s
      BY <1>i, <2>2, <2>3, <3>1 DEF Both, SweepingKey, AskedKey, Sweeping
    <3>2. CASE t = s
      BY <1>i, <2>2, <2>3, <3>2 DEF Both, SweepingKey, AskedKey, Sweeping
    <3> QED BY <3>1, <3>2
  <2> QED BY <1>g, <2>4
<1>8. ASSUME NEW s \in Sessions, NEW k \in Keys, Adds(s, k) PROVE SweepingAll' /\ SweptClean'
  <2>1. /\ pc[s] = "load" /\ pc' = [pc EXCEPT ![s] = "save"]
        /\ \A t \in Sessions : t # s => adding'[t] = adding[t]
        /\ unrecorded' = unrecorded \cup {k} /\ UNCHANGED <<record, displaced, renewed, due, clock, spared>>
        /\ \A j \in Keys : j # k => agent'[j] = agent[j] /\ added'[j] = added[j]
    BY <1>8 DEF Adds, Goes, TypeOK
  <2>2. ASSUME NEW t \in Sessions, NEW j \in Keys PROVE Both(t, j)
    <3>1. IsDue(t, j)' <=> IsDue(t, j)
      BY <2>1 DEF IsDue
    <3>2. /\ Sweeping(t)' <=> Sweeping(t)
          /\ pc'[t] \in {"swept", "load", "save"} <=> pc[t] \in {"swept", "load", "save"}
          /\ Sweeping(t) => adding'[t] = adding[t] /\ pc'[t] = pc[t]
      BY <1>p, <2>1 DEF Sweeping
    <3>3. k = j => j \in unrecorded'
      BY <2>1
    <3> QED BY <1>i, <2>1, <3>1, <3>2, <3>3 DEF Both, SweepingKey, AskedKey
  <2> QED BY <1>g, <2>2
<1>9. ASSUME NEW k \in Keys, UserAdds(k) \/ UserRemoves(k) PROVE SweepingAll' /\ SweptClean'
  <2>1. /\ UNCHANGED <<pc, adding, added, record, displaced, renewed, due, clock, spared>>
        /\ unrecorded' = unrecorded \ {k} /\ agent'[k] # "ours"
        /\ \A j \in Keys : j # k => agent'[j] = agent[j]
    BY <1>9 DEF UserAdds, UserRemoves, TypeOK
  <2>2. ASSUME NEW t \in Sessions, NEW j \in Keys PROVE Both(t, j)
    <3>1. IsDue(t, j)' <=> IsDue(t, j)
      BY <2>1 DEF IsDue
    <3>2. (Sweeping(t)' <=> Sweeping(t)) /\ (j # k => (j \in unrecorded' <=> j \in unrecorded))
      BY <2>1 DEF Sweeping
    <3> QED BY <1>i, <2>1, <3>1, <3>2 DEF Both, SweepingKey, AskedKey
  <2> QED BY <1>g, <2>2
<1>10. CASE MovesKeys
  <2>1. /\ \A t \in Sessions : pc'[t] = "closed" /\ pc[t] = "closed"
        /\ UNCHANGED due
    BY <1>10 DEF MovesKeys, NobodyOpening
  <2>2. ASSUME NEW t \in Sessions, NEW j \in Keys PROVE Both(t, j)
    <3>1. ~IsDue(t, j)'
      BY <1>i, <2>1 DEF IsDue, SweepingKey, Sweeping
    <3> QED BY <2>1, <3>1 DEF Both, SweepingKey, AskedKey, Sweeping
  <2> QED BY <1>g, <2>2
<1>11. CASE Tick \/ UNCHANGED vars
  <2>1. UNCHANGED <<pc, adding, agent, added, record, unrecorded, displaced, renewed, due, clock, spared>>
    BY <1>11 DEF Tick, vars
  <2>2. ASSUME NEW t \in Sessions, NEW j \in Keys PROVE Both(t, j)
    <3>1. (IsDue(t, j)' <=> IsDue(t, j)) /\ (Sweeping(t)' <=> Sweeping(t))
      BY <2>1 DEF IsDue, Sweeping
    <3> QED BY <1>i, <2>1, <3>1 DEF Both, SweepingKey, AskedKey
  <2> QED BY <1>g, <2>2
<1> QED BY <1>1, <1>2, <1>3, <1>4, <1>5, <1>6, <1>7, <1>8, <1>9, <1>10, <1>11 DEF Next, Sweeps, Loads

-----------------------------------------------------------------------------
(* The theorems.                                                            *)

LEMMA InitTypes == Init => TypeOK
BY DEF Init, TypeOK, NoRecord, Dirs, NoKey

(* Every variable keeps its type.                                           *)
THEOREM TypeCorrect == Spec => []TypeOK
<1>1. TypeOK /\ [Next]_vars => TypeOK'
  BY TypeStep
<1> QED
  BY <1>1, InitTypes, PTL DEF Spec

LEMMA Soundness == Spec => [](TypeOK /\ Inv)
<1>1. Init => Inv
  BY DEF Init, Inv, RecordsFind, ClocksPast, RecordsCount, CountedKey, Handling, HandlingIn,
         SweepingAll, SweepingKey, IsDue, Sweeping, SweptClean, AskedForOnce, AskedKey, Recorded,
         NoRecord
<1>2. TypeOK /\ Inv /\ [Next]_vars => Inv'
  BY ClockStep, FindStep, CountStep, HandlingStep, SweepStep DEF Inv
<1> QED
  BY <1>1, <1>2, TypeCorrect, PTL DEF Spec

(* F53, F16: after a session's sweep, whichever others open beside it, no   *)
(* recorded key of ours is in the agent past its lifetime, but one ssh-add  *)
(* could not be run for just now and those NoneOutlives names.              *)
THEOREM SweptKeysGo == Spec => []NoneOutlives
<1>1. TypeOK /\ Inv => NoneOutlives
  <2> SUFFICES ASSUME TypeOK, Inv, NEW s \in Sessions, NEW k \in Keys,
                      pc[s] \in {"swept", "load", "save"}, k \notin displaced \cup forgotten,
                      agent[k] = "ours", k \notin unrecorded \cup spared[s]
               PROVE  ~HasHadItsTime(k, clock[s])
    BY DEF NoneOutlives, Overstays
  <2>1. Recorded(k) /\ record[k].expires = added[k] + Lifetime
    BY DEF Inv, RecordsCount, CountedKey
  <2>2. record[k].expires > clock[s]
    BY <2>1 DEF Inv, SweptClean, AskedForOnce, AskedKey
  <2> QED
    BY <2>1, <2>2, Numbers DEF HasHadItsTime
<1> QED
  BY <1>1, Soundness, PTL

(* What a sweep has asked the agent about it leaves no record of.           *)
THEOREM NothingAskedTwice == Spec => []AskedForOnce
<1>1. Inv => AskedForOnce
  BY DEF Inv, SweptClean
<1> QED
  BY <1>1, Soundness, PTL

(* No session takes a recorded key out before its lifetime is over, but one *)
(* that was recorded anew since the session read the records.               *)
THEOREM LifetimesLast == Spec => NoneTakenEarly
<1>1. ASSUME TypeOK, Inv, [Next]_vars, NEW t \in Sessions, NEW k \in Keys,
             Takes(t, k), agent[k] = "ours", k \notin unrecorded \cup renewed[t]
      PROVE  HasHadItsTime(k, now)
  <2>1. ASSUME NEW s \in Sessions, NEW j \in Keys, NEW d \in Dirs,
               Removes(s, j, d) \/ RemovalRefused(s, j, d) \/ CannotRemove(s, j, d)
        PROVE  HasHadItsTime(k, now)
    <3>1. AsksIn(s, j, d)
      BY <1>1, <2>1, AsksIs
    <3>2. j = k /\ d = dir /\ <<k, d>> \in due[s]
      BY <1>1, <3>1 DEF AsksIn, Takes
    <3>3. t = s
      BY <1>1, <3>1 DEF AsksIn, Takes, Dealt, TypeOK
    <3>4. d = Where(k) /\ clock[s] <= now /\ SweepingKey(s, k) /\ IsDue(s, k)
      BY <1>1, <3>2, <3>3 DEF Inv, RecordsFind, ClocksPast, SweepingAll, IsDue
    <3>5. k \notin displaced
      BY <1>1, <3>2, <3>4 DEF Inv, RecordsFind, Where
    <3> QED
      BY <1>1, <3>3, <3>4, <3>5, Numbers DEF SweepingKey, HasHadItsTime
  <2>2. ASSUME NEW s \in Sessions,
               \/ Opens(s) \/ Forgets(s) \/ Swept(s) \/ ListsAgent(s) \/ SavesState(s)
               \/ Closes(s) \/ Killed(s) \/ \E j \in Keys : Adds(s, j)
        PROVE  FALSE
    BY <1>1, <2>2 DEF Opens, Forgets, Swept, ListsAgent, SavesState, Closes, Killed,
                      Adds, Takes, TypeOK, agents
  <2>3. ASSUME NEW j \in Keys, UserAdds(j) \/ UserRemoves(j) PROVE FALSE
    BY <1>1, <2>3 DEF UserAdds, UserRemoves, Takes, session, agents
  <2>4. ~(MovesKeys \/ Tick \/ UNCHANGED vars)
    BY <1>1 DEF MovesKeys, Tick, vars, Takes, session, agents
  <2> QED
    BY <1>1, <2>1, <2>2, <2>3, <2>4 DEF Next, Sweeps, Loads
<1>2. TypeOK /\ Inv /\ [Next]_vars => [\A s \in Sessions, k \in Keys :
        Takes(s, k) /\ agent[k] = "ours" /\ k \notin unrecorded \cup renewed[s]
            => HasHadItsTime(k, now)]_vars
  BY <1>1
<1> QED
  BY <1>2, Soundness, PTL DEF Spec, NoneTakenEarly
=============================================================================
