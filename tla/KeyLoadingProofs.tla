-------------------------- MODULE KeyLoadingProofs --------------------------
(***************************************************************************)
(* Theorems about KeyLoading, for any number of shells, brokers, keys and  *)
(* mishaps: what the wallet may hold, how often a key is asked about, what *)
(* it is given up on for, that it stays quiet afterwards, and that the     *)
(* collection is locked once every process has ended.                      *)
(***************************************************************************)
EXTENDS KeyLoading, TLAPS

USE KeysAssumption, ProcsAssumption, SettingsAssumption

(* Whoever is at a key is at one of the directory's.                        *)
AtKey == Working \ {"next", "lock"}
KeyAt(p) ==
    /\ pc[p] = "next" => key[p] \in 1..NumKeys + 1
    /\ pc[p] \in AtKey => key[p] \in Keys
KeysAt == \A p \in Procs : KeyAt(p)

-----------------------------------------------------------------------------
(* Type correctness.                                                        *)

PlaceTypes ==
    /\ pc \in [Procs -> Working \cup {"idle", "done", "killed"}]
    /\ key \in [Procs -> 0..NumKeys + 1]
    /\ KeysAt

WorldTypes ==
    /\ agent \subseteq Keys
    /\ opens \in [Keys -> Passes]
    /\ past \in [Keys -> SUBSET Passes]
    /\ wallet \in [Keys -> Passes \cup {NoPass}]
    /\ collection \in {"locked", "open", "ajar"}
    /\ giveup \in [Keys -> {"none", "fresh", "stale"}]
    /\ quiet \in [Procs -> SUBSET Keys]
    /\ onDismiss \in {"stop", "skip", "retry"}
    /\ mishaps \in 0..MaxMishaps

MineTypes ==
    /\ call \in [Procs -> {"lookup", "store"}]
    /\ held \in [Procs -> BOOLEAN]
    /\ snap \in [Procs -> SUBSET Keys]
    /\ pass \in [Procs -> Passes \cup {NoPass}]
    /\ attempt \in [Procs -> 0..MaxAttempts]
    /\ asks \in [Procs -> [Keys -> 0..MaxAttempts + 1]]
    /\ dismissed \in [Procs -> SUBSET Keys]

Types == PlaceTypes /\ WorldTypes /\ MineTypes

LEMMA TypesAre == Types <=> TypeOK /\ KeysAt
BY DEF Types, TypeOK, PlaceTypes, WorldTypes, MineTypes

(* A step of a process moves it, to another key or at the one it is at.     *)
Fits(to, k) == /\ to \in Working \cup {"idle", "done", "killed"}
               /\ k \in 0..NumKeys + 1
               /\ to = "next" => k \in 1..NumKeys + 1
               /\ to \in AtKey => k \in Keys

LEMMA Moves ==
    ASSUME PlaceTypes, NEW p \in Procs, NEW to, NEW k, Fits(to, k),
           pc' = [pc EXCEPT ![p] = to], key' = [key EXCEPT ![p] = k]
    PROVE  PlaceTypes'
BY DEF PlaceTypes, KeysAt, KeyAt, Fits

LEMMA MovesHere ==
    ASSUME PlaceTypes, NEW p \in Procs, NEW to, Fits(to, key[p]),
           pc' = [pc EXCEPT ![p] = to], key' = key
    PROVE  PlaceTypes'
BY DEF PlaceTypes, KeysAt, KeyAt, Fits

LEMMA FitsHere ==
    ASSUME PlaceTypes, NEW p \in Procs, NEW to, pc[p] \in AtKey,
           to \in Working \cup {"idle", "done", "killed"}
    PROVE  Fits(to, key[p]) /\ Fits("next", key[p] + 1)
BY DEF PlaceTypes, KeysAt, KeyAt, Fits, AtKey, Keys, Working, WalletSteps, LoaderSteps, BrokerSteps

LEMMA LoadPlaces ==
    ASSUME Types, NEW s \in Loaders, LoadBegins(s) \/ LoadStep(s)
    PROVE  PlaceTypes'
<1> s \in Procs BY DEF Procs
<1> USE DEF AtKey, Working, WalletSteps, LoaderSteps, BrokerSteps, At, Goto, mine, Types
<1>1. CASE LoadBegins(s)
  <2>1. PICK to \in {"next", "done"} : pc' = [pc EXCEPT ![s] = to]
    BY <1>1 DEF LoadBegins
  <2>2. Fits(to, 1) BY DEF Fits, Keys
  <2> QED BY <1>1, <2>1, <2>2, Moves DEF LoadBegins
<1>2. CASE Skip(s)
  <2>1. Fits("next", key[s] + 1)
    BY <1>2 DEF Skip, Fits, PlaceTypes, KeysAt, KeyAt
  <2>2. /\ pc' = [pc EXCEPT ![s] = "next"]
        /\ key' = [key EXCEPT ![s] = key[s] + 1]
    BY <1>2 DEF Skip, NextKey
  <2> QED BY <2>1, <2>2, Moves
<1>3. CASE Consider(s)
  <2>1. PICK to \in WalletSteps : pc' = [pc EXCEPT ![s] = to]
    BY <1>3 DEF Consider, WalletCall
  <2>2. Fits(to, key[s]) /\ key' = key
    BY <1>3 DEF Consider, Fits, PlaceTypes, KeysAt, KeyAt, Keys
  <2> QED BY <2>1, <2>2, MovesHere
<1>4. CASE BatchEnds(s) \/ LockUp(s)
  <2>1. PICK to \in {"lock", "done"} : pc' = [pc EXCEPT ![s] = to]
    BY <1>4 DEF BatchEnds, LockUp
  <2>2. Fits(to, key[s]) /\ key' = key
    BY <1>4 DEF BatchEnds, LockUp, Fits, PlaceTypes
  <2> QED BY <2>1, <2>2, MovesHere
<1>5. ASSUME \/ EnsureUnlocked(s) \/ TryStored(s) \/ Ask(s) \/ AddTyped(s)
             \/ Loaded(s) \/ Exhausted(s)
      PROVE  PlaceTypes'
  <2>1. pc[s] \in AtKey
    BY <1>5 DEF EnsureUnlocked, TryStored, Ask, AddTyped, Loaded, Exhausted
  <2>2. \/ \E to \in Working \cup {"idle", "done", "killed"} :
             pc' = [pc EXCEPT ![s] = to] /\ key' = key
        \/ /\ pc' = [pc EXCEPT ![s] = "next"]
           /\ key' = [key EXCEPT ![s] = key[s] + 1]
    <3>1. CASE EnsureUnlocked(s) BY <3>1 DEF EnsureUnlocked, WalletOnly
    <3>2. CASE TryStored(s) BY <3>2 DEF TryStored, Abandon
    <3>3. CASE Ask(s)
      <4>1. NextAttempt(s) => \E to \in Working : pc' = [pc EXCEPT ![s] = to]
        BY DEF NextAttempt
      <4> HIDE DEF At
      <4> QED BY <3>3, <4>1 DEF Ask, Typed, Blank, Dismissed, Abandon
    <3>4. CASE AddTyped(s) BY <3>4 DEF AddTyped, WalletCall, NextAttempt, Abandon
    <3>5. CASE Loaded(s) \/ Exhausted(s) BY <3>5 DEF Loaded, Exhausted, NextKey
    <3> QED BY <1>5, <3>1, <3>2, <3>3, <3>4, <3>5
  <2> QED BY <2>1, <2>2, FitsHere, Moves, MovesHere
<1> QED BY <1>1, <1>2, <1>3, <1>4, <1>5 DEF LoadStep

LEMMA AskedIs ==
    ASSUME Types, NEW p \in Procs, key[p] \in Keys, Asked(p)
    PROVE  /\ asks' \in [Procs -> [Keys -> 0..MaxAttempts + 1]]
           /\ \A q \in Procs, k \in Keys : q # p \/ k # key[p] => asks'[q][k] = asks[q][k]
           /\ asks[p][key[p]] <= MaxAttempts => asks'[p][key[p]] = asks[p][key[p]] + 1
<1> DEFINE n == IF asks[p][key[p]] > MaxAttempts THEN asks[p][key[p]] ELSE asks[p][key[p]] + 1
<1>1. asks' = [asks EXCEPT ![p] = [asks[p] EXCEPT ![key[p]] = n]] BY DEF Asked
<1>2. asks \in [Procs -> [Keys -> 0..MaxAttempts + 1]] BY DEF Types, MineTypes
<1>3. asks[p][key[p]] \in 0..MaxAttempts + 1 BY <1>2
<1>4. n \in 0..MaxAttempts + 1 BY <1>3
<1>5. [asks[p] EXCEPT ![key[p]] = n] \in [Keys -> 0..MaxAttempts + 1] BY <1>2, <1>4
<1>6. asks[p][key[p]] <= MaxAttempts => n = asks[p][key[p]] + 1 BY <1>3
<1> HIDE DEF n
<1> QED BY <1>1, <1>2, <1>5, <1>6

LEMMA LoadTypes ==
    ASSUME Types, NEW s \in Loaders, LoadBegins(s) \/ LoadStep(s)
    PROVE  WorldTypes' /\ MineTypes'
<1> s \in Procs BY DEF Procs
<1> USE DEF Types, WorldTypes, MineTypes, world, mine, Fine, Mishap, At
<1>0. pc[s] \in AtKey => key[s] \in Keys BY DEF PlaceTypes, KeysAt, KeyAt
<1>1. CASE LoadBegins(s)
  <2>1. snap' \in [Procs -> SUBSET Keys] BY <1>1 DEF LoadBegins
  <2>2. quiet' \in [Procs -> SUBSET Keys] BY <1>1 DEF LoadBegins
  <2>3. mishaps' \in 0..MaxMishaps BY <1>1 DEF LoadBegins
  <2>4. onDismiss' = onDismiss BY <1>1 DEF LoadBegins
  <2> QED BY <1>1, <2>1, <2>2, <2>3, <2>4 DEF LoadBegins
<1>2. CASE Skip(s) BY <1>2 DEF Skip
<1>3. CASE Consider(s)
  <2>1. key[s] \in Keys BY <1>3 DEF Consider, PlaceTypes, KeysAt, KeyAt, Keys
  <2>2. WorldTypes' BY <1>3, <2>1 DEF Consider, SetGiveup
  <2>3. MineTypes' BY <1>3, <2>1 DEF Consider, WalletCall
  <2> QED BY <2>2, <2>3
<1>4. CASE BatchEnds(s) BY <1>4 DEF BatchEnds
<1>5. CASE LockUp(s) BY <1>5 DEF LockUp, LeftOpen
<1>6. CASE EnsureUnlocked(s)
  <2>1. held' = held \/ held' = [held EXCEPT ![s] = TRUE] BY <1>6 DEF EnsureUnlocked
  <2>2. collection' \in {collection, "open"} BY <1>6 DEF EnsureUnlocked
  <2>3. mishaps' \in 0..MaxMishaps /\ onDismiss' = onDismiss BY <1>6 DEF EnsureUnlocked
  <2> QED BY <1>6, <2>1, <2>2, <2>3 DEF EnsureUnlocked, WalletOnly
<1>7. CASE TryStored(s)
  <2>1. key[s] \in Keys
    BY <1>0, <1>7 DEF TryStored, AtKey, Working, LoaderSteps
  <2> QED BY <1>7, <2>1 DEF TryStored, Added, Abandon
<1>8. CASE Ask(s)
  <2>1. key[s] \in Keys
    BY <1>0, <1>8 DEF Ask, AtKey, Working, LoaderSteps
  <2>2. attempt' = attempt \/ (attempt[s] < MaxAttempts /\ attempt' = [attempt EXCEPT ![s] = attempt[s] + 1])
    BY <1>8 DEF Ask, Typed, Blank, Dismissed, NextAttempt, Abandon
  <2>3. asks' = asks \/ Asked(s) BY <1>8 DEF Ask
  <2>4. asks' \in [Procs -> [Keys -> 0..MaxAttempts + 1]]
    BY <2>1, <2>3, AskedIs
  <2>5. attempt' \in [Procs -> 0..MaxAttempts]
    <3>1. attempt[s] \in 0..MaxAttempts OBVIOUS
    <3>2. attempt[s] < MaxAttempts => attempt[s] + 1 \in 0..MaxAttempts BY <3>1
    <3> QED BY <2>2, <3>2
  <2>6. pass' \in [Procs -> Passes \cup {NoPass}]
    BY <1>8 DEF Ask, Typed, Blank, Dismissed
  <2>7. dismissed' \in [Procs -> SUBSET Keys]
    BY <1>8, <2>1 DEF Ask, Typed, Blank, Dismissed
  <2>8. WorldTypes' BY <1>8 DEF Ask
  <2> QED BY <1>8, <2>4, <2>5, <2>6, <2>7, <2>8 DEF Ask
<1>9. CASE AddTyped(s)
  <2>1. key[s] \in Keys
    BY <1>0, <1>9 DEF AddTyped, AtKey, Working, LoaderSteps
  <2>2. attempt' = attempt \/ (attempt[s] < MaxAttempts /\ attempt' = [attempt EXCEPT ![s] = attempt[s] + 1])
    BY <1>9 DEF AddTyped, NextAttempt
  <2>3. call' = call \/ call' = [call EXCEPT ![s] = "store"]
    BY <1>9 DEF AddTyped, WalletCall
  <2>4. attempt' \in [Procs -> 0..MaxAttempts]
    <3>1. attempt[s] \in 0..MaxAttempts OBVIOUS
    <3>2. attempt[s] < MaxAttempts => attempt[s] + 1 \in 0..MaxAttempts BY <3>1
    <3> QED BY <2>2, <3>2
  <2>5. agent' \in {agent, agent \cup {key[s]}} BY <1>9 DEF AddTyped, Added
  <2>6. mishaps' \in 0..MaxMishaps /\ onDismiss' = onDismiss BY <1>9 DEF AddTyped
  <2>7. WorldTypes' BY <1>9, <2>1, <2>5, <2>6 DEF AddTyped
  <2> QED BY <1>9, <2>3, <2>4, <2>7 DEF AddTyped
<1>10. CASE Loaded(s) \/ Exhausted(s)
  <2>1. key[s] \in Keys
    BY <1>0, <1>10 DEF Loaded, Exhausted, AtKey, Working, LoaderSteps
  <2>2. WorldTypes'
    <3>1. SetGiveup(key[s], "none") \/ SetGiveup(key[s], "fresh") BY <1>10 DEF Loaded, Exhausted
    <3>2. giveup' \in [Keys -> {"none", "fresh", "stale"}] BY <2>1, <3>1 DEF SetGiveup
    <3>3. quiet' \in [Procs -> SUBSET Keys] BY <2>1, <3>1 DEF SetGiveup
    <3> QED BY <1>10, <3>2, <3>3 DEF Loaded, Exhausted
  <2> QED BY <1>10, <2>2 DEF Loaded, Exhausted
<1> QED BY <1>1, <1>2, <1>3, <1>4, <1>5, <1>6, <1>7, <1>8, <1>9, <1>10 DEF LoadStep

LEMMA OtherPlaces ==
    ASSUME Types,
           NEW p \in Procs, \/ WalletStep(p)
                            \/ p \in Brokers /\ (BrokerStep(p) \/ \E k \in Keys : BrokerBegins(p, k))
    PROVE  PlaceTypes'
<1> USE DEF AtKey, Working, WalletSteps, LoaderSteps, BrokerSteps, At, Goto, mine, Types
<1>1. ASSUME NEW k \in Keys, p \in Brokers, BrokerBegins(p, k) PROVE PlaceTypes'
  <2>1. Fits("bracket", k) BY DEF Fits, Keys
  <2> QED BY <1>1, <2>1, Moves DEF BrokerBegins, WalletCall
<1>2. ASSUME WalletStep(p) \/ (BrokerStep(p) /\ p \in Brokers) PROVE PlaceTypes'
  <2>1. pc[p] \in AtKey /\ key' = key
    BY <1>2 DEF WalletStep, Bracket, WalletAnswers, Relock, WalletOnly,
                BrokerStep, BrokerVerifies, BrokerAsks, BrokerChecks
  <2>2. After(p) \in Working \cup {"done"}
    BY DEF After, AfterLookup, AfterStore
  <2>3. \E to \in Working \cup {"idle", "done", "killed"} : pc' = [pc EXCEPT ![p] = to]
    <3>1. CASE WalletStep(p)
      <4>1. {"io", "relock"} \subseteq Working OBVIOUS
      <4> HIDE DEF Working, BrokerSteps, LoaderSteps, WalletSteps
      <4> QED BY <2>2, <3>1, <4>1 DEF WalletStep, Bracket, WalletAnswers, Relock
    <3>2. CASE BrokerStep(p)
      BY <3>2 DEF BrokerStep, BrokerVerifies, BrokerAsks, BrokerChecks, WalletCall
    <3> QED BY <1>2, <3>1, <3>2
  <2> QED BY <2>1, <2>3, FitsHere, MovesHere
<1> QED BY <1>1, <1>2

LEMMA OtherTypes ==
    ASSUME Types,
           NEW p \in Procs, \/ WalletStep(p)
                            \/ p \in Brokers /\ (BrokerStep(p) \/ \E k \in Keys : BrokerBegins(p, k))
    PROVE  WorldTypes' /\ MineTypes'
<1> USE DEF Types, WorldTypes, MineTypes, world, mine, Fine, Mishap, At
<1>1. pc[p] \in AtKey => key[p] \in Keys BY DEF PlaceTypes, KeysAt, KeyAt
<1>2. CASE \E k \in Keys : BrokerBegins(p, k) BY <1>2 DEF BrokerBegins, WalletCall
<1>3. CASE Bracket(p)
  <2>1. pass' = pass \/ pass' = [pass EXCEPT ![p] = NoPass] BY <1>3 DEF Bracket, Missed
  <2>2. collection' \in {collection, "open"} BY <1>3 DEF Bracket
  <2>3. mishaps' \in 0..MaxMishaps /\ onDismiss' = onDismiss BY <1>3 DEF Bracket
  <2> QED BY <1>3, <2>1, <2>2, <2>3 DEF Bracket, WalletOnly
<1>4. CASE WalletAnswers(p)
  <2>1. key[p] \in Keys BY <1>1, <1>4 DEF WalletAnswers, AtKey, Working, WalletSteps
  <2>2. pass' \in [Procs -> Passes \cup {NoPass}] BY <1>4, <2>1 DEF WalletAnswers
  <2>3. wallet' \in [Keys -> Passes \cup {NoPass}] BY <1>4, <2>1 DEF WalletAnswers
  <2> QED BY <1>4, <2>2, <2>3 DEF WalletAnswers, WalletOnly
<1>5. CASE Relock(p) BY <1>5 DEF Relock, LeftOpen, WalletOnly
<1>6. CASE BrokerVerifies(p) BY <1>6 DEF BrokerVerifies
<1>7. CASE BrokerAsks(p)
  <2>1. key[p] \in Keys BY <1>1, <1>7 DEF BrokerAsks, AtKey, Working, LoaderSteps, BrokerSteps
  <2>2. asks' \in [Procs -> [Keys -> 0..MaxAttempts + 1]] BY <1>7, <2>1, AskedIs DEF BrokerAsks
  <2>3. pass' \in [Procs -> Passes \cup {NoPass}] BY <1>7 DEF BrokerAsks
  <2> QED BY <1>7, <2>2, <2>3 DEF BrokerAsks
<1>8. CASE BrokerChecks(p) BY <1>8 DEF BrokerChecks, WalletCall
<1> QED BY <1>2, <1>3, <1>4, <1>5, <1>6, <1>7, <1>8 DEF WalletStep, BrokerStep

LEMMA OutsideTypes == ASSUME Types, Outside PROVE Types'
<1> USE DEF Types, PlaceTypes, WorldTypes, MineTypes, world, mine, Mishap, KeysAt, KeyAt
<1>1. CASE \E p \in Procs : Killed(p)
  BY <1>1 DEF Killed, Goto, LeftOpen, AtKey, Working, WalletSteps, LoaderSteps, BrokerSteps
<1>2. CASE \E k \in Keys : KeyLeavesAgent(k) BY <1>2 DEF KeyLeavesAgent
<1>3. CASE \E k \in Keys : RetryWindowPasses(k) BY <1>3 DEF RetryWindowPasses, SetGiveup
<1>4. CASE \E k \in Keys, q \in Passes : KeyReencrypted(k, q) BY <1>4 DEF KeyReencrypted
<1> QED BY <1>1, <1>2, <1>3, <1>4 DEF Outside

LEMMA TypesHold == Spec => []Types
<1>1. Init => Types
  BY DEF Init, Types, PlaceTypes, WorldTypes, MineTypes, KeysAt, KeyAt, AtKey,
         Working, WalletSteps, LoaderSteps, BrokerSteps
<1>2. Types /\ [Next]_vars => Types'
  <2>1. SUFFICES ASSUME Types, [Next]_vars PROVE Types' OBVIOUS
  <2>2. CASE UNCHANGED vars
    BY <2>1, <2>2 DEF vars, world, mine, Types, PlaceTypes, WorldTypes, MineTypes, KeysAt, KeyAt
  <2>3. CASE Next
    <3>1. ASSUME NEW s \in Loaders, LoadBegins(s) \/ LoadStep(s) PROVE Types'
      BY <2>1, <3>1, LoadPlaces, LoadTypes DEF Types
    <3>2. ASSUME Outside PROVE Types' BY <2>1, <3>2, OutsideTypes
    <3>3. ASSUME NEW b \in Brokers, BrokerStep(b) \/ \E k \in Keys : BrokerBegins(b, k)
          PROVE Types'
      <4>1. b \in Procs BY DEF Procs
      <4> QED BY <2>1, <3>3, <4>1, OtherPlaces, OtherTypes DEF Types
    <3>4. ASSUME NEW p \in Procs, WalletStep(p) PROVE Types'
      BY <2>1, <3>4, OtherPlaces, OtherTypes DEF Types
    <3> HIDE DEF Types
    <3> QED BY <2>3, <3>1, <3>2, <3>3, <3>4 DEF Next
  <2> QED BY <2>1, <2>2, <2>3
<1> QED BY <1>1, <1>2, PTL DEF Spec

(* Every variable keeps its type, and whoever is at a key is at one of the  *)
(* directory's.                                                             *)
THEOREM TypeCorrect == Spec => []TypeOK
BY TypesHold, TypesAre, PTL

-----------------------------------------------------------------------------
(* A step is one process's, or the outside's; it leaves the others alone.   *)

StepOf(p) ==
    \/ p \in Loaders /\ (LoadBegins(p) \/ LoadStep(p))
    \/ p \in Brokers /\ (BrokerStep(p) \/ \E k \in Keys : BrokerBegins(p, k))
    \/ WalletStep(p)

LEMMA NextIs == ASSUME Next PROVE Outside \/ \E p \in Procs : StepOf(p)
<1>1. ASSUME NEW s \in Loaders, LoadBegins(s) \/ LoadStep(s) PROVE \E p \in Procs : StepOf(p)
  <2>1. s \in Procs /\ StepOf(s) BY <1>1 DEF Procs, StepOf
  <2> QED BY <2>1
<1>2. ASSUME NEW b \in Brokers, BrokerStep(b) \/ \E k \in Keys : BrokerBegins(b, k)
      PROVE \E p \in Procs : StepOf(p)
  <2>1. b \in Procs /\ StepOf(b) BY <1>2 DEF Procs, StepOf
  <2> QED BY <2>1
<1>3. ASSUME NEW p \in Procs, WalletStep(p) PROVE \E q \in Procs : StepOf(q)
  BY <1>3 DEF StepOf
<1> QED BY <1>1, <1>2, <1>3 DEF Next

Aside(p) ==
    \A q \in Procs \ {p} :
        /\ pc'[q] = pc[q] /\ key'[q] = key[q] /\ call'[q] = call[q] /\ held'[q] = held[q]
        /\ pass'[q] = pass[q] /\ attempt'[q] = attempt[q]
        /\ asks'[q] = asks[q] /\ dismissed'[q] = dismissed[q]

LEMMA OthersStay == ASSUME Types, NEW p \in Procs, StepOf(p) PROVE Aside(p)
<1> USE DEF Types, PlaceTypes, MineTypes, Aside, world, mine, Goto
<1>1. CASE LoadBegins(p) BY <1>1 DEF LoadBegins
<1>2. CASE Skip(p) \/ Consider(p) BY <1>2 DEF Skip, Consider, NextKey, WalletCall
<1>3. CASE BatchEnds(p) \/ LockUp(p) BY <1>3 DEF BatchEnds, LockUp
<1>4. CASE EnsureUnlocked(p) BY <1>4 DEF EnsureUnlocked, WalletOnly
<1>5. CASE TryStored(p) BY <1>5 DEF TryStored, Abandon
<1>6. CASE Ask(p)
  <2>1. asks' = asks \/ Asked(p) BY <1>6 DEF Ask
  <2>2. \A q \in Procs \ {p} : asks'[q] = asks[q] BY <2>1 DEF Asked
  <2>3. \A q \in Procs \ {p} : pc'[q] = pc[q] /\ attempt'[q] = attempt[q] /\ key'[q] = key[q]
    BY <1>6 DEF Ask, Typed, Blank, Dismissed, NextAttempt, Abandon
  <2>4. \A q \in Procs \ {p} : pass'[q] = pass[q] /\ dismissed'[q] = dismissed[q]
    BY <1>6 DEF Ask, Typed, Blank, Dismissed
  <2> QED BY <1>6, <2>2, <2>3, <2>4 DEF Ask
<1>7. CASE AddTyped(p) BY <1>7 DEF AddTyped, WalletCall, NextAttempt, Abandon
<1>8. CASE Loaded(p) \/ Exhausted(p) BY <1>8 DEF Loaded, Exhausted, NextKey
<1>9. CASE \E k \in Keys : BrokerBegins(p, k) BY <1>9 DEF BrokerBegins, WalletCall
<1>10. CASE BrokerVerifies(p) \/ BrokerChecks(p) BY <1>10 DEF BrokerVerifies, BrokerChecks, WalletCall
<1>11. CASE BrokerAsks(p) BY <1>11 DEF BrokerAsks, Asked
<1>12. CASE Bracket(p) BY <1>12 DEF Bracket, Missed, WalletOnly
<1>13. CASE WalletAnswers(p) \/ Relock(p) BY <1>13 DEF WalletAnswers, Relock, WalletOnly
<1> QED BY <1>1, <1>2, <1>3, <1>4, <1>5, <1>6, <1>7, <1>8, <1>9, <1>10, <1>11, <1>12, <1>13
        DEF StepOf, LoadStep, BrokerStep, WalletStep

-----------------------------------------------------------------------------
(* The wallet holds what opened.                                            *)

Storing(p) == pc[p] \in {"unlock", "bracket", "io"} /\ call[p] = "store"
StoresWhatOpened ==
    /\ \A k \in Keys : opens[k] \in past[k]
    /\ \A p \in Procs : Storing(p) /\ key[p] \in Readable => pass[p] \in past[key[p]]

LEMMA AfterIs == ASSUME NEW p PROVE After(p) \in {"ask", "verify", "try", "done", "loaded"}
BY DEF After, AfterLookup, AfterStore

LEMMA StoringStep ==
    ASSUME Types, StoresWhatOpened, NEW p \in Procs, StepOf(p)
    PROVE  Storing(p)' /\ key'[p] \in Readable => pass'[p] \in past[key'[p]]
<1> USE DEF Types, PlaceTypes, MineTypes, Storing, world, mine, Goto, At
<1>1. CASE LoadBegins(p) BY <1>1 DEF LoadBegins
<1>2. CASE Skip(p) \/ Consider(p) BY <1>2 DEF Skip, Consider, NextKey, WalletCall
<1>3. CASE BatchEnds(p) \/ LockUp(p) BY <1>3 DEF BatchEnds, LockUp
<1>4. CASE EnsureUnlocked(p) BY <1>4 DEF EnsureUnlocked, WalletOnly, StoresWhatOpened
<1>5. CASE TryStored(p) BY <1>5 DEF TryStored, Abandon
<1>6. CASE Ask(p)
  <2>1. pc'[p] \notin {"unlock", "bracket", "io"}
    BY <1>6 DEF Ask, Typed, Blank, Dismissed, NextAttempt, Abandon
  <2> QED BY <2>1
<1>7. CASE AddTyped(p)
  <2>1. CASE Opens(p) /\ key' = key
    <3>1. pass' = pass /\ key[p] \in Keys
      BY <1>7 DEF AddTyped, KeysAt, KeyAt, AtKey, Working, LoaderSteps
    <3> QED BY <2>1, <3>1 DEF Opens, StoresWhatOpened
  <2>2. CASE ~(Opens(p) /\ key' = key)
    <3>1. pc'[p] \notin {"unlock", "bracket", "io"}
      BY <1>7, <2>2 DEF AddTyped, NextAttempt, Abandon
    <3> QED BY <3>1
  <2> QED BY <2>1, <2>2
<1>8. CASE Loaded(p) \/ Exhausted(p) BY <1>8 DEF Loaded, Exhausted, NextKey
<1>9. CASE \E k \in Keys : BrokerBegins(p, k) BY <1>9 DEF BrokerBegins, WalletCall
<1>10. CASE BrokerVerifies(p) BY <1>10 DEF BrokerVerifies
<1>11. CASE BrokerChecks(p)
  BY <1>11 DEF BrokerChecks, WalletCall, Wrong, Opens, StoresWhatOpened
<1>12. CASE BrokerAsks(p) BY <1>12 DEF BrokerAsks
<1>13. CASE Bracket(p)
  BY <1>13, AfterIs DEF Bracket, Missed, WalletOnly, StoresWhatOpened
<1>14. CASE WalletAnswers(p) \/ Relock(p)
  BY <1>14, AfterIs DEF WalletAnswers, Relock, WalletOnly
<1> QED BY <1>1, <1>2, <1>3, <1>4, <1>5, <1>6, <1>7, <1>8, <1>9, <1>10, <1>11, <1>12, <1>13, <1>14
        DEF StepOf, LoadStep, BrokerStep, WalletStep

LEMMA WalletIs ==
    ASSUME Types, NEW p \in Procs, StepOf(p)
    PROVE  /\ opens' = opens /\ past' = past
           /\ \/ wallet' = wallet
              \/ /\ Storing(p) /\ key[p] \in Keys
                 /\ wallet' = [wallet EXCEPT ![key[p]] = pass[p]]
<1> USE DEF world, At
<1>1. CASE LoadBegins(p) \/ LoadStep(p)
  BY <1>1 DEF LoadBegins, LoadStep, Skip, Consider, BatchEnds, LockUp, EnsureUnlocked,
              WalletOnly, TryStored, Ask, AddTyped, Loaded, Exhausted
<1>2. CASE BrokerStep(p) \/ \E k \in Keys : BrokerBegins(p, k)
  BY <1>2 DEF BrokerBegins, BrokerStep, BrokerVerifies, BrokerAsks, BrokerChecks
<1>3. CASE Bracket(p) \/ Relock(p) BY <1>3 DEF Bracket, Relock, WalletOnly
<1>4. CASE WalletAnswers(p)
  <2>1. key[p] \in Keys
    BY <1>4 DEF WalletAnswers, Types, PlaceTypes, KeysAt, KeyAt, AtKey, Working, WalletSteps
  <2> QED BY <1>4, <2>1 DEF WalletAnswers, WalletOnly, Storing
<1> QED BY <1>1, <1>2, <1>3, <1>4 DEF StepOf, WalletStep

WalletSound == StoresWhatOpened /\ WalletHoldsWhatOpened

LEMMA WalletSoundStep == ASSUME Types, WalletSound, [Next]_vars PROVE WalletSound'
<1>1. CASE UNCHANGED vars
  BY <1>1 DEF vars, world, mine, WalletSound, StoresWhatOpened, WalletHoldsWhatOpened, Storing
<1>2. ASSUME NEW p \in Procs, StepOf(p) PROVE WalletSound'
  <2>1. opens' = opens /\ past' = past BY <1>2, WalletIs
  <2>2. StoresWhatOpened'
    <3>1. Storing(p)' /\ key'[p] \in Readable => pass'[p] \in past'[key'[p]]
      BY <1>2, <2>1, StoringStep DEF WalletSound
    <3>2. \A q \in Procs \ {p} : Storing(q)' /\ key'[q] \in Readable => pass'[q] \in past'[key'[q]]
      BY <1>2, <2>1, OthersStay DEF Aside, Storing, WalletSound, StoresWhatOpened
    <3> QED BY <2>1, <3>1, <3>2 DEF WalletSound, StoresWhatOpened, Storing
  <2>3. WalletHoldsWhatOpened'
    <3>1. CASE wallet' = wallet BY <2>1, <3>1 DEF WalletSound, WalletHoldsWhatOpened
    <3>2. CASE /\ Storing(p) /\ key[p] \in Keys
               /\ wallet' = [wallet EXCEPT ![key[p]] = pass[p]]
      <4>1. wallet \in [Keys -> Passes \cup {NoPass}] BY DEF Types, WorldTypes
      <4>2. key[p] \in Readable => pass[p] \in past[key[p]] BY <3>2 DEF WalletSound, StoresWhatOpened
      <4> QED BY <2>1, <3>2, <4>1, <4>2 DEF WalletSound, WalletHoldsWhatOpened
    <3> QED BY <1>2, <3>1, <3>2, WalletIs
  <2> QED BY <2>2, <2>3 DEF WalletSound
<1>3. ASSUME Outside PROVE WalletSound'
  <2> USE DEF WalletSound, StoresWhatOpened, WalletHoldsWhatOpened, Storing, mine
  <2>1. CASE \E p \in Procs : Killed(p)
    BY <2>1 DEF Killed, Goto, Types, PlaceTypes
  <2>2. CASE \E k \in Keys : KeyLeavesAgent(k) \/ RetryWindowPasses(k)
    BY <2>2 DEF KeyLeavesAgent, RetryWindowPasses
  <2>3. ASSUME NEW k \in Keys, NEW q \in Passes, KeyReencrypted(k, q) PROVE WalletSound'
    <3>1. \A j \in Keys : past[j] \subseteq past'[j] /\ opens'[j] \in past'[j]
      BY <2>3 DEF KeyReencrypted, Types, WorldTypes
    <3> QED BY <2>3, <3>1 DEF KeyReencrypted
  <2> QED BY <1>3, <2>1, <2>2, <2>3 DEF Outside
<1> QED BY <1>1, <1>2, <1>3, NextIs

(* Whatever is typed, whoever stores it and whatever is re-encrypted, the   *)
(* wallet never holds a passphrase that did not open its key (F66).         *)
THEOREM OnlyWhatOpened == Spec => []WalletHoldsWhatOpened
<1>1. Init => WalletSound
  BY DEF Init, WalletSound, StoresWhatOpened, WalletHoldsWhatOpened, Storing
<1>2. Types /\ WalletSound /\ [Next]_vars => WalletSound' BY WalletSoundStep
<1>3. WalletSound => WalletHoldsWhatOpened BY DEF WalletSound
<1> QED BY <1>1, <1>2, <1>3, TypesHold, PTL DEF Spec

-----------------------------------------------------------------------------
(* Whoever has the collection open is there to lock it.                     *)

Holds(p) == (held[p] /\ pc[p] \in Working) \/ pc[p] \in {"io", "relock"}
HoldersLoad == \A p \in Procs : held[p] => p \in Loaders /\ pc[p] # "idle"
Holders == HoldersLoad /\ (collection = "open" => \E p \in Procs : Holds(p))

(* What p's step leaves open, p held open or nobody's business of p's.      *)
Answers(p) ==
    /\ held'[p] => p \in Loaders /\ pc'[p] # "idle"
    /\ collection' = "open" => Holds(p)' \/ (collection = "open" /\ ~Holds(p))

LEMMA AnswersStep == ASSUME Types, HoldersLoad, NEW p \in Procs, StepOf(p) PROVE Answers(p)
<1> USE DEF Types, PlaceTypes, MineTypes, Answers, HoldersLoad, Holds, world, mine, Goto, At,
            Working, WalletSteps, LoaderSteps, BrokerSteps
<1>1. CASE p \in Loaders /\ LoadBegins(p) BY <1>1 DEF LoadBegins
<1>2. CASE Skip(p) \/ Consider(p) BY <1>2 DEF Skip, Consider, NextKey, WalletCall
<1>3. CASE BatchEnds(p) \/ LockUp(p) BY <1>3 DEF BatchEnds, LockUp, LeftOpen
<1>4. CASE p \in Loaders /\ EnsureUnlocked(p) BY <1>4 DEF EnsureUnlocked, WalletOnly
<1>5. CASE TryStored(p) BY <1>5 DEF TryStored, Abandon
<1>6. CASE p \in Loaders /\ Ask(p)
  <2>1. pc'[p] \in Working \/ (pc'[p] = "done" /\ ~held[p])
    BY <1>6 DEF Ask, Typed, Blank, Dismissed, NextAttempt, Abandon
  <2> QED BY <1>6, <2>1 DEF Ask
<1>7. CASE p \in Loaders /\ AddTyped(p)
  <2>1. pc'[p] \in Working BY <1>7 DEF AddTyped, WalletCall, NextAttempt, Abandon
  <2> QED BY <1>7, <2>1 DEF AddTyped
<1>8. CASE Loaded(p) \/ Exhausted(p) BY <1>8 DEF Loaded, Exhausted, NextKey
<1>9. CASE p \in Brokers /\ \E k \in Keys : BrokerBegins(p, k)
  BY <1>9 DEF BrokerBegins, WalletCall
<1>10. CASE p \in Brokers /\ (BrokerVerifies(p) \/ BrokerChecks(p))
  BY <1>10 DEF BrokerVerifies, BrokerChecks, WalletCall
<1>11. CASE p \in Brokers /\ BrokerAsks(p) BY <1>11 DEF BrokerAsks
<1>12. CASE Bracket(p)
  <2>1. held[p] => After(p) \in Working
    BY DEF After, AfterLookup, AfterStore
  <2> HIDE DEF Working
  <2> QED BY <1>12, <2>1, AfterIs DEF Bracket, WalletOnly
<1>13. CASE WalletAnswers(p) \/ Relock(p)
  <2>1. held[p] => After(p) \in Working
    BY DEF After, AfterLookup, AfterStore
  <2>2. pc[p] = "io" \/ pc[p] = "relock" BY <1>13 DEF WalletAnswers, Relock
  <2> HIDE DEF Working
  <2> QED BY <1>13, <2>1, <2>2, AfterIs DEF WalletAnswers, Relock, WalletOnly, LeftOpen
<1> QED BY <1>1, <1>2, <1>3, <1>4, <1>5, <1>6, <1>7, <1>8, <1>9, <1>10, <1>11, <1>12, <1>13
        DEF StepOf, LoadStep, BrokerStep, WalletStep

LEMMA HoldersStep == ASSUME Types, Holders, [Next]_vars PROVE Holders'
<1>1. CASE UNCHANGED vars
  BY <1>1 DEF vars, world, mine, Holders, HoldersLoad, Holds
<1>2. ASSUME NEW p \in Procs, StepOf(p) PROVE Holders'
  <2>1. Answers(p) /\ Aside(p) BY <1>2, AnswersStep, OthersStay DEF Holders
  <2>2. \A q \in Procs \ {p} : Holds(q)' <=> Holds(q) BY <2>1 DEF Aside, Holds
  <2>3. HoldersLoad' BY <2>1 DEF Answers, Aside, Holders, HoldersLoad
  <2>4. ASSUME collection' = "open" PROVE \E q \in Procs : Holds(q)'
    <3>1. CASE Holds(p)' BY <3>1
    <3>2. CASE collection = "open" /\ ~Holds(p)
      <4>1. PICK q \in Procs : Holds(q) BY <3>2 DEF Holders
      <4>2. q # p BY <3>2, <4>1
      <4> QED BY <2>2, <4>1, <4>2
    <3> QED BY <2>1, <2>4, <3>1, <3>2 DEF Answers
  <2> QED BY <2>3, <2>4 DEF Holders
<1>3. ASSUME Outside PROVE Holders'
  <2>1. ASSUME NEW p \in Procs, Killed(p) PROVE Holders'
    <3> USE DEF Types, PlaceTypes, MineTypes, mine, Goto, At, Killed
    <3>1. HoldersLoad' BY <2>1 DEF Holders, HoldersLoad
    <3>2. collection' = "open" => ~Holds(p) /\ collection = "open"
      BY <2>1 DEF LeftOpen, Holds
    <3>3. \A q \in Procs \ {p} : Holds(q)' <=> Holds(q) BY <2>1 DEF Holds
    <3> QED BY <3>1, <3>2, <3>3 DEF Holders
  <2>2. CASE \E k \in Keys : \/ KeyLeavesAgent(k) \/ RetryWindowPasses(k)
                             \/ \E q \in Passes : KeyReencrypted(k, q)
    BY <2>2 DEF KeyLeavesAgent, RetryWindowPasses, KeyReencrypted, mine, Holders, HoldersLoad, Holds
  <2> QED BY <1>3, <2>1, <2>2 DEF Outside
<1> QED BY <1>1, <1>2, <1>3, NextIs

(* Once every process has ended, the collection is locked, unless one was   *)
(* killed or could not lock it, however their calls on it interleaved.      *)
THEOREM NothingLeftOpen == Spec => []LockedAtRest
<1>1. Init => Holders BY DEF Init, Holders, HoldersLoad
<1>2. Types /\ Holders /\ [Next]_vars => Holders' BY HoldersStep
<1>3. Holders => LockedAtRest
  BY DEF Holders, HoldersLoad, Holds, LockedAtRest, Working, WalletSteps, LoaderSteps, BrokerSteps
<1> QED BY <1>1, <1>2, <1>3, TypesHold, PTL DEF Spec

-----------------------------------------------------------------------------
(* How often a key is asked about, against the attempt a loader is at.      *)

Untouched(s, k) == asks[s][k] = 0 /\ k \notin dismissed[s]
Ahead(s) ==
    /\ pc[s] = "idle" => \A k \in Keys : Untouched(s, k)
    /\ pc[s] = "next" => \A k \in Keys : k >= key[s] => Untouched(s, k)
    /\ pc[s] \in AtKey => \A k \in Keys : k > key[s] => Untouched(s, k)

Looking(s) == (pc[s] \in WalletSteps /\ call[s] = "lookup") \/ pc[s] = "try"
Here(s) ==
    /\ pc[s] \in AtKey /\ onDismiss # "retry" => key[s] \notin dismissed[s]
    /\ Looking(s) => asks[s][key[s]] = 0 /\ attempt[s] = 1
    /\ pc[s] = "ask" => asks[s][key[s]] = attempt[s] - 1
    /\ pc[s] = "add" => asks[s][key[s]] = attempt[s]
    /\ pc[s] = "exhausted" => asks[s][key[s]] = MaxAttempts

NeverTooOften(s) == \A k \in Keys : asks[s][k] <= MaxAttempts
Counts(s) == Ahead(s) /\ Here(s) /\ NeverTooOften(s)

LEMMA AttemptIs ==
    ASSUME Types, NEW s \in Procs, NextAttempt(s)
    PROVE  \/ pc'[s] = "ask" /\ attempt'[s] = attempt[s] + 1
           \/ pc'[s] = "exhausted" /\ attempt[s] = MaxAttempts
<1>1. attempt[s] \in 0..MaxAttempts /\ MaxAttempts \in Nat BY DEF Types, MineTypes
<1>2. attempt[s] >= MaxAttempts => attempt[s] = MaxAttempts BY <1>1
<1>3. \A to : pc' = [pc EXCEPT ![s] = to] => pc'[s] = to BY DEF Types, PlaceTypes
<1>4. CASE attempt[s] < MaxAttempts BY <1>3, <1>4 DEF NextAttempt, Goto, Types, MineTypes
<1>5. CASE ~(attempt[s] < MaxAttempts) BY <1>1, <1>2, <1>3, <1>5 DEF NextAttempt, Goto
<1> QED BY <1>4, <1>5

(* A question, and what is made of the answer.                              *)
LEMMA AskCounts == ASSUME Types, NEW s \in Loaders, Counts(s), Ask(s) PROVE Counts(s)'
<1>1. s \in Procs BY DEF Procs
<1>2. pc[s] = "ask" /\ key[s] \in Keys /\ onDismiss' = onDismiss
  BY <1>1 DEF Ask, At, Fine, Mishap, Types, PlaceTypes, KeysAt, KeyAt, AtKey, Working, LoaderSteps
<1>3. pc[s] \in AtKey /\ key[s] \in Int /\ attempt[s] \in 0..MaxAttempts /\ key \in [Procs -> 0..NumKeys + 1]
  BY <1>1, <1>2 DEF AtKey, Working, LoaderSteps, Keys, Types, MineTypes, PlaceTypes
<1>4. asks[s][key[s]] = attempt[s] - 1 BY <1>2 DEF Counts, Here
<1>5. CASE Abandon(s) /\ UNCHANGED <<asks, dismissed>>
  <2>1. pc'[s] = "next" /\ key'[s] = key[s] + 1
    BY <1>1, <1>5 DEF Abandon, Goto, Types, PlaceTypes
  <2>2. \A k \in Keys : k >= key[s] + 1 => k > key[s] BY <1>3 DEF Keys
  <2> QED BY <1>2, <1>3, <1>5, <2>1, <2>2
      DEF Counts, Ahead, Here, NeverTooOften, Untouched, Looking, AtKey, WalletSteps
<1>6. CASE Asked(s) /\ (\/ \E p \in Passes : Typed(s, p)
                        \/ Blank(s)
                        \/ Dismissed(s))
  <2>1. asks'[s][key[s]] = attempt[s]
    <3>1. attempt[s] - 1 <= MaxAttempts /\ attempt[s] - 1 + 1 = attempt[s] BY <1>3
    <3> QED BY <1>1, <1>2, <1>4, <1>6, <3>1, AskedIs
  <2>2. \A k \in Keys : k # key[s] => asks'[s][k] = asks[s][k]
    BY <1>1, <1>2, <1>6, AskedIs
  <2>3. NeverTooOften(s)' BY <1>2, <1>3, <2>1, <2>2 DEF Counts, NeverTooOften
  <2>4. dismissed' = dismissed \/ (Dismissed(s) /\ dismissed' = [dismissed EXCEPT ![s] = @ \cup {key[s]}])
    BY <1>6 DEF Typed, Blank, Dismissed
  <2>5. \A k \in Keys : k # key[s] => (k \in dismissed'[s] <=> k \in dismissed[s])
    BY <1>1, <2>4 DEF Types, MineTypes
  <2>6. \A k \in Keys : k > key[s] => Untouched(s, k)'
    BY <1>2, <1>3, <2>2, <2>5 DEF Counts, Ahead, Untouched
  <2>7. CASE \E p \in Passes : Typed(s, p)
    <3>1. pc'[s] = "add" /\ key' = key /\ attempt' = attempt /\ dismissed' = dismissed
      BY <1>1, <2>7 DEF Typed, Goto, Types, PlaceTypes
    <3> QED BY <1>2, <1>3, <2>1, <2>3, <2>6, <3>1
        DEF Counts, Ahead, Here, Looking, WalletSteps
  <2>8. CASE NextAttempt(s) /\ key' = key /\ (onDismiss = "retry" \/ dismissed' = dismissed)
    <3>1. \/ pc'[s] = "ask" /\ attempt'[s] = attempt[s] + 1
          \/ pc'[s] = "exhausted" /\ attempt[s] = MaxAttempts
      BY <1>1, <2>8, AttemptIs
    <3>2. onDismiss # "retry" => key[s] \notin dismissed'[s]
      BY <1>2, <1>3, <2>8 DEF Counts, Here
    <3> QED BY <1>2, <1>3, <2>1, <2>3, <2>6, <2>8, <3>1, <3>2
        DEF Counts, Ahead, Here, Looking, WalletSteps
  <2>9. CASE Dismissed(s) /\ Abandon(s)
    <3>1. pc'[s] = "next" /\ key'[s] = key[s] + 1
      BY <1>1, <2>9 DEF Abandon, Goto, Types, PlaceTypes
    <3>2. \A k \in Keys : k >= key[s] + 1 => k > key[s] BY <1>3 DEF Keys
    <3> QED BY <2>3, <2>6, <3>1, <3>2
        DEF Counts, Ahead, Here, Looking, AtKey, WalletSteps
  <2>10. CASE pc'[s] \in {"lock", "done"}
    BY <2>3, <2>10 DEF Counts, Ahead, Here, Looking, AtKey, Working, WalletSteps, LoaderSteps, BrokerSteps
  <2> QED
    <3>1. CASE Blank(s) BY <2>8, <3>1 DEF Blank
    <3>2. CASE Dismissed(s)
      <4>1. CASE onDismiss = "retry" BY <2>8, <3>2, <4>1 DEF Dismissed
      <4>2. CASE onDismiss = "skip" BY <2>9, <3>2, <4>2 DEF Dismissed
      <4>3. CASE onDismiss = "stop"
        BY <1>1, <2>10, <3>2, <4>3 DEF Dismissed, Goto, Types, PlaceTypes
      <4> QED BY <4>1, <4>2, <4>3, <3>2 DEF Dismissed
    <3> QED BY <1>6, <2>7, <3>1, <3>2
<1> QED BY <1>5, <1>6 DEF Ask

LEMMA LoaderCounts ==
    ASSUME Types, NEW s \in Loaders, Counts(s), StepOf(s)
    PROVE  Counts(s)'
<1>1. s \in Procs /\ s \notin Brokers BY DEF Procs
<1>2. onDismiss' = onDismiss
  BY DEF StepOf, LoadBegins, LoadStep, Skip, Consider, BatchEnds, LockUp, EnsureUnlocked, TryStored,
         Ask, AddTyped, Loaded, Exhausted, BrokerStep, BrokerVerifies, BrokerAsks, BrokerChecks,
         BrokerBegins, WalletStep, Bracket, WalletAnswers, Relock, Fine, Mishap
<1>3. key[s] \in Int /\ attempt[s] \in 0..MaxAttempts /\ (pc[s] \in AtKey => key[s] \in Keys)
  BY <1>1 DEF Types, PlaceTypes, MineTypes, KeysAt, KeyAt
<1>4. NumKeys \in Nat /\ \A k \in Keys : /\ k >= 1
                                         /\ k > key[s] => k >= key[s]
                                         /\ k >= key[s] + 1 => k > key[s]
  BY <1>3 DEF Keys
<1>5. \A to : pc' = [pc EXCEPT ![s] = to] => pc'[s] = to BY <1>1 DEF Types, PlaceTypes
<1>6. \A k : key' = [key EXCEPT ![s] = k] => key'[s] = k BY <1>1 DEF Types, PlaceTypes
<1> DEFINE Same == asks' = asks /\ dismissed' = dismissed
<1> USE DEF Counts, Ahead, Here, NeverTooOften, Looking, Untouched, AtKey, Working,
            WalletSteps, LoaderSteps, BrokerSteps, Goto, At, mine
<1>7. CASE LoadBegins(s)
  <2>1. pc'[s] \in {"next", "done"} /\ key'[s] = 1 /\ Same /\ pc[s] = "idle"
    BY <1>5, <1>6, <1>7 DEF LoadBegins
  <2> QED BY <1>2, <2>1
<1>8. CASE Skip(s)
  <2>1. pc'[s] = "next" /\ key'[s] = key[s] + 1 /\ Same /\ pc[s] = "next"
    BY <1>5, <1>6, <1>8 DEF Skip, NextKey
  <2> QED BY <1>2, <1>4, <2>1
<1>9. CASE Consider(s)
  <2>1. pc'[s] \in {"unlock", "io"} /\ key' = key /\ Same /\ pc[s] = "next" /\ attempt'[s] = 1
    BY <1>1, <1>5, <1>9 DEF Consider, WalletCall, Types, MineTypes
  <2>2. key[s] \in Keys BY <1>1, <1>9, <1>3 DEF Consider, Keys, Types, PlaceTypes, KeysAt, KeyAt
  <2>3. Untouched(s, key[s]) BY <1>3, <2>1, <2>2
  <2> QED BY <1>2, <1>4, <2>1, <2>3
<1>10. CASE BatchEnds(s) \/ LockUp(s)
  <2>1. pc'[s] \in {"lock", "done"} /\ Same BY <1>5, <1>10 DEF BatchEnds, LockUp
  <2> QED BY <1>2, <2>1
<1>11. CASE EnsureUnlocked(s)
  <2>1. pc'[s] \in {"io", "bracket"} /\ key' = key /\ Same /\ call' = call /\ attempt' = attempt /\ pc[s] = "unlock"
    BY <1>5, <1>11 DEF EnsureUnlocked, WalletOnly
  <2> QED BY <1>2, <2>1
<1>12. CASE TryStored(s)
  <2>1. pc[s] = "try" /\ Same /\ attempt' = attempt /\ call' = call BY <1>12 DEF TryStored
  <2>2. \/ pc'[s] \in {"loaded", "ask"} /\ key' = key
        \/ pc'[s] = "next" /\ key'[s] = key[s] + 1
    BY <1>5, <1>6, <1>12 DEF TryStored, Abandon
  <2> QED BY <1>2, <1>4, <2>1, <2>2
<1>13. CASE AddTyped(s)
  <2>1. pc[s] = "add" /\ Same BY <1>13 DEF AddTyped
  <2>2. \/ pc'[s] = "loaded" /\ key' = key
        \/ pc'[s] \in {"unlock", "io"} /\ call'[s] = "store" /\ key' = key
        \/ NextAttempt(s) /\ key' = key
        \/ pc'[s] = "next" /\ key'[s] = key[s] + 1
    BY <1>1, <1>5, <1>6, <1>13 DEF AddTyped, WalletCall, Abandon, Types, MineTypes
  <2>3. NextAttempt(s) => \/ pc'[s] = "ask" /\ attempt'[s] = attempt[s] + 1
                          \/ pc'[s] = "exhausted" /\ attempt[s] = MaxAttempts
    BY <1>1, AttemptIs
  <2>5. CASE pc'[s] = "loaded" /\ key' = key BY <1>2, <2>1, <2>5
  <2>6. CASE pc'[s] \in {"unlock", "io"} /\ call'[s] = "store" /\ key' = key BY <1>2, <2>1, <2>6
  <2>7. CASE pc'[s] = "ask" /\ attempt'[s] = attempt[s] + 1 /\ key' = key
    <3>1. attempt'[s] - 1 = attempt[s] BY <1>3, <2>7
    <3>2. asks'[s][key'[s]] = attempt'[s] - 1 BY <2>1, <2>7, <3>1
    <3>3. Here(s)' BY <1>2, <2>1, <2>7, <3>2
    <3>4. Ahead(s)' BY <2>1, <2>7
    <3>5. NeverTooOften(s)' BY <2>1
    <3> QED BY <3>3, <3>4, <3>5
  <2>8. CASE pc'[s] = "exhausted" /\ attempt[s] = MaxAttempts /\ key' = key
    BY <1>2, <2>1, <2>8
  <2>9. CASE pc'[s] = "next" /\ key'[s] = key[s] + 1 BY <1>2, <1>4, <2>1, <2>9
  <2> QED BY <2>2, <2>3, <2>5, <2>6, <2>7, <2>8, <2>9
<1>14. CASE Loaded(s) \/ Exhausted(s)
  <2>1. pc[s] \in {"loaded", "exhausted"} /\ pc'[s] = "next" /\ key'[s] = key[s] + 1 /\ Same
    BY <1>5, <1>6, <1>14 DEF Loaded, Exhausted, NextKey
  <2> QED BY <1>2, <1>4, <2>1
<1>15. CASE WalletStep(s)
  <2>1. key' = key /\ call' = call /\ attempt' = attempt /\ Same /\ pc[s] \in WalletSteps
    BY <1>15 DEF WalletStep, Bracket, WalletAnswers, Relock, WalletOnly
  <2>2. call[s] \in {"lookup", "store"} BY <1>1 DEF Types, MineTypes
  <2>3. pc'[s] \in {"io", "relock"} \/ pc'[s] = After(s)
    BY <1>5, <1>15 DEF WalletStep, Bracket, WalletAnswers, Relock
  <2>4. After(s) = "loaded" \/ (call[s] = "lookup" /\ After(s) \in {"ask", "try"})
    BY <1>1, <2>2 DEF After, AfterLookup, AfterStore
  <2> QED BY <1>2, <2>1, <2>3, <2>4
<1> QED BY <1>1, <1>7, <1>8, <1>9, <1>10, <1>11, <1>12, <1>13, <1>14, <1>15, AskCounts DEF StepOf, LoadStep

Counting == \A s \in Loaders : Counts(s)

LEMMA OthersCount ==
    ASSUME Types, NEW p \in Procs, Aside(p), onDismiss' = onDismiss,
           NEW s \in Loaders, s # p, Counts(s)
    PROVE  Counts(s)'
<1>1. s \in Procs \ {p} BY DEF Procs
<1> QED BY <1>1 DEF Aside, Counts, Ahead, Here, NeverTooOften, Looking, Untouched

LEMMA SettingStays == ASSUME Next PROVE onDismiss' = onDismiss
<1>1. ASSUME NEW p \in Procs, StepOf(p) PROVE onDismiss' = onDismiss
  BY <1>1 DEF StepOf, LoadBegins, LoadStep, Skip, Consider, BatchEnds, LockUp, EnsureUnlocked,
         TryStored, Ask, AddTyped, Loaded, Exhausted, BrokerStep, BrokerVerifies, BrokerAsks,
         BrokerChecks, BrokerBegins, WalletStep, Bracket, WalletAnswers, Relock, Fine, Mishap
<1>2. ASSUME Outside PROVE onDismiss' = onDismiss
  BY <1>2 DEF Outside, Killed, KeyLeavesAgent, RetryWindowPasses, KeyReencrypted, Mishap
<1> QED BY <1>1, <1>2, NextIs

LEMMA CountingStep == ASSUME Types, Counting, [Next]_vars PROVE Counting'
<1> USE DEF Counting
<1>1. CASE UNCHANGED vars
  BY <1>1 DEF vars, world, mine, Counts, Ahead, Here, NeverTooOften, Looking, Untouched
<1>2. ASSUME Next, NEW p \in Procs, StepOf(p) PROVE Counting'
  <2>1. Aside(p) /\ onDismiss' = onDismiss BY <1>2, OthersStay, SettingStays
  <2>2. \A s \in Loaders : s # p => Counts(s)' BY <2>1, OthersCount
  <2>3. p \in Loaders => Counts(p)' BY <1>2, LoaderCounts
  <2> QED BY <2>2, <2>3
<1>3. ASSUME Next, Outside, NEW s \in Loaders PROVE Counts(s)'
  <2>1. s \in Procs BY DEF Procs
  <2>2. onDismiss' = onDismiss /\ mine' = mine
    BY <1>3, SettingStays DEF Outside, Killed, KeyLeavesAgent, RetryWindowPasses, KeyReencrypted
  <2>3. pc'[s] = pc[s] \/ pc'[s] = "killed"
    BY <1>3, <2>1 DEF Outside, Killed, KeyLeavesAgent, RetryWindowPasses, KeyReencrypted, Goto,
                      Types, PlaceTypes
  <2> QED BY <2>2, <2>3 DEF mine, Counts, Ahead, Here, NeverTooOften, Looking, Untouched, AtKey,
             Working, WalletSteps, LoaderSteps, BrokerSteps
<1> QED BY <1>1, <1>2, <1>3, NextIs

LEMMA CountingHolds == Spec => []Counting
<1>1. Init => Counting
  BY DEF Init, Counting, Counts, Ahead, Here, NeverTooOften, Looking, Untouched, AtKey, Working,
         WalletSteps, LoaderSteps, BrokerSteps, Procs
<1>2. Types /\ Counting /\ [Next]_vars => Counting' BY CountingStep
<1> QED BY <1>1, <1>2, TypesHold, PTL DEF Spec

(* No load-keys asks about a key more often than configured, whatever mix   *)
(* of wrong answers, blank ones and dismissals it gets (F8).                *)
THEOREM NeverAskedTooOften == Spec => []AskedAtMost
<1>1. Counting => AskedAtMost BY DEF Counting, Counts, NeverTooOften, AskedAtMost
<1> QED BY <1>1, CountingHolds, PTL

-----------------------------------------------------------------------------
(* What a key is given up on for.                                           *)

AskedOut(s, k) == asks[s][k] = MaxAttempts /\ (onDismiss = "retry" \/ k \notin dismissed[s])

(* Only a question changes what has been asked and turned down.             *)
LEMMA AsksIs ==
    ASSUME Types, NEW p \in Procs, StepOf(p)
    PROVE  \/ asks' = asks /\ dismissed' = dismissed
           \/ /\ pc[p] = "ask" /\ key[p] \in Keys
              /\ Asked(p)
              /\ \A k \in Keys : k # key[p] => (k \in dismissed'[p] <=> k \in dismissed[p])
<1>1. CASE Ask(p) \/ BrokerAsks(p)
  <2>1. pc[p] = "ask" BY <1>1 DEF Ask, BrokerAsks, At
  <2>2. key[p] \in Keys
    BY <2>1 DEF Types, PlaceTypes, KeysAt, KeyAt, AtKey, Working, LoaderSteps
  <2>3. dismissed' = dismissed \/ dismissed' = [dismissed EXCEPT ![p] = @ \cup {key[p]}]
    BY <1>1 DEF Ask, BrokerAsks, Typed, Blank, Dismissed
  <2>4. \A k \in Keys : k # key[p] => (k \in dismissed'[p] <=> k \in dismissed[p])
    BY <2>3 DEF Types, MineTypes
  <2>5. Asked(p) \/ (asks' = asks /\ dismissed' = dismissed)
    BY <1>1 DEF Ask, BrokerAsks
  <2> QED BY <2>1, <2>2, <2>4, <2>5
<1>2. CASE \/ LoadBegins(p) \/ Skip(p) \/ Consider(p) \/ BatchEnds(p) \/ LockUp(p)
           \/ EnsureUnlocked(p) \/ TryStored(p) \/ AddTyped(p) \/ Loaded(p) \/ Exhausted(p)
  BY <1>2 DEF LoadBegins, Skip, Consider, BatchEnds, LockUp, EnsureUnlocked, WalletOnly,
              TryStored, AddTyped, Loaded, Exhausted, mine
<1>3. CASE \/ BrokerVerifies(p) \/ BrokerChecks(p) \/ WalletStep(p)
           \/ \E k \in Keys : BrokerBegins(p, k)
  BY <1>3 DEF BrokerVerifies, BrokerChecks, WalletStep, Bracket, WalletAnswers, Relock, WalletOnly,
              BrokerBegins, mine
<1> QED BY <1>1, <1>2, <1>3 DEF StepOf, LoadStep, BrokerStep

LEMMA AskedOutStays ==
    ASSUME Types, Counting, NEW p \in Procs, StepOf(p), onDismiss' = onDismiss,
           NEW s \in Loaders, NEW k \in Keys, AskedOut(s, k)
    PROVE  AskedOut(s, k)'
<1>1. s \in Procs BY DEF Procs
<1>2. CASE s # p BY <1>1, <1>2, OthersStay DEF Aside, AskedOut
<1>3. CASE asks' = asks /\ dismissed' = dismissed BY <1>3 DEF AskedOut
<1>4. CASE /\ s = p /\ pc[p] = "ask" /\ key[p] \in Keys /\ Asked(p)
           /\ \A j \in Keys : j # key[p] => (j \in dismissed'[p] <=> j \in dismissed[p])
  <2>1. asks[s][key[s]] = attempt[s] - 1 BY <1>4 DEF Counting, Counts, Here
  <2>2. attempt[s] \in 0..MaxAttempts BY <1>1 DEF Types, MineTypes
  <2>3. k # key[p] BY <1>4, <2>1, <2>2 DEF AskedOut
  <2>4. asks'[s][k] = asks[s][k] BY <1>1, <1>4, <2>3, AskedIs
  <2> QED BY <1>4, <2>3, <2>4 DEF AskedOut
<1> QED BY <1>2, <1>3, <1>4, AsksIs

LEMMA GiveupIs ==
    ASSUME Types, NEW p \in Procs, StepOf(p), NEW k \in Keys, giveup'[k] = "fresh"
    PROVE  giveup[k] = "fresh" \/ (p \in Loaders /\ pc[p] = "exhausted" /\ key[p] = k)
<1> USE DEF Types, WorldTypes, world
<1>1. CASE LoadBegins(p) \/ Skip(p) BY <1>1 DEF LoadBegins, Skip
<1>2. CASE Consider(p) BY <1>2 DEF Consider, SetGiveup
<1>3. CASE BatchEnds(p) \/ LockUp(p) \/ EnsureUnlocked(p) \/ TryStored(p)
  BY <1>3 DEF BatchEnds, LockUp, EnsureUnlocked, WalletOnly, TryStored
<1>4. CASE Ask(p) \/ AddTyped(p) BY <1>4 DEF Ask, AddTyped
<1>5. CASE Loaded(p) BY <1>5 DEF Loaded, SetGiveup
<1>6. CASE p \in Loaders /\ Exhausted(p) BY <1>6 DEF Exhausted, SetGiveup, At
<1>7. CASE BrokerStep(p) \/ \E j \in Keys : BrokerBegins(p, j)
  BY <1>7 DEF BrokerStep, BrokerVerifies, BrokerAsks, BrokerChecks, BrokerBegins
<1>8. CASE WalletStep(p)
  BY <1>8 DEF WalletStep, Bracket, WalletAnswers, Relock, WalletOnly
<1> QED BY <1>1, <1>2, <1>3, <1>4, <1>5, <1>6, <1>7, <1>8 DEF StepOf, LoadStep

GivenUpFor == \A k \in Keys : giveup[k] = "fresh" => \E s \in Loaders : AskedOut(s, k)

LEMMA GivenUpForStep ==
    ASSUME Types, Counting, GivenUpFor, [Next]_vars PROVE GivenUpFor'
<1>1. CASE UNCHANGED vars BY <1>1 DEF vars, world, mine, GivenUpFor, AskedOut
<1>2. ASSUME Next, NEW p \in Procs, StepOf(p), NEW k \in Keys, giveup'[k] = "fresh"
      PROVE  \E s \in Loaders : AskedOut(s, k)'
  <2>1. onDismiss' = onDismiss BY <1>2, SettingStays
  <2>2. PICK s \in Loaders : AskedOut(s, k)
    <3>1. CASE giveup[k] = "fresh" BY <3>1 DEF GivenUpFor
    <3>2. CASE p \in Loaders /\ pc[p] = "exhausted" /\ key[p] = k
      <4>1. pc[p] \in AtKey BY <3>2 DEF AtKey, Working, LoaderSteps
      <4>2. Here(p) BY <3>2 DEF Counting, Counts
      <4> QED BY <3>2, <4>1, <4>2 DEF Here, AskedOut
    <3> QED BY <1>2, <3>1, <3>2, GiveupIs
  <2> QED BY <1>2, <2>1, <2>2, AskedOutStays
<1>3. ASSUME Next, Outside PROVE GivenUpFor'
  <2>1. mine' = mine /\ onDismiss' = onDismiss
    BY <1>3, SettingStays DEF Outside, Killed, KeyLeavesAgent, RetryWindowPasses, KeyReencrypted
  <2>2. \A k \in Keys : giveup'[k] = "fresh" => giveup[k] = "fresh"
    BY <1>3 DEF Outside, Killed, KeyLeavesAgent, RetryWindowPasses, KeyReencrypted, SetGiveup,
                Types, WorldTypes
  <2> QED BY <2>1, <2>2 DEF mine, GivenUpFor, AskedOut
<1> QED BY <1>1, <1>2, <1>3, NextIs DEF GivenUpFor

(* A key is given up on only after one batch asked about it as often as it  *)
(* may, and was not turned down for it (F8, F38).                           *)
THEOREM GivenUpForAReason == Spec => []GivenUpOnlyAfterAsking
<1>1. Init => GivenUpFor BY DEF Init, GivenUpFor
<1>2. Types /\ Counting /\ GivenUpFor /\ [Next]_vars => GivenUpFor' BY GivenUpForStep
<1>3. GivenUpFor => GivenUpOnlyAfterAsking BY DEF GivenUpFor, GivenUpOnlyAfterAsking, AskedOut
<1> QED BY <1>1, <1>2, <1>3, TypesHold, CountingHolds, PTL DEF Spec

-----------------------------------------------------------------------------
(* A key that is given up on stays quiet.                                   *)

QuietGivenUp == \A p \in Procs : \A k \in quiet[p] : giveup[k] = "fresh"
QuietSkipped == \A s \in Loaders : pc[s] \in AtKey => key[s] \notin quiet[s]
Quiet == QuietGivenUp /\ QuietSkipped

LEMMA SetGiveupIs ==
    ASSUME Types, QuietGivenUp, NEW k \in Keys, NEW r, SetGiveup(k, r)
    PROVE  QuietGivenUp' /\ \A q \in Procs : quiet'[q] \subseteq quiet[q]
BY DEF Types, WorldTypes, QuietGivenUp, SetGiveup

LEMMA QuietIs ==
    ASSUME Types, Quiet, NEW p \in Procs, StepOf(p)
    PROVE  /\ QuietGivenUp'
           /\ \A q \in Procs : quiet'[q] \subseteq quiet[q] \/ (q = p /\ LoadBegins(p))
           /\ p \in Loaders /\ pc'[p] \in AtKey => key'[p] \notin quiet'[p]
<1> USE DEF world, mine, At, Goto
<1>0. pc[p] \in AtKey => key[p] \in Keys BY DEF Types, PlaceTypes, KeysAt, KeyAt
<1>1. CASE LoadBegins(p)
  <2>1. \A q \in Procs : quiet'[q] = IF q = p THEN {k \in Keys : giveup[k] = "fresh"} ELSE quiet[q]
    BY <1>1 DEF LoadBegins, Types, WorldTypes
  <2>2. giveup' = giveup BY <1>1 DEF LoadBegins
  <2>3. pc'[p] \in {"next", "done"} BY <1>1 DEF LoadBegins, Types, PlaceTypes
  <2>4. pc'[p] \notin AtKey
    BY <2>3 DEF AtKey, Working, WalletSteps, LoaderSteps, BrokerSteps
  <2>5. QuietGivenUp' BY <2>1, <2>2 DEF Quiet, QuietGivenUp
  <2>6. \A q \in Procs : quiet'[q] \subseteq quiet[q] \/ (q = p /\ LoadBegins(p))
    BY <1>1, <2>1
  <2> QED BY <2>4, <2>5, <2>6
<1>2. CASE Consider(p)
  <2>1. key[p] \in Keys /\ key' = key
    BY <1>2 DEF Consider, Types, PlaceTypes, KeysAt, KeyAt, Keys
  <2>2. giveup[key[p]] # "fresh" BY <1>2 DEF Consider, Skipped, GivenUp
  <2>3. QuietGivenUp' /\ \A q \in Procs : quiet'[q] \subseteq quiet[q]
    BY <1>2, <2>1, SetGiveupIs DEF Consider, Quiet
  <2>4. key[p] \notin quiet[p] BY <2>2 DEF Quiet, QuietGivenUp
  <2> QED BY <2>1, <2>3, <2>4
<1>3. CASE Loaded(p) \/ Exhausted(p)
  <2>1. key[p] \in Keys
    BY <1>0, <1>3 DEF Loaded, Exhausted, AtKey, Working, LoaderSteps
  <2>2. QuietGivenUp' /\ \A q \in Procs : quiet'[q] \subseteq quiet[q]
    BY <1>3, <2>1, SetGiveupIs DEF Loaded, Exhausted, Quiet
  <2>3. pc'[p] = "next" BY <1>3 DEF Loaded, Exhausted, NextKey, Types, PlaceTypes
  <2>4. pc'[p] \notin AtKey BY <2>3 DEF AtKey
  <2> QED BY <2>2, <2>4
<1>4. CASE \/ Skip(p) \/ BatchEnds(p) \/ LockUp(p) \/ EnsureUnlocked(p) \/ TryStored(p)
           \/ Ask(p) \/ AddTyped(p) \/ WalletStep(p)
  <2>1. giveup' = giveup /\ quiet' = quiet
    BY <1>4 DEF Skip, BatchEnds, LockUp, EnsureUnlocked, TryStored, Ask, AddTyped,
                WalletStep, Bracket, WalletAnswers, Relock, WalletOnly
  <2>2. pc[p] \in AtKey \/ pc'[p] \in {"next", "lock", "done"}
    BY <1>4 DEF Skip, BatchEnds, LockUp, EnsureUnlocked, TryStored, Ask, AddTyped, NextKey,
                WalletStep, Bracket, WalletAnswers, Relock, AtKey, Working, WalletSteps,
                LoaderSteps, Types, PlaceTypes
  <2>3. key' = key \/ pc'[p] = "next"
    BY <1>4 DEF Skip, BatchEnds, LockUp, EnsureUnlocked, TryStored, Ask, AddTyped, NextKey,
                WalletStep, Bracket, WalletAnswers, Relock, WalletOnly, Abandon, Typed, Blank,
                Dismissed, Types, PlaceTypes
  <2>4. "done" \notin AtKey
    BY DEF AtKey, Working, WalletSteps, LoaderSteps, BrokerSteps
  <2> QED BY <2>1, <2>2, <2>3, <2>4 DEF Quiet, QuietGivenUp, QuietSkipped, AtKey
<1>5. CASE p \in Brokers /\ (BrokerStep(p) \/ \E k \in Keys : BrokerBegins(p, k))
  <2>1. giveup' = giveup /\ quiet' = quiet
    BY <1>5 DEF BrokerStep, BrokerVerifies, BrokerAsks, BrokerChecks, BrokerBegins
  <2>2. p \notin Loaders BY <1>5
  <2> QED BY <2>1, <2>2 DEF Quiet, QuietGivenUp
<1> QED BY <1>1, <1>2, <1>3, <1>4, <1>5 DEF StepOf, LoadStep

LEMMA QuietStep == ASSUME Types, Quiet, [Next]_vars PROVE Quiet'
<1>1. CASE UNCHANGED vars
  BY <1>1 DEF vars, world, mine, Quiet, QuietGivenUp, QuietSkipped
<1>2. ASSUME NEW p \in Procs, StepOf(p) PROVE Quiet'
  <2>1. ASSUME NEW s \in Loaders, pc'[s] \in AtKey PROVE key'[s] \notin quiet'[s]
    <3>1. CASE s = p BY <1>2, <2>1, <3>1, QuietIs
    <3>2. CASE s # p
      <4>1. s \in Procs BY DEF Procs
      <4>2. pc'[s] = pc[s] /\ key'[s] = key[s] BY <1>2, <3>2, <4>1, OthersStay DEF Aside
      <4>3. quiet'[s] \subseteq quiet[s] BY <1>2, <3>2, <4>1, QuietIs
      <4> QED BY <2>1, <4>2, <4>3 DEF Quiet, QuietSkipped
    <3> QED BY <3>1, <3>2
  <2> QED BY <1>2, <2>1, QuietIs DEF Quiet, QuietSkipped
<1>3. ASSUME Outside PROVE Quiet'
  <2>1. \A s \in Procs : pc'[s] = pc[s] \/ pc'[s] = "killed"
    BY <1>3 DEF Outside, Killed, KeyLeavesAgent, RetryWindowPasses, KeyReencrypted, Goto,
                Types, PlaceTypes
  <2>2. key' = key
    BY <1>3 DEF Outside, Killed, KeyLeavesAgent, RetryWindowPasses, KeyReencrypted, mine
  <2>3. QuietGivenUp' /\ \A q \in Procs : quiet'[q] \subseteq quiet[q]
    <3>1. CASE \E k \in Keys : RetryWindowPasses(k)
      BY <3>1, SetGiveupIs DEF RetryWindowPasses, Quiet
    <3>2. CASE UNCHANGED <<giveup, quiet>> BY <3>2 DEF Quiet, QuietGivenUp
    <3> QED BY <1>3, <3>1, <3>2 DEF Outside, Killed, KeyLeavesAgent, KeyReencrypted
  <2>4. "killed" \notin AtKey
    BY DEF AtKey, Working, WalletSteps, LoaderSteps, BrokerSteps
  <2> QED BY <2>1, <2>2, <2>3, <2>4 DEF Quiet, QuietSkipped, Procs
<1> QED BY <1>1, <1>2, <1>3, NextIs

LEMMA OnlyAsk ==
    ASSUME Types, [Next]_vars, NEW s \in Loaders, NEW k \in Keys, AsksAbout(s, k)
    PROVE  pc[s] = "ask" /\ k = key[s]
<1>1. s \in Procs BY DEF Procs
<1>2. asks' # asks BY DEF AsksAbout
<1>3. PICK p \in Procs : StepOf(p)
  BY <1>2, NextIs DEF vars, mine, Outside, Killed, KeyLeavesAgent, RetryWindowPasses,
                      KeyReencrypted
<1>4. s = p BY <1>1, <1>3, OthersStay DEF Aside, AsksAbout
<1>5. pc[s] = "ask" /\ key[s] \in Keys /\ Asked(s) BY <1>2, <1>3, <1>4, AsksIs
<1>6. k = key[s] BY <1>1, <1>5, AskedIs DEF AsksAbout
<1> QED BY <1>5, <1>6

(* No shell asks about a key that was given up on before it opened, for as  *)
(* long as the record stands (F8).                                          *)
THEOREM StaysQuiet == Spec => GivenUpStaysQuiet
<1>1. Init => Quiet
  BY DEF Init, Quiet, QuietGivenUp, QuietSkipped, AtKey, Working, WalletSteps, LoaderSteps,
         BrokerSteps, Procs
<1>2. Types /\ Quiet /\ [Next]_vars => Quiet' BY QuietStep
<1>3. ASSUME Types, Quiet, [Next]_vars, NEW s \in Loaders, NEW k \in Keys, AsksAbout(s, k)
      PROVE  k \notin quiet[s]
  <2>1. pc[s] = "ask" /\ k = key[s] BY <1>3, OnlyAsk
  <2> QED BY <1>3, <2>1 DEF Quiet, QuietSkipped, AtKey, Working, LoaderSteps
<1>4. Types /\ Quiet /\ [Next]_vars =>
        \A s \in Loaders, k \in Keys : AsksAbout(s, k) => k \notin quiet[s]
  BY <1>3
<1> QED BY <1>1, <1>2, <1>4, TypesHold, PTL DEF Spec, GivenUpStaysQuiet

-----------------------------------------------------------------------------
(* A dismissal is taken for an answer.                                      *)

Going == {"idle"} \cup (Working \ {"lock"})
StopEnds(s) == onDismiss = "stop" /\ pc[s] \in Going => dismissed[s] = {}
AllStopEnds == \A s \in Loaders : StopEnds(s)

LEMMA DismissedIs ==
    ASSUME Types, NEW p \in Procs, StepOf(p), onDismiss = "stop"
    PROVE  (pc[p] \in Going /\ dismissed' = dismissed) \/ pc'[p] \in {"lock", "done"}
<1> USE DEF Going, Working, WalletSteps, LoaderSteps, BrokerSteps, At, Goto, mine
<1>1. CASE Ask(p)
  <2>1. pc[p] = "ask" BY <1>1 DEF Ask
  <2>2. CASE Dismissed(p)
    <3>1. pc'[p] \in {"lock", "done"} BY <2>2 DEF Dismissed, Types, PlaceTypes
    <3> QED BY <3>1
  <2>3. CASE dismissed' = dismissed BY <2>1, <2>3
  <2> QED BY <1>1, <2>2, <2>3 DEF Ask, Typed, Blank
<1>2. CASE BatchEnds(p) \/ LockUp(p)
  BY <1>2 DEF BatchEnds, LockUp, Types, PlaceTypes
<1>3. CASE LoadBegins(p) \/ Skip(p) \/ Consider(p) \/ EnsureUnlocked(p)
  BY <1>3 DEF LoadBegins, Skip, Consider, EnsureUnlocked, WalletOnly
<1>4. CASE TryStored(p) \/ AddTyped(p) \/ Loaded(p) \/ Exhausted(p)
  BY <1>4 DEF TryStored, AddTyped, Loaded, Exhausted
<1>5. CASE BrokerStep(p) \/ \E k \in Keys : BrokerBegins(p, k)
  BY <1>5 DEF BrokerStep, BrokerVerifies, BrokerAsks, BrokerChecks, BrokerBegins
<1>6. CASE WalletStep(p)
  BY <1>6 DEF WalletStep, Bracket, WalletAnswers, Relock, WalletOnly
<1> QED BY <1>1, <1>2, <1>3, <1>4, <1>5, <1>6 DEF StepOf, LoadStep

LEMMA StopEndsStep == ASSUME Types, AllStopEnds, [Next]_vars PROVE AllStopEnds'
<1> USE DEF AllStopEnds
<1>1. CASE UNCHANGED vars BY <1>1 DEF vars, mine, StopEnds
<1>2. ASSUME Next, NEW p \in Procs, StepOf(p), NEW s \in Loaders PROVE StopEnds(s)'
  <2>1. onDismiss' = onDismiss /\ s \in Procs BY <1>2, SettingStays DEF Procs
  <2>2. CASE s # p BY <1>2, <2>1, <2>2, OthersStay DEF Aside, StopEnds
  <2>3. CASE s = p
    <3>1. "lock" \notin Going /\ "done" \notin Going
      BY DEF Going, Working, WalletSteps, LoaderSteps, BrokerSteps
    <3> QED BY <1>2, <2>1, <2>3, <3>1, DismissedIs DEF StopEnds
  <2> QED BY <2>2, <2>3
<1>3. ASSUME Next, Outside, NEW s \in Loaders PROVE StopEnds(s)'
  <2>1. onDismiss' = onDismiss /\ s \in Procs BY <1>3, SettingStays DEF Procs
  <2>2. dismissed' = dismissed /\ (pc'[s] = pc[s] \/ pc'[s] = "killed")
    BY <1>3, <2>1 DEF Outside, Killed, KeyLeavesAgent, RetryWindowPasses, KeyReencrypted, Goto,
                      mine, Types, PlaceTypes
  <2>3. "killed" \notin Going
    BY DEF Going, Working, WalletSteps, LoaderSteps, BrokerSteps
  <2> QED BY <2>1, <2>2, <2>3 DEF StopEnds
<1> QED BY <1>1, <1>2, <1>3, NextIs

(* A dismissal is the last question of the batch under "stop", and the last *)
(* about that key under "skip" (F38).                                       *)
THEOREM NoIsTakenForNo == Spec => TakesNoForAnAnswer
<1>1. Init => AllStopEnds BY DEF Init, AllStopEnds, StopEnds, Procs
<1>2. Types /\ AllStopEnds /\ [Next]_vars => AllStopEnds' BY StopEndsStep
<1>3. ASSUME Types, Counting, AllStopEnds, [Next]_vars,
             NEW s \in Loaders, NEW k \in Keys, AsksAbout(s, k)
      PROVE  /\ onDismiss = "stop" => dismissed[s] = {}
             /\ onDismiss = "skip" => k \notin dismissed[s]
  <2>1. pc[s] = "ask" /\ k = key[s] BY <1>3, OnlyAsk
  <2>2. pc[s] \in AtKey /\ pc[s] \in Going BY <2>1 DEF AtKey, Going, Working, LoaderSteps
  <2>3. onDismiss = "stop" => dismissed[s] = {} BY <1>3, <2>2 DEF AllStopEnds, StopEnds
  <2>4. onDismiss = "skip" => k \notin dismissed[s]
    BY <1>3, <2>1, <2>2 DEF Counting, Counts, Here
  <2> QED BY <2>3, <2>4
<1>4. Types /\ Counting /\ AllStopEnds /\ [Next]_vars =>
        \A s \in Loaders, k \in Keys : AsksAbout(s, k) =>
            /\ onDismiss = "stop" => dismissed[s] = {}
            /\ onDismiss = "skip" => k \notin dismissed[s]
  BY <1>3
<1> QED BY <1>1, <1>2, <1>4, TypesHold, CountingHolds, PTL DEF Spec, TakesNoForAnAnswer
=============================================================================
