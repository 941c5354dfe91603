--------------------------- MODULE SessionProofs ----------------------------
(***************************************************************************)
(* Theorems about what the processes of a session share: the passphrase    *)
(* handoff, the session log, and the agent that is a service, for any      *)
(* number of passphrases, of shells that write, and of logins, and however *)
(* often something goes wrong; and, at the end, the types of the small     *)
(* parts beside each other.                                                *)
(***************************************************************************)
EXTENDS MCParts, MoveKeysProofs, SetupProofs

(* The bounds of the three models are numbers.                             *)
LEMMA Bounds ==
    /\ MaxAdds \in Nat /\ MaxMisfortunes \in Nat
    /\ LogMaxLines \in Nat /\ MaxLogged \in Nat /\ MaxLogMisfortunes \in Nat
    /\ PollBudget \in Nat /\ MaxSvTroubles \in Nat
BY HandoffAssumption, SessionLogAssumption, AgentServiceAssumption

USE Bounds, WritersAssumption

-----------------------------------------------------------------------------
(* The handoff.                                                            *)

LEMMA InitHandoffTypes == HandoffInit => HandoffTypeOK
<1> SUFFICES ASSUME HandoffInit PROVE HandoffTypeOK
  OBVIOUS
<1>1. hoUnlucky \in 0..MaxMisfortunes
  BY DEF HandoffInit
<1>2. {hoTimed, hoDue, hoRight, hoLoaded} \subseteq SUBSET Tokens
  BY Zenon DEF HandoffInit
<1> QED BY <1>1, <1>2 DEF HandoffInit, HandoffTypeOK

LEMMA NextHandoffTypes == HandoffTypeOK /\ [HandoffNext]_hoVars => HandoffTypeOK'
<1> SUFFICES ASSUME HandoffTypeOK, [HandoffNext]_hoVars PROVE HandoffTypeOK'
  OBVIOUS
<1> USE DEF HandoffTypeOK, hoVars, hoStore, Moved, Misfortune, Ends, Answered
<1>1. CASE UNCHANGED hoVars
  BY <1>1
<1>2. CASE LoaderKilled
  BY <1>2 DEF LoaderKilled
<1>3. ASSUME NEW t \in Tokens, Stashes(t) \/ CannotStash(t)
      PROVE  HandoffTypeOK'
  BY <1>3 DEF Stashes, CannotStash, SetsExpiry
<1>4. ASSUME NEW t \in Tokens, AddTimesOut(t) \/ SshAddSteps(t)
      PROVE  HandoffTypeOK'
  BY <1>4 DEF AddTimesOut, SshAddSteps, AsksHelper, HearsHelper, Exits
<1>5. ASSUME NEW t \in Tokens, FetchTimesOut(t) \/ HelperKilled(t) \/ HelperSteps(t)
      PROVE  HandoffTypeOK'
  BY <1>5 DEF FetchTimesOut, HelperKilled, HelperSteps, ReadsEntry, Unlinks, Unlinked,
     FindsNothing, Dials, GetsNothing
<1>6. ASSUME NEW t \in Tokens, ServerSteps(t) \/ Elapses(t)
      PROVE  HandoffTypeOK'
  BY <1>6 DEF ServerSteps, Accepts, Serves, GivesUp, MayGiveUp, Closes, Elapses
<1> QED BY <1>1, <1>2, <1>3, <1>4, <1>5, <1>6 DEF HandoffNext

(* The variables of the handoff keep their types, for any number of keys   *)
(* and of misfortunes.                                                     *)
THEOREM HandoffTypes == HandoffSpec => []HandoffTypeOK
BY InitHandoffTypes, NextHandoffTypes, PTL DEF HandoffSpec

(* A token is where it was put, or about to be, or in a helper's hands ... *)
Unspent(t) ==
    \/ hoPlace[t] \in {"none", "entry", "listening", "accepted"}
    \/ hoHelper[t] = "read"

(* ... or told; and what has been told, and may yet be, is never more than *)
(* the one passphrase and the failures to unlink it.                       *)
Tellings(t) ==
    hoTried[t] + (IF hoHelper[t] = "told" THEN 1 ELSE 0)
               + (IF Unspent(t) THEN 1 ELSE 0)

NotBegun ==
    \A t \in Tokens : hoAdd[t] = "idle" => hoPlace[t] = "none" /\ hoHelper[t] = "none"

FewTellings == \A t \in Tokens : Tellings(t) <= 1 + hoUnlucky

HandoffSound == NotBegun /\ FewTellings

LEMMA InitHandoffSound == HandoffInit => HandoffSound
BY DEF HandoffInit, HandoffSound, NotBegun, FewTellings, Tellings, Unspent

LEMMA NextNotBegun == HandoffTypeOK /\ NotBegun /\ [HandoffNext]_hoVars => NotBegun'
<1> SUFFICES ASSUME HandoffTypeOK, NotBegun, [HandoffNext]_hoVars,
                    NEW u \in Tokens, hoAdd'[u] = "idle"
             PROVE  hoPlace'[u] = "none" /\ hoHelper'[u] = "none"
  BY DEF NotBegun
<1> USE DEF HandoffTypeOK, NotBegun, hoVars, hoStore, Moved, Misfortune, Ends, Answered
<1>1. CASE UNCHANGED hoVars
  BY <1>1
<1>2. CASE LoaderKilled
  BY <1>2 DEF LoaderKilled
<1>3. ASSUME NEW t \in Tokens, Stashes(t) \/ CannotStash(t)
      PROVE  hoPlace'[u] = "none" /\ hoHelper'[u] = "none"
  BY <1>3 DEF Stashes, CannotStash, SetsExpiry
<1>4. ASSUME NEW t \in Tokens, AddTimesOut(t) \/ SshAddSteps(t)
      PROVE  hoPlace'[u] = "none" /\ hoHelper'[u] = "none"
  BY <1>4 DEF AddTimesOut, SshAddSteps, AsksHelper, HearsHelper, Exits
<1>5. ASSUME NEW t \in Tokens, FetchTimesOut(t) \/ HelperKilled(t) \/ HelperSteps(t)
      PROVE  hoPlace'[u] = "none" /\ hoHelper'[u] = "none"
  BY <1>5 DEF FetchTimesOut, HelperKilled, HelperSteps, ReadsEntry, Unlinks, Unlinked,
     FindsNothing, Dials, GetsNothing
<1>6. ASSUME NEW t \in Tokens, ServerSteps(t) \/ Elapses(t)
      PROVE  hoPlace'[u] = "none" /\ hoHelper'[u] = "none"
  BY <1>6 DEF ServerSteps, Accepts, Serves, GivesUp, MayGiveUp, Closes, Elapses
<1> QED BY <1>1, <1>2, <1>3, <1>4, <1>5, <1>6 DEF HandoffNext

(* A step adds to what may be told by no more than to what went wrong.     *)
LEMMA NextFewTellings ==
    HandoffTypeOK /\ HandoffSound /\ [HandoffNext]_hoVars => FewTellings'
<1> SUFFICES ASSUME HandoffTypeOK, HandoffSound, [HandoffNext]_hoVars, NEW u \in Tokens
             PROVE  (Tellings(u) <= 1 + hoUnlucky)'
  BY DEF FewTellings
<1> USE DEF HandoffTypeOK, hoVars, hoStore, Moved, Misfortune, Ends, Answered
<1>0. /\ Tellings(u) <= 1 + hoUnlucky
      /\ hoAdd[u] = "idle" => hoPlace[u] = "none" /\ hoHelper[u] = "none"
  BY DEF HandoffSound, NotBegun, FewTellings
<1>1. CASE UNCHANGED hoVars
  BY <1>0, <1>1 DEF Tellings, Unspent
<1>2. CASE LoaderKilled
  BY <1>0, <1>2 DEF LoaderKilled, Tellings, Unspent
<1>3. ASSUME NEW t \in Tokens, Stashes(t) \/ CannotStash(t)
      PROVE  (Tellings(u) <= 1 + hoUnlucky)'
  BY <1>0, <1>3 DEF Stashes, CannotStash, SetsExpiry, Tellings, Unspent
<1>4. ASSUME NEW t \in Tokens, AddTimesOut(t) \/ SshAddSteps(t)
      PROVE  (Tellings(u) <= 1 + hoUnlucky)'
  BY <1>0, <1>4 DEF AddTimesOut, SshAddSteps, AsksHelper, HearsHelper, Exits, Tellings, Unspent
<1>5. ASSUME NEW t \in Tokens, FetchTimesOut(t) \/ HelperKilled(t) \/ HelperSteps(t)
      PROVE  (Tellings(u) <= 1 + hoUnlucky)'
  BY <1>0, <1>5 DEF FetchTimesOut, HelperKilled, HelperSteps, ReadsEntry, Unlinks, Unlinked,
     FindsNothing, Dials, GetsNothing, Tellings, Unspent
<1>6. ASSUME NEW t \in Tokens, ServerSteps(t) \/ Elapses(t)
      PROVE  (Tellings(u) <= 1 + hoUnlucky)'
  BY <1>0, <1>6 DEF ServerSteps, Accepts, Serves, GivesUp, MayGiveUp, Closes, Elapses, Tellings,
     Unspent
<1> QED BY <1>1, <1>2, <1>3, <1>4, <1>5, <1>6 DEF HandoffNext

(* ssh-add is told a passphrase once, and once more at most for each call  *)
(* that failed and each process that was killed or stopped.                *)
THEOREM PassphrasesToldOnce == HandoffSpec => []ToldOnce
<1>1. HandoffTypeOK /\ HandoffSound /\ [HandoffNext]_hoVars => HandoffSound'
  BY NextNotBegun, NextFewTellings DEF HandoffSound
<1>2. HandoffTypeOK /\ HandoffSound => ToldOnce
  <2> SUFFICES ASSUME HandoffTypeOK, HandoffSound, NEW t \in Tokens
               PROVE  hoTried[t] <= 1 + hoUnlucky
    BY DEF ToldOnce
  <2>1. Tellings(t) <= 1 + hoUnlucky
    BY DEF HandoffSound, FewTellings
  <2> QED BY <2>1 DEF HandoffTypeOK, Tellings
<1> QED
  BY <1>1, <1>2, InitHandoffSound, HandoffTypes, PTL DEF HandoffSpec

-----------------------------------------------------------------------------
(* The session log.                                                        *)

LEMMA LastsOf ==
    ASSUME NEW S, NEW lines \in Seq(S), Len(lines) > LogMaxLines
    PROVE  /\ Lasts(lines) \in Seq(S)
           /\ Len(Lasts(lines)) = LogMaxLines
           /\ \A i \in 1..LogMaxLines :
                Lasts(lines)[i] = lines[Len(lines) - LogMaxLines + i]
BY DEF Lasts

LEMMA InitLogTypes == SessionLogInit => SessionLogTypeOK
<1> SUFFICES ASSUME SessionLogInit PROVE SessionLogTypeOK
  OBVIOUS
<1>1. slUnlucky \in 0..MaxLogMisfortunes /\ slAppended \in 0..MaxLogged
  BY DEF SessionLogInit
<1>2. slFile \in Seq(1..MaxLogged) /\ slRead \in [LogWriters -> Seq(1..MaxLogged)]
  BY DEF SessionLogInit
<1> QED BY <1>1, <1>2 DEF SessionLogInit, SessionLogTypeOK

LEMMA NextLogTypes == SessionLogTypeOK /\ [SessionLogNext]_slVars => SessionLogTypeOK'
<1> SUFFICES ASSUME SessionLogTypeOK, [SessionLogNext]_slVars PROVE SessionLogTypeOK'
  OBVIOUS
<1> USE DEF SessionLogTypeOK, SlGoes, SlUnlucky, LetsGo
<1>1. CASE UNCHANGED slVars
  BY <1>1 DEF slVars
<1>2. CASE SessionLogNext
  <2>1. /\ slAt' \in [LogWriters -> {"idle", "queue", "append", "read", "truncate", "write"}]
        /\ slLock' \in LogWriters \cup {NoWriter}
    BY <1>2 DEF SessionLogNext, Logs, Locks, GivesUpLock, Appends, ReadsBack, Truncates,
       WritesBack, EndsEarly
  <2>2. slUnlucky' \in 0..MaxLogMisfortunes
    BY <1>2 DEF SessionLogNext, Logs, Locks, GivesUpLock, Appends, ReadsBack, Truncates,
       WritesBack, EndsEarly
  <2>3. slTorn' \in BOOLEAN
    BY <1>2 DEF SessionLogNext, Logs, Locks, GivesUpLock, Appends, ReadsBack, Truncates,
       WritesBack, EndsEarly
  <2>4. slAppended' \in 0..MaxLogged /\ slHeld' \subseteq 1..slAppended'
    <3>1. ASSUME NEW w \in LogWriters, Appends(w)
          PROVE  slAppended' \in 0..MaxLogged /\ slHeld' \subseteq 1..slAppended'
      <4>1. /\ slAppended < MaxLogged /\ slAppended' = slAppended + 1
            /\ slHeld' \subseteq slHeld \cup {slAppended'}
        BY <3>1 DEF Appends
      <4> QED BY <4>1
    <3>2. (\E w \in LogWriters : Appends(w)) \/ UNCHANGED <<slAppended, slHeld>>
      BY <1>2 DEF SessionLogNext, Logs, Locks, GivesUpLock, ReadsBack, Truncates, WritesBack,
         EndsEarly
    <3> QED BY <3>1, <3>2
  <2>5. slFile' \in Seq(1..MaxLogged)
    <3>1. ASSUME NEW w \in LogWriters, Appends(w) PROVE slFile' \in Seq(1..MaxLogged)
      <4>1. slAppended' \in 1..MaxLogged /\ slFile' = Append(slFile, slAppended')
        BY <3>1 DEF Appends
      <4> QED BY <4>1
    <3>2. (\E w \in LogWriters : Appends(w))
          \/ slFile' = <<>> \/ slFile' = slFile \/ (\E w \in LogWriters : slFile' = slRead[w])
      BY <1>2 DEF SessionLogNext, Logs, Locks, GivesUpLock, ReadsBack, Truncates, WritesBack,
         EndsEarly
    <3>3. <<>> \in Seq(1..MaxLogged) /\ \A w \in LogWriters : slRead[w] \in Seq(1..MaxLogged)
      OBVIOUS
    <3> QED BY <3>1, <3>2, <3>3
  <2>6. slRead' \in [LogWriters -> Seq(1..MaxLogged)]
    <3>1. ASSUME NEW w \in LogWriters,
                 slRead' = [slRead EXCEPT ![w] = Lasts(slFile)] /\ Len(slFile) > LogMaxLines
          PROVE  slRead' \in [LogWriters -> Seq(1..MaxLogged)]
      BY <3>1, LastsOf
    <3>2. \/ \E w \in LogWriters : /\ slRead' = [slRead EXCEPT ![w] = Lasts(slFile)]
                                    /\ Len(slFile) > LogMaxLines
          \/ \E w \in LogWriters : slRead' = [slRead EXCEPT ![w] = <<>>]
          \/ slRead' = slRead
      BY <1>2 DEF SessionLogNext, Logs, Locks, GivesUpLock, Appends, ReadsBack, Truncates,
         WritesBack, EndsEarly
    <3>3. ASSUME NEW w \in LogWriters, slRead' = [slRead EXCEPT ![w] = <<>>]
          PROVE  slRead' \in [LogWriters -> Seq(1..MaxLogged)]
      BY <3>3
    <3> QED BY <3>1, <3>2, <3>3
  <2> QED BY <2>1, <2>2, <2>3, <2>4, <2>5, <2>6
<1> QED BY <1>1, <1>2

(* The variables of the log keep their types, for any number of shells and *)
(* of lines.                                                               *)
THEOREM SessionLogTypes == SessionLogSpec => []SessionLogTypeOK
BY InitLogTypes, NextLogTypes, PTL DEF SessionLogSpec

(* Whoever is trimming has the lock.                                        *)
TrimsUnderLock ==
    \A w \in LogWriters : slAt[w] \in {"read", "truncate", "write"} => slLock = w

(* Later lines are further down: of n lines that have been appended, at    *)
(* least as many came after a line as stand below it.                      *)
InOrder(lines, n) == \A i \in 1..Len(lines) : n - lines[i] >= Len(lines) - i
LinesInOrder == InOrder(slFile, slAppended)

StandsIn(line, lines) == line \in ToSet(lines) \/ slAppended - line >= LogMaxLines

(* What is to be written back still has every line that may not be lost.   *)
WrittenBackWhole ==
    \A w \in LogWriters :
        slAt[w] \in {"truncate", "write"} =>
            /\ InOrder(slRead[w], slAppended)
            /\ slTorn \/ \A line \in slHeld : StandsIn(line, slRead[w])

LogSound == TrimsUnderLock /\ LinesInOrder /\ WrittenBackWhole /\ HeldLinesStay

LEMMA InitLogSound == SessionLogInit => LogSound
BY DEF SessionLogInit, LogSound, TrimsUnderLock, LinesInOrder, InOrder, WrittenBackWhole,
   HeldLinesStay

LEMMA NextTrimsUnderLock ==
    SessionLogTypeOK /\ TrimsUnderLock /\ [SessionLogNext]_slVars => TrimsUnderLock'
BY DEF SessionLogTypeOK, TrimsUnderLock, SessionLogNext, slVars, SlGoes, LetsGo, Logs, Locks,
   GivesUpLock, Appends, MayTrim, ReadsBack, Truncates, WritesBack, EndsEarly

(* Lines in order stay in order when one more is appended, to them or to   *)
(* others.                                                                 *)
LEMMA AppendingKeepsOrder ==
    ASSUME NEW n \in Nat, NEW lines \in Seq(Nat), InOrder(lines, n)
    PROVE  InOrder(lines, n + 1) /\ InOrder(Append(lines, n + 1), n + 1)
<1>1. InOrder(lines, n + 1)
  BY DEF InOrder
<1>2. \A i \in 1..Len(Append(lines, n + 1)) :
        n + 1 - Append(lines, n + 1)[i] >= Len(Append(lines, n + 1)) - i
  <2> TAKE i \in 1..Len(Append(lines, n + 1))
  <2>1. Len(Append(lines, n + 1)) = Len(lines) + 1
    OBVIOUS
  <2>2. CASE i = Len(lines) + 1
    BY <2>1, <2>2
  <2>3. CASE i \in 1..Len(lines)
    <3>1. Append(lines, n + 1)[i] = lines[i] /\ lines[i] \in Nat
      BY <2>3
    <3>2. n - lines[i] >= Len(lines) - i
      BY <2>3 DEF InOrder
    <3> QED BY <2>1, <2>3, <3>1, <3>2, SMTT(30)
  <2> QED BY <2>1, <2>2, <2>3
<1> QED BY <1>1, <1>2 DEF InOrder

LEMMA LastsInOrder ==
    ASSUME NEW n \in Nat, NEW lines \in Seq(Nat), InOrder(lines, n), Len(lines) > LogMaxLines
    PROVE  InOrder(Lasts(lines), n)
<1> SUFFICES ASSUME NEW i \in 1..LogMaxLines
             PROVE  n - Lasts(lines)[i] >= LogMaxLines - i
  BY LastsOf DEF InOrder
<1>1. Lasts(lines)[i] = lines[Len(lines) - LogMaxLines + i]
  BY LastsOf
<1>2. Len(lines) - LogMaxLines + i \in 1..Len(lines)
  OBVIOUS
<1>3. n - lines[Len(lines) - LogMaxLines + i] >= Len(lines) - (Len(lines) - LogMaxLines + i)
  BY <1>2 DEF InOrder
<1> QED BY <1>1, <1>3

(* A line that is not among the last has as many below it.                 *)
LEMMA LastsHoldTheRecent ==
    ASSUME NEW n \in Nat, NEW lines \in Seq(Nat), InOrder(lines, n), Len(lines) > LogMaxLines,
           NEW line \in ToSet(lines), n - line < LogMaxLines
    PROVE  line \in ToSet(Lasts(lines))
<1>1. PICK i \in 1..Len(lines) : lines[i] = line
  BY DEF ToSet
<1>2. n - line >= Len(lines) - i
  BY <1>1 DEF InOrder
<1> DEFINE k == i - (Len(lines) - LogMaxLines)
<1>3. k \in 1..LogMaxLines /\ Len(lines) - LogMaxLines + k = i
  BY <1>1, <1>2
<1>4. Lasts(lines)[k] = line
  BY <1>1, <1>3, LastsOf
<1>5. k \in DOMAIN Lasts(lines)
  BY <1>3, LastsOf
<1> QED BY <1>4, <1>5 DEF ToSet

(* What a step does to the file, to what has been appended and to what a   *)
(* writer read.                                                            *)
LEMMA LogFrame ==
    ASSUME SessionLogTypeOK, NEW v \in LogWriters,
           \/ Logs(v) \/ Locks(v) \/ GivesUpLock(v) \/ Appends(v)
           \/ ReadsBack(v) \/ Truncates(v) \/ WritesBack(v) \/ EndsEarly(v)
    PROVE  /\ \A w \in LogWriters \ {v} : slAt'[w] = slAt[w] /\ slRead'[w] = slRead[w]
           /\ ~Appends(v) => UNCHANGED <<slAppended, slHeld>>
           /\ ~Appends(v) /\ ~Truncates(v) /\ ~WritesBack(v) => UNCHANGED slFile
           /\ ~EndsEarly(v) => UNCHANGED slTorn
           /\ ~slTorn' => ~slTorn
           /\ slAt[v] = "write" /\ ~slTorn' => WritesBack(v)
           /\ slAt'[v] \in {"truncate", "write"} => ReadsBack(v) \/ Truncates(v)
<1> USE DEF SessionLogTypeOK, SlGoes
<1>1. \A w \in LogWriters \ {v} : slAt'[w] = slAt[w] /\ slRead'[w] = slRead[w]
  BY DEF Logs, Locks, GivesUpLock, Appends, ReadsBack, Truncates, WritesBack, EndsEarly
<1>2. /\ ~Appends(v) => UNCHANGED <<slAppended, slHeld>>
      /\ ~Appends(v) /\ ~Truncates(v) /\ ~WritesBack(v) => UNCHANGED slFile
  BY DEF Logs, Locks, GivesUpLock, ReadsBack, Truncates, WritesBack, EndsEarly
<1>3. ~EndsEarly(v) => UNCHANGED slTorn
  BY DEF Logs, Locks, GivesUpLock, Appends, ReadsBack, Truncates, WritesBack
<1>4. EndsEarly(v) => slTorn' = (slTorn \/ slAt[v] = "write")
  BY DEF EndsEarly
<1>5. slAt[v] = "write" => WritesBack(v) \/ EndsEarly(v)
  BY DEF Logs, Locks, GivesUpLock, Appends, ReadsBack, Truncates
<1>6. slAt'[v] \in {"truncate", "write"} => ReadsBack(v) \/ Truncates(v)
  BY DEF Logs, Locks, GivesUpLock, Appends, WritesBack, EndsEarly
<1> QED BY <1>1, <1>2, <1>3, <1>4, <1>5, <1>6

LEMMA LinesAreNumbers ==
    ASSUME SessionLogTypeOK
    PROVE  /\ slAppended \in Nat /\ slFile \in Seq(Nat)
           /\ \A w \in LogWriters : slRead[w] \in Seq(Nat)
           /\ slHeld \subseteq Nat
BY DEF SessionLogTypeOK

LEMMA NextLinesInOrder ==
    SessionLogTypeOK /\ LogSound /\ [SessionLogNext]_slVars => LinesInOrder'
<1> SUFFICES ASSUME SessionLogTypeOK, LogSound, [SessionLogNext]_slVars
             PROVE  InOrder(slFile', slAppended')
  BY DEF LinesInOrder
<1>1. CASE UNCHANGED slVars
  BY <1>1 DEF slVars, LogSound, LinesInOrder
<1>2. ASSUME NEW v \in LogWriters, Appends(v) PROVE InOrder(slFile', slAppended')
  <2>1. slAppended' = slAppended + 1 /\ slFile' = Append(slFile, slAppended')
    BY <1>2 DEF Appends
  <2> QED BY <2>1, LinesAreNumbers, AppendingKeepsOrder DEF LogSound, LinesInOrder
<1>3. ASSUME NEW v \in LogWriters, Truncates(v) PROVE InOrder(slFile', slAppended')
  BY <1>3 DEF Truncates, InOrder
<1>4. ASSUME NEW v \in LogWriters, WritesBack(v) PROVE InOrder(slFile', slAppended')
  BY <1>4 DEF WritesBack, LogSound, WrittenBackWhole
<1> QED BY <1>1, <1>2, <1>3, <1>4, LogFrame DEF SessionLogNext, LogSound, LinesInOrder

(* Nobody else is trimming while a writer has its lines to write back.     *)
LEMMA NextWrittenBackWhole ==
    SessionLogTypeOK /\ LogSound /\ [SessionLogNext]_slVars => WrittenBackWhole'
<1> SUFFICES ASSUME SessionLogTypeOK, LogSound, [SessionLogNext]_slVars,
                    NEW w \in LogWriters, slAt'[w] \in {"truncate", "write"}
             PROVE  /\ InOrder(slRead'[w], slAppended')
                    /\ slTorn' \/ \A line \in slHeld' : StandsIn(line, slRead[w])'
  BY DEF WrittenBackWhole
<1> USE DEF LogSound
<1>1. CASE UNCHANGED slVars
  BY <1>1 DEF slVars, WrittenBackWhole, StandsIn
<1>2. ASSUME NEW v \in LogWriters, v # w,
             \/ Logs(v) \/ Locks(v) \/ GivesUpLock(v) \/ Appends(v)
             \/ ReadsBack(v) \/ Truncates(v) \/ WritesBack(v) \/ EndsEarly(v)
      PROVE  /\ InOrder(slRead'[w], slAppended')
             /\ slTorn' \/ \A line \in slHeld' : StandsIn(line, slRead[w])'
  <2>1. slAt[w] \in {"truncate", "write"} /\ slRead'[w] = slRead[w]
    BY <1>2, LogFrame
  <2>2. slLock = w
    BY <2>1 DEF TrimsUnderLock
  <2>3. CASE Appends(v)
    <3>1. slAppended' = slAppended + 1 /\ slHeld' = slHeld
      BY <1>2, <2>2, <2>3 DEF Appends
    <3>2. InOrder(slRead'[w], slAppended')
      BY <2>1, <3>1, LinesAreNumbers, AppendingKeepsOrder DEF WrittenBackWhole
    <3>3. slTorn' \/ \A line \in slHeld : StandsIn(line, slRead[w])
      BY <1>2, <2>1, LogFrame DEF WrittenBackWhole
    <3>4. ASSUME NEW line \in slHeld, StandsIn(line, slRead[w]) PROVE StandsIn(line, slRead[w])'
      BY <2>1, <3>1, <3>4, LinesAreNumbers DEF StandsIn
    <3> QED BY <3>1, <3>2, <3>3, <3>4
  <2>4. CASE ~Appends(v)
    <3>1. UNCHANGED <<slAppended, slHeld>> /\ (~slTorn' => ~slTorn)
      BY <1>2, <2>4, LogFrame
    <3> QED BY <2>1, <3>1 DEF WrittenBackWhole, StandsIn
  <2> QED BY <2>3, <2>4
<1>3. CASE ReadsBack(w)
  <2>1. /\ slAt[w] = "read" /\ Len(slFile) > LogMaxLines /\ slRead'[w] = Lasts(slFile)
        /\ UNCHANGED <<slAppended, slHeld, slTorn>>
    BY <1>3 DEF ReadsBack, SlGoes, SessionLogTypeOK
  <2>2. InOrder(slRead'[w], slAppended')
    BY <2>1, LinesAreNumbers, LastsInOrder DEF LinesInOrder
  <2>3. ASSUME ~slTorn, NEW line \in slHeld PROVE StandsIn(line, slRead[w])'
    <3>1. \A u \in LogWriters : slAt[u] # "write"
      BY <2>1 DEF TrimsUnderLock
    <3>2. line \in ToSet(slFile) \/ slAppended - line >= LogMaxLines
      BY <2>3, <3>1 DEF HeldLinesStay
    <3>3. line \in ToSet(Lasts(slFile)) \/ slAppended - line >= LogMaxLines
      BY <2>1, <3>2, LinesAreNumbers, LastsHoldTheRecent DEF LinesInOrder
    <3> QED BY <2>1, <3>3 DEF StandsIn
  <2> QED BY <2>1, <2>2, <2>3
<1>4. CASE Truncates(w)
  BY <1>4 DEF Truncates, WrittenBackWhole, StandsIn
<1> QED BY <1>1, <1>2, <1>3, <1>4, LogFrame DEF SessionLogNext

LEMMA NextHeldLinesStay ==
    SessionLogTypeOK /\ LogSound /\ [SessionLogNext]_slVars => HeldLinesStay'
<1> SUFFICES ASSUME SessionLogTypeOK, LogSound, [SessionLogNext]_slVars,
                    ~slTorn', \A w \in LogWriters : slAt'[w] # "write",
                    NEW line \in slHeld'
             PROVE  line \in ToSet(slFile') \/ slAppended' - line >= LogMaxLines
  BY DEF HeldLinesStay
<1> USE DEF LogSound
<1>1. CASE UNCHANGED slVars
  BY <1>1 DEF slVars, HeldLinesStay
<1>2. ASSUME NEW v \in LogWriters,
             \/ Logs(v) \/ Locks(v) \/ GivesUpLock(v) \/ Appends(v)
             \/ ReadsBack(v) \/ Truncates(v) \/ WritesBack(v) \/ EndsEarly(v)
      PROVE  line \in ToSet(slFile') \/ slAppended' - line >= LogMaxLines
  <2>1. CASE WritesBack(v)
    <3>1. /\ slAt[v] = "write" /\ slFile' = slRead[v]
          /\ UNCHANGED <<slAppended, slHeld, slTorn>>
      BY <2>1 DEF WritesBack
    <3> QED BY <3>1 DEF WrittenBackWhole, StandsIn
  <2>2. CASE ~WritesBack(v)
    <3>1. ~slTorn /\ \A w \in LogWriters : slAt[w] # "write"
      BY <1>2, <2>2, LogFrame
    <3>2. \A old \in slHeld : old \in ToSet(slFile) \/ slAppended - old >= LogMaxLines
      BY <3>1 DEF HeldLinesStay
    <3>3. CASE Appends(v)
      <4>1. /\ slAppended' = slAppended + 1 /\ slFile' = Append(slFile, slAppended')
            /\ line \in slHeld \/ line = slAppended'
        BY <3>3 DEF Appends
      <4>2. /\ Len(slFile') = Len(slFile) + 1 /\ slFile'[Len(slFile) + 1] = slAppended'
            /\ \A i \in 1..Len(slFile) : slFile'[i] = slFile[i]
            /\ DOMAIN slFile = 1..Len(slFile) /\ DOMAIN slFile' = 1..(Len(slFile) + 1)
        BY <4>1, LinesAreNumbers
      <4>3. ToSet(slFile) \subseteq ToSet(slFile') /\ slAppended' \in ToSet(slFile')
        BY <4>2 DEF ToSet
      <4> QED BY <3>2, <4>1, <4>3, LinesAreNumbers
    <3>4. CASE ~Appends(v)
      <4>1. ~Truncates(v)
        BY DEF Truncates, SlGoes, SessionLogTypeOK
      <4>2. UNCHANGED <<slFile, slAppended, slHeld>>
        BY <1>2, <2>2, <3>4, <4>1, LogFrame
      <4> QED BY <3>2, <4>2
    <3> QED BY <3>3, <3>4
  <2> QED BY <2>1, <2>2
<1> QED BY <1>1, <1>2 DEF SessionLogNext

(* A line written under the lock is in the log until enough later ones     *)
(* are, however many shells write and however many could not wait for it.  *)
THEOREM HeldLinesAreKept == SessionLogSpec => []HeldLinesStay
<1>1. SessionLogTypeOK /\ LogSound /\ [SessionLogNext]_slVars => LogSound'
  BY NextTrimsUnderLock, NextLinesInOrder, NextWrittenBackWhole, NextHeldLinesStay DEF LogSound
<1>2. LogSound => HeldLinesStay
  BY DEF LogSound
<1> QED
  BY <1>1, <1>2, InitLogSound, SessionLogTypes, PTL DEF SessionLogSpec

-----------------------------------------------------------------------------
(* The agent as a service.                                                 *)

LEMMA InitServiceTypes == AgentServiceInit => AgentServiceTypeOK
<1> SUFFICES ASSUME AgentServiceInit PROVE AgentServiceTypeOK
  OBVIOUS
<1>1. svPolls \in [SvLogins -> 0..PollBudget] /\ svTroubles \in 0..MaxSvTroubles
  BY DEF AgentServiceInit
<1>2. svAsked \in [SvLogins -> BOOLEAN] /\ svListens \in BOOLEAN /\ ~svListens
  BY DEF AgentServiceInit
<1> QED BY <1>1, <1>2 DEF AgentServiceInit, AgentServiceTypeOK

ServiceMoves ==
    \/ ComesUp \/ ListensLate \/ FallsOver \/ IsStopped \/ HasStopped \/ IsDisabled \/ Enables

LEMMA NextServiceTypes ==
    AgentServiceTypeOK /\ [AgentServiceNext]_svVars => AgentServiceTypeOK'
<1> SUFFICES ASSUME AgentServiceTypeOK, [AgentServiceNext]_svVars PROVE AgentServiceTypeOK'
  OBVIOUS
<1> USE DEF AgentServiceTypeOK, svService, Trouble, SvGoes, SvEnds
<1>1. CASE UNCHANGED svVars
  BY <1>1 DEF svVars
<1>2. ASSUME NEW l \in SvLogins, LogsIn(l) \/ LoginSteps(l) PROVE AgentServiceTypeOK'
  <2> USE <1>2 DEF LogsIn, LoginSteps, Probes, AsksState, StartsService, StartedBySomebody,
     WaitsAgain, ProbesAgain
  <2>1. svPolls' \in [SvLogins -> 0..PollBudget] /\ svTroubles' \in 0..MaxSvTroubles
    OBVIOUS
  <2>2. /\ svState' \in {"stopped", "starting", "running", "stopping"}
        /\ svListens' = svListens /\ svStart' = svStart
        /\ svState = "running" => svState' = "running"
    OBVIOUS
  <2>3. /\ svAt' \in [SvLogins -> {"idle", "probe", "ask", "start", "wait", "probe_again", "done"}]
        /\ svResult' \in [SvLogins -> {"none", "healthy", "started", "error"}]
    OBVIOUS
  <2>4. svAsked' \in [SvLogins -> BOOLEAN]
    OBVIOUS
  <2> HIDE <1>2 DEF LogsIn, LoginSteps
  <2> QED BY <2>1, <2>2, <2>3, <2>4
<1>3. CASE ServiceMoves
  <2> USE <1>3 DEF ServiceMoves, ComesUp, ListensLate, FallsOver, IsStopped, HasStopped,
          IsDisabled, Enables
  <2>1. UNCHANGED <<svAt, svAsked, svPolls, svResult>> /\ svTroubles' \in 0..MaxSvTroubles
    OBVIOUS
  <2>2. /\ svState' \in {"stopped", "starting", "running", "stopping"}
        /\ svStart' \in {"on_demand", "automatic", "disabled"}
    OBVIOUS
  <2>3. svListens' => svState' = "running"
    OBVIOUS
  <2>4. svListens' \in BOOLEAN
    OBVIOUS
  <2> HIDE <1>3 DEF ServiceMoves
  <2> QED BY <2>1, <2>2, <2>3, <2>4
<1> QED BY <1>1, <1>2, <1>3 DEF AgentServiceNext, ServiceMoves

(* The variables of the service and of its logins keep their types.        *)
THEOREM AgentServiceTypes == AgentServiceSpec => []AgentServiceTypeOK
BY InitServiceTypes, NextServiceTypes, PTL DEF AgentServiceSpec

(* A service on which a start would be refused, or that does not do what a *)
(* login takes it to be doing, has had its trouble.                        *)
ServiceInTrouble ==
    \/ svState = "stopping"
    \/ svStart = "disabled"
    \/ svState = "running" /\ ~svListens
    \/ \E l \in SvLogins : svAsked[l] /\ svState = "stopped"
    \/ \E l \in SvLogins : svAt[l] = "probe_again" /\ svState # "running"

ServiceSound ==
    /\ ServiceInTrouble => svTroubles > 0
    /\ \A l \in SvLogins : svResult[l] = "error" => svAt[l] = "done"
    /\ RefusedForCause

LEMMA NextServiceSound ==
    AgentServiceTypeOK /\ ServiceSound /\ [AgentServiceNext]_svVars => ServiceSound'
<1> SUFFICES ASSUME AgentServiceTypeOK, ServiceSound, [AgentServiceNext]_svVars
             PROVE  ServiceSound'
  OBVIOUS
<1> USE DEF AgentServiceTypeOK, ServiceSound, ServiceInTrouble, RefusedForCause, svService,
        Trouble, SvGoes, SvEnds
<1>1. CASE UNCHANGED svVars
  BY <1>1 DEF svVars
<1>2. ASSUME NEW l \in SvLogins, LogsIn(l) \/ LoginSteps(l) PROVE ServiceSound'
  BY <1>2 DEF LogsIn, LoginSteps, Probes, AsksState, StartsService, StartedBySomebody,
     WaitsAgain, WithinBudget, ProbesAgain
<1>3. CASE ServiceMoves
  BY <1>3 DEF ServiceMoves, ComesUp, ListensLate, FallsOver, IsStopped, HasStopped, IsDisabled,
     Enables
<1> QED BY <1>1, <1>2, <1>3 DEF AgentServiceNext, ServiceMoves

(* A login is refused the agent for a cause only, whatever the others do.  *)
THEOREM OnlyRefusedForCause == AgentServiceSpec => []RefusedForCause
<1>1. AgentServiceInit => ServiceSound
  BY DEF AgentServiceInit, ServiceSound, ServiceInTrouble, RefusedForCause
<1>2. ServiceSound => RefusedForCause
  BY DEF ServiceSound
<1> QED
  BY <1>1, <1>2, NextServiceSound, AgentServiceTypes, PTL DEF AgentServiceSpec
-----------------------------------------------------------------------------
(* The small parts beside each other: a step is one of one part, and the    *)
(* others stay as they are.                                                 *)

PartsSound ==
    /\ TypeOK /\ AtAFile
    /\ HandoffTypeOK /\ AgentServiceTypeOK /\ SessionLogTypeOK
    /\ ProtectKeysTypeOK /\ ProtectKeysSound
    /\ ConfigurationTypeOK /\ ConfigurationSound

LEMMA InitParts == PartsInit => PartsSound
<1> SUFFICES ASSUME PartsInit PROVE PartsSound
  OBVIOUS
<1>1. TypeOK /\ AtAFile
  BY BoundsAssumption DEF PartsInit, Init, TypeOK, AtAFile, Names, NoNames, Files, Dirs
<1> QED BY <1>1, InitHandoffTypes, InitServiceTypes, InitLogTypes, InitPkTypes, InitConfiguration
        DEF PartsInit, PartsSound

(* Every part keeps its types, whichever of them it is that moves.          *)
THEOREM PartsTypes == PartsSpec => []PartsTypeOK
<1>1. PartsSound /\ [PartsNext]_partsVars => PartsSound'
  <2> SUFFICES ASSUME PartsSound, [PartsNext]_partsVars PROVE PartsSound'
    OBVIOUS
  <2>1. /\ [Next]_vars /\ [HandoffNext]_hoVars /\ [AgentServiceNext]_svVars
        /\ [SessionLogNext]_slVars /\ [ProtectKeysNext]_pkVars
        /\ [ConfigurationNext]_cfVars
    BY DEF PartsNext, partsVars
  <2> QED BY <2>1, TypeStep, NextHandoffTypes, NextServiceTypes, NextLogTypes, NextPkTypes,
             NextConfiguration DEF PartsSound
<1>2. PartsSound => PartsTypeOK
  BY DEF PartsSound, PartsTypeOK
<1> QED BY <1>1, <1>2, InitParts, PTL DEF PartsSpec
=============================================================================
