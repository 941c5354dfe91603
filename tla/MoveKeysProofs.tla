--------------------------- MODULE MoveKeysProofs ---------------------------
(***************************************************************************)
(* Theorems about MoveKeys, for any number of files, failures and files of *)
(* other people: the configuration is never ahead of the keys, a file that *)
(* was there when the plan was checked is never replaced, and what the     *)
(* user is told is so unless even the way back failed.                     *)
(***************************************************************************)
EXTENDS MoveKeys, TLAPS

USE BoundsAssumption DEF Files, Dirs, Forms

(* Where every file is, by how far Apply or putBack has come.              *)
NothingMoved == \A f \in Files : place[f] = "old"

Untouched ==
    pc \in {"check", "prepare"} =>
        way = "new" /\ next = 1 /\ stranded = {} /\ NothingMoved

Moving ==
    pc = "move" =>
        /\ next >= 1 /\ stranded = {}
        /\ \A f \in Files : place[f] = way <=> f < next

Permitting ==
    pc = "permit" =>
        /\ way = "new" /\ next \in Files /\ stranded = {}
        /\ \A f \in Files : place[f] = "new" <=> f <= next

PuttingBack ==
    pc = "putback" =>
        /\ next <= NumFiles
        /\ \A f \in stranded : f > next
        /\ \A f \in Files : place[f] = way <=> f <= next \/ f \in stranded

(* Only the end of the way there writes the configuration.                  *)
Unwritten ==
    /\ pc # "ended" => keyDir = "old" /\ said = "silence"
    /\ pc \notin {"check", "ended"} => decides = "own"
    /\ keyDir = "new" => In("old") = {} /\ pc = "ended"

(* What was there at the check is all looked at, so what is there later and *)
(* is not a file of the plan came after it.                                 *)
Checked ==
    /\ pc = "check" => theirs["old"] = {}
    /\ pc \notin {"check", "ended"} => \A d \in Dirs : theirs[d] \subseteq late[d]

WhereFilesAre == Untouched /\ Moving /\ Permitting /\ PuttingBack
Inv == WhereFilesAre /\ Unwritten /\ Checked /\ NothingOverwritten /\ SaysWhatIsSo

-----------------------------------------------------------------------------
(* The place Apply or putBack is at is a file of the plan, except past the  *)
(* last and before the first.                                               *)
AtAFile == /\ pc = "permit" => next \in Files
           /\ pc = "putback" => next <= NumFiles
           /\ pc = "move" => next >= 1
           /\ pc \in {"check", "prepare"} => next = 1

LEMMA TypeStep == TypeOK /\ AtAFile /\ [Next]_vars => TypeOK' /\ AtAFile'
<1> SUFFICES ASSUME TypeOK, AtAFile, [Next]_vars PROVE TypeOK' /\ AtAFile'
  OBVIOUS
<1> USE DEF TypeOK, AtAFile, Names, disk, conf, Works, Fails, Says, Stops, Rename, Other
<1>1. CASE Refused
  BY <1>1 DEF Refused
<1>2. CASE Accepted
  BY <1>2 DEF Accepted
<1>3. CASE Prepare
  BY <1>3 DEF Prepare
<1>4. CASE MoveOne
  <2>1. pc = "move" /\ next \in Files /\ UNCHANGED <<conf, way, stranded, said>>
    BY <1>4 DEF MoveOne, Arrived
  <2>2. CASE /\ Rename(next, way) /\ Works
             /\ pc' = IF way = "new" THEN "permit" ELSE "move"
             /\ next' = IF way = "new" THEN next ELSE next + 1
    <3>1. place' \in [Files -> Dirs] /\ theirs' \in [Dirs -> SUBSET Files]
          /\ lost' \in [Dirs -> SUBSET Files]
      BY <2>1, <2>2
    <3> QED BY <2>1, <2>2, <3>1
  <2>3. CASE pc' = "putback" /\ next' = next - 1 /\ Fails /\ UNCHANGED disk
    BY <2>1, <2>3
  <2> QED BY <1>4, <2>2, <2>3 DEF MoveOne
<1>5. CASE PermitOne
  BY <1>5, SMTT(30) DEF PermitOne
<1>6. CASE PutBack
  <2>1. next \in Files /\ next' = next - 1 /\ pc' = "putback"
    BY <1>6 DEF PutBack
  <2>2. CASE Rename(next, Other(way)) /\ stranded' = stranded /\ Works
    BY <1>6, <2>1, <2>2 DEF PutBack
  <2>3. CASE stranded' = stranded \cup {next} /\ Fails /\ UNCHANGED disk
    BY <1>6, <2>1, <2>3 DEF PutBack
  <2> QED
    BY <1>6, <2>2, <2>3 DEF PutBack
<1>7. CASE PutBackEnds
  BY <1>7 DEF PutBackEnds
<1>8. CASE WriteConfig
  <2>1. pc = "move" /\ UNCHANGED <<disk, decides, stranded>>
    BY <1>8 DEF WriteConfig
  <2>2. CASE /\ keyDir' = "new" /\ form' \in {form, "plain"}
             /\ Says("moved") /\ Works /\ UNCHANGED <<way, next>>
    BY <2>1, <2>2
  <2>3. CASE way' = "old" /\ next' = 1 /\ Fails /\ UNCHANGED <<keyDir, form, pc, said>>
    BY <2>1, <2>3
  <2> QED BY <1>8, <2>2, <2>3 DEF WriteConfig
<1>9. CASE AllBack
  BY <1>9 DEF AllBack
<1>10. CASE Killed
  BY <1>10 DEF Killed
<1>11. ASSUME NEW f \in Files, NEW dir \in Dirs, Intrudes(f, dir)
       PROVE  TypeOK' /\ AtAFile'
  BY <1>11 DEF Intrudes
<1>12. CASE UNCHANGED vars
  BY <1>12 DEF vars
<1> QED
  BY <1>1, <1>2, <1>3, <1>4, <1>5, <1>6, <1>7, <1>8, <1>9, <1>10, <1>11, <1>12
     DEF Next, Step

(* Every variable keeps its type, whatever fails and whoever intrudes.      *)
THEOREM TypeCorrect == Spec => [](TypeOK /\ AtAFile)
<1>1. Init => TypeOK /\ AtAFile
  BY DEF Init, TypeOK, AtAFile, Names, NoNames
<1> QED
  BY <1>1, TypeStep, PTL DEF Spec
-----------------------------------------------------------------------------
(* The inductive invariant, part by part.                                   *)

LEMMA FilesStep ==
    ASSUME TypeOK, AtAFile, Inv, [Next]_vars PROVE WhereFilesAre'
<1> USE DEF TypeOK, AtAFile, Names, disk, conf, Works, Fails, Says, Stops, Rename, Other, Inv,
        WhereFilesAre, Untouched, Moving, Permitting,
        PuttingBack, NothingMoved
<1>1. CASE Refused
  BY <1>1 DEF Refused
<1>2. CASE Accepted
  BY <1>2 DEF Accepted, Blocked
<1>3. CASE Prepare
  BY <1>3 DEF Prepare
<1>4. CASE MoveOne
  BY <1>4 DEF MoveOne, Arrived
<1>5. CASE PermitOne
  BY <1>5 DEF PermitOne
<1>6. CASE PutBack
  <2>1. next \in Files /\ next' = next - 1 /\ pc' = "putback" /\ way' = way
    BY <1>6 DEF PutBack
  <2>2. CASE Rename(next, Other(way)) /\ stranded' = stranded
    <3>1. \A f \in Files : place'[f] = IF f = next THEN Other(way) ELSE place[f]
      BY <2>1, <2>2
    <3>2. next \notin stranded
      BY <1>6, <2>1 DEF PutBack
    <3> QED
      BY <1>6, <2>1, <2>2, <3>1, <3>2 DEF PutBack
  <2>3. CASE stranded' = stranded \cup {next} /\ UNCHANGED disk
    BY <1>6, <2>1, <2>3 DEF PutBack
  <2> QED
    BY <1>6, <2>2, <2>3 DEF PutBack
<1>7. CASE PutBackEnds
  BY <1>7 DEF PutBackEnds
<1>8. CASE WriteConfig
  BY <1>8 DEF WriteConfig, Arrived
<1>9. CASE AllBack
  BY <1>9 DEF AllBack, Arrived
<1>10. CASE Killed
  BY <1>10 DEF Killed
<1>11. ASSUME NEW f \in Files, NEW dir \in Dirs, Intrudes(f, dir) PROVE WhereFilesAre'
  BY <1>11 DEF Intrudes
<1>12. CASE UNCHANGED vars
  BY <1>12 DEF vars
<1> QED
  BY <1>1, <1>2, <1>3, <1>4, <1>5, <1>6, <1>7, <1>8, <1>9, <1>10, <1>11, <1>12
     DEF Next, Step

LEMMA UnwrittenStep ==
    ASSUME TypeOK, AtAFile, Inv, [Next]_vars PROVE Unwritten'
<1> USE DEF TypeOK, AtAFile, Names, disk, conf, Works, Fails, Says, Stops, Rename, Other, Inv,
        WhereFilesAre, Untouched, Moving, In, Unwritten
<1>1. CASE Refused
  BY <1>1 DEF Refused
<1>2. CASE Accepted
  BY <1>2 DEF Accepted, Blocked
<1>3. CASE Prepare
  BY <1>3 DEF Prepare
<1>4. CASE MoveOne
  BY <1>4 DEF MoveOne, Arrived
<1>5. CASE PermitOne
  BY <1>5 DEF PermitOne
<1>6. CASE PutBack
  BY <1>6 DEF PutBack
<1>7. CASE PutBackEnds
  BY <1>7 DEF PutBackEnds
<1>8. CASE WriteConfig
  BY <1>8 DEF WriteConfig, Arrived
<1>9. CASE AllBack
  BY <1>9 DEF AllBack, Arrived
<1>10. CASE Killed
  BY <1>10 DEF Killed
<1>11. ASSUME NEW f \in Files, NEW dir \in Dirs, Intrudes(f, dir) PROVE Unwritten'
  BY <1>11 DEF Intrudes
<1>12. CASE UNCHANGED vars
  BY <1>12 DEF vars
<1> QED
  BY <1>1, <1>2, <1>3, <1>4, <1>5, <1>6, <1>7, <1>8, <1>9, <1>10, <1>11, <1>12
     DEF Next, Step

LEMMA CheckedStep ==
    ASSUME TypeOK, AtAFile, Inv, [Next]_vars PROVE Checked' /\ NothingOverwritten'
<1> USE DEF TypeOK, AtAFile, Names, disk, conf, Works, Fails, Says, Stops, Rename, Other, Inv,
        Checked, NothingOverwritten, WhereFilesAre, Untouched,
        NothingMoved
<1>1. CASE Refused
  BY <1>1 DEF Refused
<1>2. CASE Accepted
  BY <1>2 DEF Accepted, Blocked
<1>3. CASE Prepare
  BY <1>3 DEF Prepare
<1>4. CASE MoveOne
  BY <1>4 DEF MoveOne, Arrived
<1>5. CASE PermitOne
  BY <1>5 DEF PermitOne
<1>6. CASE PutBack
  BY <1>6 DEF PutBack
<1>7. CASE PutBackEnds
  BY <1>7 DEF PutBackEnds
<1>8. CASE WriteConfig
  BY <1>8 DEF WriteConfig, Arrived
<1>9. CASE AllBack
  BY <1>9 DEF AllBack, Arrived
<1>10. CASE Killed
  BY <1>10 DEF Killed
<1>11. ASSUME NEW f \in Files, NEW dir \in Dirs, Intrudes(f, dir) PROVE Checked' /\ NothingOverwritten'
  BY <1>11 DEF Intrudes
<1>12. CASE UNCHANGED vars
  BY <1>12 DEF vars
<1> QED
  BY <1>1, <1>2, <1>3, <1>4, <1>5, <1>6, <1>7, <1>8, <1>9, <1>10, <1>11, <1>12
     DEF Next, Step

LEMMA TruthStep ==
    ASSUME TypeOK, AtAFile, Inv, [Next]_vars PROVE SaysWhatIsSo'
<1> USE DEF TypeOK, AtAFile, Names, disk, conf, Works, Fails, Says, Stops, Rename, Other, Inv,
        SaysWhatIsSo, WayBackFailed, Told, ReadFrom, In, WhereFilesAre, Untouched,
        Moving, Permitting, PuttingBack, NothingMoved, Unwritten
<1>1. CASE Refused
  BY <1>1 DEF Refused
<1>2. CASE Accepted
  BY <1>2 DEF Accepted, Blocked
<1>3. CASE Prepare
  BY <1>3 DEF Prepare
<1>4. CASE MoveOne
  BY <1>4 DEF MoveOne, Arrived
<1>5. CASE PermitOne
  BY <1>5 DEF PermitOne
<1>6. CASE PutBack
  BY <1>6 DEF PutBack
<1>7. CASE PutBackEnds
  <2>1. CASE way = "old"
    BY <1>7, <2>1 DEF PutBackEnds
  <2>2. CASE way = "new"
    <3>1. \A f \in Files : place[f] = "new" <=> f \in stranded
      BY <1>7, <2>2 DEF PutBackEnds
    <3>2. UNCHANGED <<place, stranded, keyDir>> /\ keyDir = "old"
          /\ said' = IF stranded = {} THEN "unmoved" ELSE "stranded"
      BY <1>7 DEF PutBackEnds
    <3> QED
      BY <3>1, <3>2
  <2> QED
    BY <2>1, <2>2
<1>8. CASE WriteConfig
  BY <1>8 DEF WriteConfig, Arrived
<1>9. CASE AllBack
  BY <1>9 DEF AllBack, Arrived
<1>10. CASE Killed
  BY <1>10 DEF Killed
<1>11. ASSUME NEW f \in Files, NEW dir \in Dirs, Intrudes(f, dir) PROVE SaysWhatIsSo'
  BY <1>11 DEF Intrudes
<1>12. CASE UNCHANGED vars
  BY <1>12 DEF vars
<1> QED
  BY <1>1, <1>2, <1>3, <1>4, <1>5, <1>6, <1>7, <1>8, <1>9, <1>10, <1>11, <1>12
     DEF Next, Step

-----------------------------------------------------------------------------
(* The theorems.                                                            *)
LEMMA Soundness == Spec => [](TypeOK /\ AtAFile /\ Inv)
<1>1. Init => TypeOK /\ AtAFile /\ Inv
  <2>1. Init => TypeOK /\ AtAFile
    BY DEF Init, TypeOK, AtAFile, Names, NoNames
  <2>2. Init => WhereFilesAre /\ Unwritten
    BY DEF Init, WhereFilesAre, Untouched, Moving, Permitting, PuttingBack, NothingMoved,
           Unwritten, In
  <2>3. Init => Checked /\ NothingOverwritten /\ SaysWhatIsSo
    BY DEF Init, Checked, NothingOverwritten, NoNames, SaysWhatIsSo, Told
  <2> QED
    BY <2>1, <2>2, <2>3 DEF Inv
<1>2. TypeOK /\ AtAFile /\ Inv /\ [Next]_vars => (TypeOK /\ AtAFile /\ Inv)'
  BY TypeStep, FilesStep, UnwrittenStep, CheckedStep, TruthStep DEF Inv
<1> QED
  BY <1>1, <1>2, PTL DEF Spec

(* However many calls fail, and wherever the run is killed, the             *)
(* configuration never names the new directory while a key is in the old.   *)
THEOREM ConfigFollowsKeys == Spec => []ConfigNeverAhead
<1>1. Inv => ConfigNeverAhead
  BY DEF Inv, Unwritten, ConfigNeverAhead
<1> QED
  BY <1>1, Soundness, PTL

(* However many calls fail, no file that had its name when the plan was     *)
(* checked is replaced.                                                     *)
THEOREM NobodysFileReplaced == Spec => []NothingOverwritten
<1>1. Inv => NothingOverwritten
  BY DEF Inv
<1> QED
  BY <1>1, Soundness, PTL

(* However many calls fail, what the user is told of the keys is so, but    *)
(* where moving them back failed too, and but for which directory logins   *)
(* read where the user's own file cannot be read or has key_dir in a table. *)
THEOREM ToldWhatIsSo == Spec => []SaysWhatIsSo
<1>1. Inv => SaysWhatIsSo
  BY DEF Inv
<1> QED
  BY <1>1, Soundness, PTL
=============================================================================
