----------------------------- MODULE SetupProofs ----------------------------
(***************************************************************************)
(* Theorems about what SSHakku sets up on an account: the installer's      *)
(* wiring and its search list, the key files protect-keys covers, and the  *)
(* reports made of the configuration, for any number of runs and of        *)
(* changes made to the same files meanwhile.                               *)
(***************************************************************************)
EXTENDS Installer, ProtectKeys, Configuration, FiniteSetTheorems, TLAPS

(* The bounds of the three models are numbers.                             *)
LEMMA SetupBounds ==
    /\ MaxRuns \in Nat /\ MaxHandEdits \in Nat
    /\ MaxPkRuns \in Nat /\ MaxPkMeddling \in Nat /\ MaxPkFailures \in Nat
    /\ MaxCfChanges \in Nat
BY InstallerAssumption, ProtectKeysAssumption, ConfigurationAssumption

-----------------------------------------------------------------------------
(* The installer.                                                          *)

PlaceType == [file : StartupFiles, dropIn : BOOLEAN]
ListType == [ours : BOOLEAN, theirs : 0..inEdits]

InRunType ==
    [op : {"none", "install", "uninstall"}, kind : Kinds, scope : InScopes,
     admin : BOOLEAN,
     at : {"idle", "render", "wire", "sweep", "path", "record", "write", "end"},
     place : PlaceType, sweep : Seq(PlaceType), raw : [ours : BOOLEAN, theirs : Nat]]

(* Nothing of the user's in the list is older than an edit.                *)
RunsWell ==
    /\ inRun \in InRunType
    /\ inRun.raw \in ListType /\ inPath \in ListType /\ inRecord \subseteq ListType

(* Where a startup file is wired: in the directory beside it, or in itself. *)
InPlace(f) == f = SystemWide \/ InDropIn(f, inLines, inDir)
WiredNow == (inBlock \cup inDropIn) \ inMoved
OfRun(f) == ScopeOf(f) = inRun.scope /\ KindOf(f) = inRun.kind
SweptSpots == {inRun.sweep[i] : i \in 1..Len(inRun.sweep)}

(* A wiring is where it would be looked for, unless the user changed that. *)
WiringStands ==
    \A f \in WiredNow : (f \in inBlock => ~InPlace(f)) /\ (f \in inDropIn => InPlace(f))

(* What an install is about to wire is its own, and still goes there.       *)
PlaceStands ==
    inRun.at \in {"render", "wire"} =>
        /\ inRun.op = "install" /\ OfRun(inRun.place.file)
        /\ inRun.place.file \in inMoved \/ (inRun.place.dropIn <=> InPlace(inRun.place.file))

RunsHookThere == inRun.at = "wire" => Hook \in inHooks

(* An uninstall has yet to come by everything of its own that is wired, and *)
(* where that is.                                                          *)
SweepStands ==
    inRun.at = "sweep" =>
        /\ inRun.op = "uninstall"
        /\ \A f \in WiredNow : OfRun(f) =>
              \E spot \in SweptSpots : spot.file = f /\ (spot.dropIn <=> InPlace(f))
        /\ \A spot \in SweptSpots : spot.file \in WiredNow => (spot.dropIn <=> InPlace(spot.file))

(* The list is written down before it holds more than it did.              *)
RecordStands ==
    /\ inRun.at \in {"path", "record", "write"} => inRun.op \in {"install", "uninstall"}
    /\ inRun.at = "record" => inRun.raw.ours # Wanted
    /\ inRun.at = "write" /\ Wanted => inRecord # {}

InstallerSound ==
    /\ WiringStands /\ PlaceStands /\ RunsHookThere /\ SweepStands /\ RecordStands
    /\ NothingRunsWhatIsGone /\ RecordIsOfBefore

-----------------------------------------------------------------------------
LEMMA HeadAndTail ==
    ASSUME NEW S, NEW s \in Seq(S), s # <<>>
    PROVE  /\ Head(s) \in S /\ Tail(s) \in Seq(S)
           /\ \A i \in 1..Len(s) : s[i] = Head(s) \/ \E j \in 1..Len(Tail(s)) : s[i] = Tail(s)[j]
           /\ \A j \in 1..Len(Tail(s)) : \E i \in 1..Len(s) : s[i] = Tail(s)[j]
<1>1. Len(s) \in Nat \ {0} /\ Head(s) = s[1]
  OBVIOUS
<1>2. Tail(s) \in Seq(S) /\ Len(Tail(s)) = Len(s) - 1
  OBVIOUS
<1>3. \A j \in 1..Len(Tail(s)) : Tail(s)[j] = s[j + 1]
  OBVIOUS
<1>4. ASSUME NEW i \in 1..Len(s), i # 1
      PROVE  \E j \in 1..Len(Tail(s)) : s[i] = Tail(s)[j]
  <2>1. i - 1 \in 1..Len(Tail(s)) /\ Tail(s)[i - 1] = s[(i - 1) + 1]
    BY <1>1, <1>2, <1>3, <1>4
  <2> QED BY <2>1
<1>5. ASSUME NEW j \in 1..Len(Tail(s))
      PROVE  \E i \in 1..Len(s) : s[i] = Tail(s)[j]
  <2>1. j + 1 \in 1..Len(s) /\ Tail(s)[j] = s[j + 1]
    BY <1>1, <1>2, <1>3, <1>5
  <2> QED BY <2>1
<1> QED BY <1>1, <1>2, <1>4, <1>5

(* The place a run settles on is of its shell and its scope, and is where  *)
(* the disk says.                                                          *)
LEMMA TargetIsInPlace ==
    ASSUME NEW kind \in Kinds, NEW scope \in InScopes
    PROVE  LET spot == Target(kind, scope)
           IN /\ spot \in PlaceType
              /\ ScopeOf(spot.file) = scope /\ KindOf(spot.file) = kind
              /\ spot.dropIn <=> InPlace(spot.file)
BY DEF Kinds, InScopes, Target, PlaceIn, InDropIn, InPlace, PlaceType, StartupFiles, SystemWide,
   ScopeOf, KindOf, Candidates

(* A sweep comes by every file of its shell and its scope, where it is.    *)
LEMMA SweepComesByAll ==
    ASSUME NEW kind \in Kinds, NEW scope \in InScopes
    PROVE  LET sweep == Sweep(kind, scope)
           IN /\ sweep \in Seq(PlaceType)
              /\ \A i \in 1..Len(sweep) : sweep[i].dropIn <=> InPlace(sweep[i].file)
              /\ \A f \in StartupFiles : ScopeOf(f) = scope /\ KindOf(f) = kind =>
                    \E i \in 1..Len(sweep) : sweep[i].file = f
<1> DEFINE sweep == Sweep(kind, scope)
<1>1. CASE kind = "bash" /\ scope = "machine"
  <2>1. sweep = <<Target(kind, scope)>> /\ Len(sweep) = 1 /\ sweep[1] = Target(kind, scope)
    BY <1>1 DEF Sweep
  <2>2. Target(kind, scope) = [file |-> SystemWide, dropIn |-> TRUE]
    BY <1>1 DEF Target
  <2>3. \A f \in StartupFiles : ScopeOf(f) = scope /\ KindOf(f) = kind => f = SystemWide
    BY <1>1 DEF StartupFiles, SystemWide, ScopeOf, KindOf
  <2>4. Target(kind, scope) \in PlaceType
    BY TargetIsInPlace
  <2>5. sweep \in Seq(PlaceType)
    BY <2>1, <2>4
  <2> HIDE DEF sweep
  <2> QED BY <2>1, <2>2, <2>3, <2>5 DEF InPlace, sweep
<1>2. CASE ~(kind = "bash" /\ scope = "machine")
  <2>1. sweep = [i \in 1..2 |-> PlaceIn(Candidates(kind)[i])]
    BY <1>2 DEF Sweep
  <2>2. \A i \in 1..2 : Candidates(kind)[i] \in StartupFiles \ {SystemWide}
    BY DEF Candidates, StartupFiles, SystemWide, Kinds
  <2>3. \A f \in StartupFiles : ScopeOf(f) = scope /\ KindOf(f) = kind =>
           \E i \in 1..2 : Candidates(kind)[i] = f
    BY <1>2 DEF Candidates, StartupFiles, SystemWide, ScopeOf, KindOf, Kinds, InScopes
  <2>4. \A f \in StartupFiles : PlaceIn(f) \in PlaceType
    BY DEF PlaceIn, PlaceType, InDropIn
  <2>5. sweep \in Seq(PlaceType) /\ Len(sweep) = 2
    BY <2>1, <2>2, <2>4
  <2>6. \A i \in 1..2 : sweep[i].file = Candidates(kind)[i]
                        /\ (sweep[i].dropIn <=> InPlace(sweep[i].file))
    BY <2>1, <2>2 DEF PlaceIn, InPlace
  <2> HIDE DEF sweep
  <2> QED BY <2>3, <2>5, <2>6 DEF sweep
<1> QED BY <1>1, <1>2

LEMMA OursIsSet ==
    ASSUME NEW S, NEW list \in [ours : BOOLEAN, theirs : S], NEW b \in BOOLEAN
    PROVE  [list EXCEPT !.ours = b] = [ours |-> b, theirs |-> list.theirs]
OBVIOUS

LEMMA InitInstaller == InstallerInit => InstallerTypeOK /\ RunsWell /\ InstallerSound
<1> SUFFICES ASSUME InstallerInit PROVE InstallerTypeOK /\ RunsWell /\ InstallerSound
  OBVIOUS
<1> USE SetupBounds DEF InstallerInit
<1>1. inLines \in [StartupFiles -> Contents]
  BY DEF Contents
<1>2. inRun \in InRunType /\ inRun.at = "idle" /\ inRun.raw = [ours |-> FALSE, theirs |-> 0]
  BY DEF NoRun, NoPlace, InRunType, PlaceType, StartupFiles, SystemWide, Kinds, InScopes
<1>3. inEdits = 0 /\ inPath = [ours |-> FALSE, theirs |-> 0]
  OBVIOUS
<1>4. inRun.raw \in ListType /\ inPath \in ListType
  BY <1>2, <1>3 DEF ListType
<1>5. {inPath, inRun.raw} \cup inRecord \subseteq [ours : BOOLEAN, theirs : 0..MaxHandEdits]
  BY <1>2, <1>3
<1>6. InstallerTypeOK
  BY <1>1, <1>2, <1>5 DEF InstallerTypeOK, InRunType, PlaceType
<1> QED
  BY <1>2, <1>3, <1>4, <1>6 DEF RunsWell, InstallerSound, WiringStands, WiredNow, PlaceStands,
     RunsHookThere, SweepStands, RecordStands, NothingRunsWhatIsGone, RecordIsOfBefore

LEMMA NextInRun ==
    ASSUME InstallerTypeOK, RunsWell, InstallerNext
    PROVE  inRun' \in InRunType
<1> inRun \in InRunType /\ [ours : BOOLEAN, theirs : 0..inEdits] \subseteq [ours : BOOLEAN, theirs : Nat]
  BY DEF RunsWell, InstallerTypeOK
<1>0. NoRun \in InRunType
  BY DEF NoRun, NoPlace, InRunType, PlaceType, StartupFiles, SystemWide, Kinds, InScopes
<1>1. ASSUME NEW op \in {"install", "uninstall"}, NEW kind \in Kinds, NEW scope \in InScopes,
             NEW admin \in BOOLEAN, Begins(op, kind, scope, admin)
      PROVE  inRun' \in InRunType
  <2>1. Target(kind, scope) \in PlaceType /\ Sweep(kind, scope) \in Seq(PlaceType)
    BY TargetIsInPlace, SweepComesByAll
  <2>2. PICK at \in {"render", "sweep"} :
           inRun' = [NoRun EXCEPT !.op = op, !.kind = kind, !.scope = scope, !.admin = admin,
                       !.at = at, !.place = Target(kind, scope),
                       !.sweep = Sweep(kind, scope)]
    BY <1>1 DEF Begins
  <2> QED BY <1>0, <2>1, <2>2 DEF InRunType
<1>2. ASSUME NEW to \in {"wire", "path", "end", "write"}, InGoes(to) PROVE inRun' \in InRunType
  BY <1>2 DEF InGoes, InRunType
<1>3. CASE Renders \/ Wires \/ RemovesHook \/ RecordsPath \/ WritesPath
  BY <1>2, <1>3 DEF Renders, Wires, RemovesHook, RecordsPath, WritesPath, ThenPath
<1>4. CASE Unwires
  <2>1. Tail(inRun.sweep) \in Seq(PlaceType)
    BY <1>4, HeadAndTail DEF Unwires, InRunType
  <2> QED BY <1>4, <2>1 DEF Unwires, InRunType
<1>5. CASE ReadsPath
  <2>1. PICK at \in {"end", "record"} : inRun' = [inRun EXCEPT !.raw = inPath, !.at = at]
    BY <1>5 DEF ReadsPath
  <2>2. inPath \in [ours : BOOLEAN, theirs : Nat]
    BY DEF RunsWell, ListType
  <2> QED BY <2>1, <2>2 DEF InRunType
<1>6. CASE EndsRun \/ StopsShort
  BY <1>0, <1>6 DEF EndsRun, StopsShort
<1>7. CASE EditsPath \/ \E f \in StartupFiles \ {SystemWide} : EditsFile(f) \/ MakesDir(f) \/ RemovesDir(f)
  BY <1>7 DEF EditsPath, EditsFile, MakesDir, RemovesDir
<1> QED BY <1>1, <1>3, <1>4, <1>5, <1>6, <1>7 DEF InstallerNext

(* The search list through a step, and the record of it.                   *)
LEMMA NextList ==
    ASSUME InstallerTypeOK, RunsWell, InstallerSound, InstallerNext
    PROVE  /\ inEdits' \in 0..MaxHandEdits /\ inEdits <= inEdits'
           /\ (inRun.raw \in ListType)' /\ (inPath \in ListType)' /\ (inRecord \subseteq ListType)'
           /\ RecordStands' /\ RecordIsOfBefore'
<1> DEFINE Goal == /\ inEdits' \in 0..MaxHandEdits /\ inEdits <= inEdits'
                   /\ (inRun.raw \in ListType)' /\ (inPath \in ListType)'
                   /\ (inRecord \subseteq ListType)' /\ RecordStands' /\ RecordIsOfBefore'
<1> SUFFICES Goal
  OBVIOUS
<1> PlaceStands /\ RecordStands /\ RecordIsOfBefore
  BY DEF InstallerSound
<1>t. /\ inRun \in InRunType /\ inRun' \in InRunType
      /\ inEdits \in 0..MaxHandEdits /\ MaxHandEdits \in Nat
      /\ inRun.raw \in ListType /\ inPath \in ListType /\ inRecord \subseteq ListType
  BY NextInRun, SetupBounds DEF RunsWell, InstallerTypeOK
<1>s. \A n \in 0..MaxHandEdits : inEdits <= n => ListType \subseteq [ours : BOOLEAN, theirs : 0..n]
  BY <1>t DEF ListType
<1>i. ASSUME inEdits' = inEdits, inPath' = inPath, inRecord' = inRecord,
             inRun'.raw = inRun.raw \/ inRun'.raw = inPath \/ inRun'.raw = [ours |-> FALSE, theirs |-> 0],
             RecordStands'
      PROVE  Goal
  <2>1. [ours |-> FALSE, theirs |-> 0] \in ListType
    BY <1>t DEF ListType
  <2>2. ListType' = ListType
    BY <1>i DEF ListType
  <2>3. RecordIsOfBefore'
    BY <1>i DEF RecordIsOfBefore
  <2>4. inEdits' \in 0..MaxHandEdits /\ inEdits <= inEdits'
    BY <1>i, <1>t
  <2>5. inRun'.raw \in ListType
    BY <1>i, <1>t, <2>1
  <2> QED BY <1>i, <1>t, <2>2, <2>3, <2>4, <2>5
<1>0. NoRun.at = "idle" /\ NoRun.raw = [ours |-> FALSE, theirs |-> 0]
  BY DEF NoRun
<1>1. ASSUME NEW op \in {"install", "uninstall"}, NEW kind \in Kinds, NEW scope \in InScopes,
             NEW admin \in BOOLEAN, Begins(op, kind, scope, admin)
      PROVE  Goal
  <2>1. inRun'.at \in {"render", "sweep"} /\ inRun'.raw = [ours |-> FALSE, theirs |-> 0]
    BY <1>1 DEF Begins, NoRun
  <2>2. RecordStands'
    BY <2>1 DEF RecordStands
  <2> HIDE DEF Goal
  <2> QED BY <1>1, <1>i, <2>1, <2>2 DEF Begins
<1>2. CASE Renders \/ Wires \/ RemovesHook
  <2>1. /\ inRun'.at \in {"wire", "path", "end"} /\ inRun'.raw = inRun.raw /\ inRun'.op = inRun.op
        /\ inRun'.at # "wire" => inRun.at = "wire" \/ inRun.op = "uninstall"
    BY <1>2, <1>t DEF Renders, Wires, RemovesHook, InGoes, ThenPath, InRunType
  <2>2. inRun'.at # "wire" => inRun'.op \in {"install", "uninstall"}
    BY <2>1 DEF PlaceStands
  <2>3. RecordStands'
    BY <2>1, <2>2 DEF RecordStands
  <2> HIDE DEF Goal
  <2> QED BY <1>2, <1>i, <2>1, <2>3 DEF Renders, Wires, RemovesHook
<1>3. CASE Unwires
  <2>1. inRun'.at = "sweep" /\ inRun'.raw = inRun.raw
    BY <1>3, <1>t DEF Unwires, InRunType
  <2>2. RecordStands'
    BY <2>1 DEF RecordStands
  <2> HIDE DEF Goal
  <2> QED BY <1>3, <1>i, <2>1, <2>2 DEF Unwires
<1>4. CASE ReadsPath
  <2>1. /\ inRun.at = "path" /\ inRun'.raw = inPath /\ inRun'.op = inRun.op
        /\ inRun'.at = (IF PathList(inPath) = inPath THEN "end" ELSE "record")
    BY <1>4, <1>t DEF ReadsPath, InRunType
  <2>2. inPath.ours = Wanted => PathList(inPath) = inPath
    <3>1. inPath = [ours |-> inPath.ours, theirs |-> inPath.theirs]
      BY <1>t DEF ListType
    <3> QED BY <3>1 DEF PathList
  <2>3. RecordStands'
    BY <2>1, <2>2 DEF RecordStands, Wanted
  <2> HIDE DEF Goal
  <2> QED BY <1>4, <1>i, <2>1, <2>3 DEF ReadsPath
<1>5. CASE RecordsPath
  <2>1. /\ inRun.at = "record" /\ inRun'.at = "write" /\ inRun'.raw = inRun.raw
        /\ inRun'.op = inRun.op /\ inRecord' = (IF Wanted THEN {inRun.raw} ELSE inRecord)
        /\ UNCHANGED <<inPath, inEdits>>
    BY <1>5, <1>t DEF RecordsPath, InGoes, WritesDown, InRunType
  <2>2. ListType' = ListType
    BY <2>1 DEF ListType
  <2>3. RecordStands'
    BY <2>1 DEF RecordStands, Wanted
  <2>4. RecordIsOfBefore'
    <3>1. Wanted => ~inRun.raw.ours
      BY <2>1 DEF RecordStands
    <3> QED BY <2>1, <3>1 DEF RecordIsOfBefore
  <2>5. inEdits' \in 0..MaxHandEdits /\ inEdits <= inEdits'
    BY <2>1, <1>t
  <2>6. inRecord' \subseteq ListType
    BY <2>1, <1>t
  <2> QED BY <1>t, <2>1, <2>2, <2>3, <2>4, <2>5, <2>6
<1>6. CASE WritesPath
  <2>1. /\ inRun.at = "write" /\ inRun'.at = "end" /\ inRun'.raw = inRun.raw
        /\ inPath' = [inRun.raw EXCEPT !.ours = Wanted] /\ UNCHANGED <<inRecord, inEdits>>
    BY <1>6, <1>t DEF WritesPath, PathList, InGoes, InRunType
  <2>2. inPath'.ours = Wanted /\ inPath' \in ListType
    BY <1>t, <2>1 DEF ListType, Wanted
  <2>3. ListType' = ListType
    BY <2>1 DEF ListType
  <2>4. RecordStands'
    BY <2>1 DEF RecordStands
  <2>5. RecordIsOfBefore'
    BY <2>1, <2>2 DEF RecordIsOfBefore, RecordStands
  <2>6. inEdits' \in 0..MaxHandEdits /\ inEdits <= inEdits'
    BY <2>1, <1>t
  <2> QED BY <1>t, <2>1, <2>2, <2>3, <2>4, <2>5, <2>6
<1>7. CASE EndsRun \/ StopsShort
  <2>1. inRun' = NoRun
    BY <1>7 DEF EndsRun, StopsShort
  <2>2. RecordStands'
    BY <1>0, <2>1 DEF RecordStands
  <2> HIDE DEF Goal
  <2> QED BY <1>0, <1>7, <1>i, <2>1, <2>2 DEF EndsRun, StopsShort
<1>8. CASE EditsPath \/ \E f \in StartupFiles \ {SystemWide} : EditsFile(f) \/ MakesDir(f) \/ RemovesDir(f)
  <2>1. inEdits' = inEdits + 1 /\ inEdits < MaxHandEdits /\ UNCHANGED <<inRecord, inRun>>
    BY <1>8 DEF EditsPath, EditsFile, MakesDir, RemovesDir, HandEdit
  <2>2. inEdits' \in 0..MaxHandEdits /\ inEdits <= inEdits'
    BY <2>1, <1>t
  <2>3. ListType \subseteq ListType'
    BY <1>t, <2>1 DEF ListType
  <2>4. \/ inPath' = inPath \/ inPath' = [inPath EXCEPT !.theirs = @ + 1]
        \/ inPath' = [inPath EXCEPT !.ours = FALSE]
    BY <1>8 DEF EditsPath, EditsFile, MakesDir, RemovesDir
  <2>5. inPath' \in ListType' /\ (inPath'.ours => inPath.ours)
    <3> USE <1>t, <2>1 DEF ListType
    <3>1. CASE inPath' = inPath
      BY <3>1
    <3>2. CASE inPath' = [inPath EXCEPT !.theirs = @ + 1]
      BY <3>2
    <3>3. CASE inPath' = [inPath EXCEPT !.ours = FALSE]
      <4>1. inPath' = [ours |-> FALSE, theirs |-> inPath.theirs]
        BY <3>3, OursIsSet, Zenon
      <4>2. inPath.theirs \in 0..inEdits'
        OBVIOUS
      <4> QED BY <4>1, <4>2
    <3> QED BY <2>4, <3>1, <3>2, <3>3
  <2>6. RecordStands'
    BY <2>1 DEF RecordStands, Wanted
  <2>7. RecordIsOfBefore'
    BY <2>1, <2>5 DEF RecordIsOfBefore
  <2> QED BY <1>t, <2>1, <2>2, <2>3, <2>5, <2>6, <2>7
<1> HIDE DEF Goal
<1> QED BY <1>1, <1>2, <1>3, <1>4, <1>5, <1>6, <1>7, <1>8 DEF InstallerNext

(* What the runs write leaves every place what it was.                     *)
LEMMA RunsKeepPlaces ==
    ASSUME InstallerTypeOK, Wires \/ Unwires, NEW g \in StartupFiles
    PROVE  InPlace(g)' <=> InPlace(g)
<1>1. CASE UNCHANGED <<inLines, inDir>>
  BY <1>1 DEF InPlace, InDropIn
<1>2. ASSUME NEW f, UpsertBlockFile(f) \/ StripBlockFile(f) PROVE InPlace(g)' <=> InPlace(g)
  <2>1. inDir' = inDir /\ (inLines'[g] = "loads" <=> inLines[g] = "loads")
    BY <1>2 DEF UpsertBlockFile, StripBlockFile, InstallerTypeOK
  <2> QED BY <2>1 DEF InPlace, InDropIn
<1>3. ASSUME NEW f, WriteDropIn(f) PROVE InPlace(g)' <=> InPlace(g)
  BY <1>3 DEF WriteDropIn, InPlace, InDropIn
<1> QED BY <1>1, <1>2, <1>3 DEF Wires, Unwires, RemoveDropIn

(* What the user does to a file leaves every other place what it was, and  *)
(* what it does to a wired one's is known.                                 *)
LEMMA UserMovesPlaces ==
    ASSUME InstallerTypeOK, NEW f \in StartupFiles \ {SystemWide},
           EditsFile(f) \/ MakesDir(f) \/ RemovesDir(f)
    PROVE  /\ UNCHANGED <<inBlock, inHooks, inRun, inBereft>> /\ inDropIn' \subseteq inDropIn
           /\ inMoved \subseteq inMoved' /\ inMoved' \subseteq StartupFiles
           /\ inLines' \in [StartupFiles -> Contents]
           /\ inDropIn' \subseteq inDir' /\ inDir' \subseteq StartupFiles
           /\ \A g \in StartupFiles \ inMoved' : Wired(g) => (InPlace(g)' <=> InPlace(g))
<1>1. /\ UNCHANGED <<inBlock, inHooks, inRun, inBereft>> /\ inDropIn' \subseteq inDropIn
      /\ inDropIn' \subseteq inDir' /\ inDir' \subseteq StartupFiles
      /\ inLines' \in [StartupFiles -> Contents]
  <2>1. CASE EditsFile(f)
    <3>1. PICK lines \in Contents : inLines' = [inLines EXCEPT ![f] = lines]
      BY <2>1 DEF EditsFile
    <3> QED BY <2>1, <3>1 DEF EditsFile, InstallerTypeOK
  <2>2. CASE MakesDir(f) \/ RemovesDir(f)
    BY <2>2 DEF MakesDir, RemovesDir, InstallerTypeOK
  <2> QED BY <2>1, <2>2
<1>2. \A g \in StartupFiles \ {f} : InPlace(g)' <=> InPlace(g)
  <2>1. CASE EditsFile(f)
    BY <2>1 DEF EditsFile, InPlace, InDropIn, InstallerTypeOK
  <2>2. CASE MakesDir(f) \/ RemovesDir(f)
    BY <2>2 DEF MakesDir, RemovesDir, InPlace, InDropIn
  <2> QED BY <2>1, <2>2
<1>3. inMoved' = IF Wired(f) /\ InDropIn(f, inLines, inDir)' # InDropIn(f, inLines, inDir)
                 THEN inMoved \cup {f} ELSE inMoved
  BY DEF EditsFile, MakesDir, RemovesDir, Misplaces, InDropIn
<1>4. f \notin inMoved' /\ Wired(f) => (InPlace(f)' <=> InPlace(f))
  <2>1. f \notin inMoved' /\ Wired(f) => InDropIn(f, inLines, inDir)' = InDropIn(f, inLines, inDir)
    BY <1>3
  <2> QED BY <2>1 DEF InPlace
<1>5. inMoved \subseteq inMoved' /\ inMoved' \subseteq StartupFiles
  BY <1>3 DEF InstallerTypeOK
<1> QED BY <1>1, <1>2, <1>4, <1>5

(* The place an uninstall comes to is no longer wired.                     *)
LEMMA UnwiresNext ==
    ASSUME InstallerTypeOK, RunsWell, InstallerSound, Unwires
    PROVE  /\ inBlock' \subseteq inBlock /\ inDropIn' \subseteq inDropIn
           /\ UNCHANGED <<inDir, inMoved, inBereft, inHooks>>
           /\ inLines' \in [StartupFiles -> Contents]
           /\ inRun'.at = "sweep" /\ inRun'.op = "uninstall"
           /\ inRun'.kind = inRun.kind /\ inRun'.scope = inRun.scope
           /\ SweptSpots' \subseteq SweptSpots
           /\ \A spot \in SweptSpots : spot.file \in WiredNow' => spot \in SweptSpots'
<1> DEFINE head == Head(inRun.sweep)
<1>1. /\ inRun \in InRunType /\ inRun.at = "sweep" /\ inRun.sweep \in Seq(PlaceType)
      /\ inRun.sweep # <<>> /\ inRun.op = "uninstall"
  BY DEF RunsWell, InRunType, Unwires, InstallerSound, SweepStands
<1>2. /\ head \in PlaceType /\ SweptSpots' \subseteq SweptSpots /\ head \in SweptSpots
      /\ SweptSpots \subseteq SweptSpots' \cup {head}
  <2>1. inRun'.sweep = Tail(inRun.sweep)
    BY <1>1 DEF Unwires, InRunType
  <2>2. 1 \in 1..Len(inRun.sweep) /\ head = inRun.sweep[1]
    BY <1>1
  <2> HIDE DEF head
  <2>3. head \in SweptSpots
    BY <2>2 DEF SweptSpots
  <2>4. /\ head \in PlaceType
        /\ \A i \in 1..Len(inRun.sweep) :
              inRun.sweep[i] = head \/ \E j \in 1..Len(inRun'.sweep) : inRun.sweep[i] = inRun'.sweep[j]
        /\ \A j \in 1..Len(inRun'.sweep) : \E i \in 1..Len(inRun.sweep) : inRun.sweep[i] = inRun'.sweep[j]
    <3> HIDE <2>2, <2>3
    <3> QED BY <1>1, <2>1, HeadAndTail DEF head
  <2>5. ASSUME NEW spot PROVE spot \in SweptSpots' => spot \in SweptSpots
    <3>1. spot \in SweptSpots' <=> \E j \in 1..Len(inRun'.sweep) : spot = inRun'.sweep[j]
      BY Zenon DEF SweptSpots
    <3>2. spot \in SweptSpots <=> \E i \in 1..Len(inRun.sweep) : spot = inRun.sweep[i]
      BY Zenon DEF SweptSpots
    <3> QED BY <2>4, <3>1, <3>2, Zenon
  <2>6. ASSUME NEW spot PROVE spot \in SweptSpots => spot \in SweptSpots' \/ spot = head
    <3>1. spot \in SweptSpots' <=> \E j \in 1..Len(inRun'.sweep) : spot = inRun'.sweep[j]
      BY Zenon DEF SweptSpots
    <3>2. spot \in SweptSpots <=> \E i \in 1..Len(inRun.sweep) : spot = inRun.sweep[i]
      BY Zenon DEF SweptSpots
    <3> QED BY <2>4, <3>1, <3>2, Zenon
  <2> QED BY <2>3, <2>4, <2>5, <2>6
<1>3. \/ head.dropIn /\ RemoveDropIn(head.file)
      \/ ~head.dropIn /\ StripBlockFile(head.file)
  BY DEF Unwires
<1> HIDE DEF head
<1>4. /\ inBlock' \subseteq inBlock /\ inDropIn' \subseteq inDropIn
      /\ UNCHANGED <<inDir, inMoved, inBereft, inHooks>>
  BY <1>3 DEF Unwires, RemoveDropIn, StripBlockFile
<1>5. inLines' \in [StartupFiles -> Contents]
  BY <1>3 DEF RemoveDropIn, StripBlockFile, InstallerTypeOK, Contents
<1>6. head.file \notin WiredNow'
  <2> SUFFICES ASSUME head.file \in WiredNow' PROVE FALSE
    OBVIOUS
  <2>1. head.file \in WiredNow /\ head.file \in StartupFiles
    BY <1>2, <1>4 DEF WiredNow, PlaceType
  <2>2. head.dropIn <=> InPlace(head.file)
    BY <1>1, <1>2, <2>1 DEF InstallerSound, SweepStands
  <2>3. (head.file \in inBlock => ~head.dropIn) /\ (head.file \in inDropIn => head.dropIn)
    BY <2>1, <2>2 DEF InstallerSound, WiringStands
  <2> QED BY <1>3, <1>4, <2>3 DEF RemoveDropIn, StripBlockFile, WiredNow
<1> QED BY <1>1, <1>2, <1>4, <1>5, <1>6 DEF Unwires, InRunType

(* A step that touches no startup file leaves the wirings as they are.     *)
LEMMA FilesStay ==
    ASSUME InstallerSound, UNCHANGED <<inFiles, inMoved>>
    PROVE  /\ WiringStands' /\ WiredNow' = WiredNow
           /\ \A g \in StartupFiles : InPlace(g)' <=> InPlace(g)
<1>1. UNCHANGED <<inLines, inBlock, inDir, inDropIn, inMoved>>
  BY DEF inFiles
<1> QED BY <1>1 DEF InstallerSound, WiringStands, WiredNow, InPlace, InDropIn

(* The wirings through a step.                                             *)
Wirings == /\ inLines \in [StartupFiles -> Contents] /\ inBlock \subseteq StartupFiles
           /\ inDropIn \subseteq inDir /\ inDir \subseteq StartupFiles
           /\ inHooks \subseteq InScopes \X Languages
           /\ inMoved \subseteq StartupFiles /\ inBereft \subseteq StartupFiles
           /\ WiringStands /\ PlaceStands /\ RunsHookThere /\ SweepStands
           /\ NothingRunsWhatIsGone

LEMMA NextWirings ==
    ASSUME InstallerTypeOK, RunsWell, InstallerSound, InstallerNext
    PROVE  Wirings'
<1>t. /\ inRun \in InRunType /\ inRun' \in InRunType
      /\ Wirings /\ WiredNow \subseteq StartupFiles
  BY NextInRun DEF RunsWell, InstallerTypeOK, InstallerSound, Wirings, WiredNow
<1>1. ASSUME NEW op \in {"install", "uninstall"}, NEW kind \in Kinds, NEW scope \in InScopes,
             NEW admin \in BOOLEAN, Begins(op, kind, scope, admin)
      PROVE  Wirings'
  <2>1. UNCHANGED <<inFiles, inHooks, inMoved, inBereft>>
    BY <1>1 DEF Begins
  <2>2. UNCHANGED <<inLines, inBlock, inDir, inDropIn, inMoved, inBereft, inHooks>>
    BY <2>1 DEF inFiles
  <2>3. /\ inRun'.at = (IF op = "install" THEN "render" ELSE "sweep")
        /\ inRun'.op = op /\ inRun'.kind = kind /\ inRun'.scope = scope
        /\ inRun'.place = Target(kind, scope) /\ inRun'.sweep = Sweep(kind, scope)
    BY <1>1 DEF Begins, NoRun
  <2>4. PlaceStands'
    <3>1. PICK f \in StartupFiles : f = Target(kind, scope).file
      BY TargetIsInPlace DEF PlaceType
    <3>2. ScopeOf(f) = scope /\ KindOf(f) = kind /\ (Target(kind, scope).dropIn <=> InPlace(f))
      BY <3>1, TargetIsInPlace
    <3>3. InPlace(f)' <=> InPlace(f)
      BY <2>1, FilesStay
    <3>4. f = inRun'.place.file /\ (inRun'.place.dropIn <=> InPlace(f)')
      BY <2>3, <3>1, <3>2, <3>3
    <3>5. inRun'.at = "render" => inRun'.op = "install"
      BY <2>3
    <3>6. inRun'.at # "wire"
      BY <2>3
    <3> QED BY <2>3, <3>2, <3>4, <3>5, <3>6 DEF PlaceStands, OfRun
  <2>5. SweepStands'
    <3> DEFINE sweep == Sweep(kind, scope)
    <3>1. /\ \A i \in 1..Len(sweep) : sweep[i] \in PlaceType
          /\ \A i \in 1..Len(sweep) : sweep[i].dropIn <=> InPlace(sweep[i].file)
          /\ \A f \in StartupFiles : ScopeOf(f) = scope /\ KindOf(f) = kind =>
                \E i \in 1..Len(sweep) : sweep[i].file = f
      BY SweepComesByAll
    <3> HIDE DEF sweep
    <3>2. \A spot : spot \in SweptSpots' <=> \E i \in 1..Len(sweep) : spot = sweep[i]
      BY <2>3, Zenon DEF SweptSpots, sweep
    <3>3. \A i \in 1..Len(sweep) : sweep[i] \in SweptSpots'
      BY <3>2
    <3>4. \A spot \in SweptSpots' : spot \in PlaceType /\ (spot.dropIn <=> InPlace(spot.file))
      BY <3>1, <3>2
    <3>5. \A g \in StartupFiles : InPlace(g)' <=> InPlace(g)
      BY <2>1, FilesStay
    <3>6. \A spot \in SweptSpots' : spot.dropIn <=> InPlace(spot.file)'
      BY <3>4, <3>5 DEF PlaceType
    <3>7. WiredNow' \subseteq StartupFiles
      BY <1>t, <2>2 DEF WiredNow
    <3>8. ASSUME NEW f \in WiredNow', OfRun(f)'
          PROVE  \E spot \in SweptSpots' : spot.file = f /\ (spot.dropIn <=> InPlace(f)')
      <4>1. PICK i \in 1..Len(sweep) : sweep[i].file = f
        BY <2>3, <3>1, <3>7, <3>8 DEF OfRun
      <4> QED BY <3>3, <3>6, <4>1
    <3> QED BY <2>3, <3>6, <3>8 DEF SweepStands
  <2> QED
    BY <1>t, <2>1, <2>2, <2>3, <2>4, <2>5, FilesStay DEF Wirings, RunsHookThere,
       NothingRunsWhatIsGone
<1>2. CASE Renders
  <2>1. /\ UNCHANGED <<inFiles, inMoved>> /\ inHooks' = inHooks \cup {Hook}
        /\ inBereft' = {f \in inBereft : HookOf(f) # Hook}
        /\ inRun.at = "render" /\ inRun' = [inRun EXCEPT !.at = "wire"]
    BY <1>2 DEF Renders, InGoes
  <2>2. UNCHANGED <<inLines, inBlock, inDir, inDropIn, inMoved>>
    BY <2>1 DEF inFiles
  <2>3. /\ inRun'.at = "wire" /\ inRun'.op = inRun.op /\ inRun'.place = inRun.place
        /\ inRun'.kind = inRun.kind /\ inRun'.scope = inRun.scope
        /\ Hook' = Hook /\ Hook \in InScopes \X Languages
    BY <1>t, <2>1 DEF InRunType, Hook, Language, Languages
  <2>4. PlaceStands'
    BY <1>t, <2>1, <2>2, <2>3 DEF Wirings, PlaceStands, OfRun, InPlace, InDropIn
  <2>5. SweepStands' /\ RunsHookThere'
    BY <2>1, <2>3 DEF SweepStands, RunsHookThere
  <2>6. NothingRunsWhatIsGone'
    BY <1>t, <2>1, <2>2 DEF Wirings, NothingRunsWhatIsGone
  <2> QED BY <1>t, <2>1, <2>2, <2>3, <2>4, <2>5, <2>6, FilesStay DEF Wirings
<1>3. CASE Wires
  <2> DEFINE f == inRun.place.file
  <2>1. /\ inRun.at = "wire" /\ inRun'.at \in {"path", "end"} /\ f \in StartupFiles
        /\ UNCHANGED <<inHooks, inMoved, inBereft>>
    BY <1>3, <1>t DEF Wires, InGoes, ThenPath, InRunType, PlaceType
  <2>2. \A g \in StartupFiles : InPlace(g)' <=> InPlace(g)
    BY <1>3, RunsKeepPlaces
  <2>3. /\ f \in inMoved \/ (inRun.place.dropIn <=> InPlace(f))
        /\ HookOf(f) \in inHooks
    BY <1>t, <2>1 DEF Wirings, PlaceStands, RunsHookThere, OfRun, Hook, HookOf
  <2>4. \/ /\ inRun.place.dropIn /\ inDropIn' = inDropIn \cup {f} /\ inBlock' = inBlock
           /\ inDir' = inDir \cup {f} /\ inLines' = inLines
        \/ /\ ~inRun.place.dropIn /\ inBlock' = inBlock \cup {f} /\ inDropIn' = inDropIn
           /\ inDir' = inDir /\ inLines' \in [StartupFiles -> Contents]
    <3>1. ASSUME UpsertBlockFile(f) PROVE inLines' \in [StartupFiles -> Contents]
      BY <1>t, <3>1 DEF UpsertBlockFile, Wirings, Contents
    <3> QED BY <1>3, <3>1 DEF Wires, WriteDropIn, UpsertBlockFile
  <2> HIDE DEF f
  <2>5. WiringStands'
    BY <1>t, <2>1, <2>2, <2>3, <2>4 DEF Wirings, WiringStands, WiredNow
  <2>6. NothingRunsWhatIsGone'
    BY <1>t, <2>1, <2>3, <2>4 DEF Wirings, NothingRunsWhatIsGone
  <2>7. PlaceStands' /\ SweepStands' /\ RunsHookThere'
    BY <2>1 DEF PlaceStands, SweepStands, RunsHookThere
  <2> QED BY <1>t, <2>1, <2>4, <2>5, <2>6, <2>7 DEF Wirings
<1>4. CASE Unwires
  <2>1. \A g \in StartupFiles : InPlace(g)' <=> InPlace(g)
    BY <1>4, RunsKeepPlaces
  <2>2. /\ inBlock' \subseteq inBlock /\ inDropIn' \subseteq inDropIn
        /\ UNCHANGED <<inDir, inMoved, inBereft, inHooks>> /\ inLines' \in [StartupFiles -> Contents]
        /\ inRun'.at = "sweep" /\ inRun'.op = "uninstall"
        /\ inRun'.kind = inRun.kind /\ inRun'.scope = inRun.scope
        /\ SweptSpots' \subseteq SweptSpots
        /\ \A spot \in SweptSpots : spot.file \in WiredNow' => spot \in SweptSpots'
    BY <1>4, UnwiresNext
  <2>3. WiredNow' \subseteq WiredNow
    BY <2>2 DEF WiredNow
  <2>4. inRun.at = "sweep"
    BY <1>4 DEF Unwires
  <2>5. WiringStands'
    BY <1>t, <2>1, <2>2, <2>3 DEF Wirings, WiringStands
  <2>6. SweepStands'
    <3>1. ASSUME NEW g \in WiredNow', OfRun(g)'
          PROVE  \E spot \in SweptSpots' : spot.file = g /\ (spot.dropIn <=> InPlace(g)')
      <4>1. g \in WiredNow /\ OfRun(g) /\ g \in StartupFiles
        BY <1>t, <2>2, <2>3, <3>1 DEF OfRun
      <4>2. PICK spot \in SweptSpots : spot.file = g /\ (spot.dropIn <=> InPlace(g))
        BY <1>t, <2>4, <4>1 DEF Wirings, SweepStands
      <4> QED BY <2>1, <2>2, <3>1, <4>1, <4>2
    <3>2. ASSUME NEW spot \in SweptSpots', spot.file \in WiredNow'
          PROVE  spot.dropIn <=> InPlace(spot.file)'
      <4>1. spot \in SweptSpots /\ spot.file \in WiredNow /\ spot.file \in StartupFiles
        BY <1>t, <2>2, <2>3, <3>2
      <4>2. spot.dropIn <=> InPlace(spot.file)
        BY <1>t, <2>4, <4>1 DEF Wirings, SweepStands
      <4> QED BY <2>1, <4>1, <4>2
    <3> QED BY <2>2, <3>1, <3>2 DEF SweepStands
  <2>7. NothingRunsWhatIsGone'
    BY <1>t, <2>2 DEF Wirings, NothingRunsWhatIsGone
  <2>8. PlaceStands' /\ RunsHookThere'
    BY <2>2 DEF PlaceStands, RunsHookThere
  <2> QED BY <1>t, <2>2, <2>5, <2>6, <2>7, <2>8 DEF Wirings
<1>5. CASE RemovesHook
  <2>1. /\ UNCHANGED <<inFiles, inMoved>> /\ inHooks' = inHooks \ {Hook}
        /\ inBereft' = inBereft \cup
              {f \in inBlock \cup inDropIn : HookOf(f) = Hook /\ KindOf(f) # inRun.kind}
        /\ inRun.at = "sweep" /\ inRun.sweep = <<>> /\ inRun'.at \in {"path", "end"}
    BY <1>5, <1>t DEF RemovesHook, AllUnwired, InGoes, ThenPath, InRunType
  <2>2. UNCHANGED <<inLines, inBlock, inDir, inDropIn, inMoved>>
    BY <2>1 DEF inFiles
  <2>3. SweptSpots = {}
    BY <2>1 DEF SweptSpots
  <2>4. \A f \in WiredNow : HookOf(f) = Hook => f \in inBereft'
    <3>1. \A f \in WiredNow : ~OfRun(f)
      BY <1>t, <2>1, <2>3 DEF Wirings, SweepStands
    <3>2. \A f \in WiredNow : HookOf(f) = Hook => KindOf(f) # inRun.kind
      BY <3>1 DEF OfRun, HookOf, Hook
    <3> QED BY <2>1, <3>2 DEF WiredNow
  <2>5. NothingRunsWhatIsGone'
    BY <1>t, <2>1, <2>2, <2>4 DEF Wirings, NothingRunsWhatIsGone, WiredNow
  <2>6. PlaceStands' /\ SweepStands' /\ RunsHookThere'
    BY <2>1 DEF PlaceStands, SweepStands, RunsHookThere
  <2>7. inBereft' \subseteq StartupFiles
    BY <1>t, <2>1 DEF Wirings
  <2> QED BY <1>t, <2>1, <2>2, <2>5, <2>6, <2>7, FilesStay DEF Wirings
<1>6. CASE ReadsPath \/ RecordsPath \/ WritesPath \/ EndsRun \/ StopsShort
  <2>1. /\ UNCHANGED <<inFiles, inMoved, inBereft, inHooks>>
        /\ inRun'.at \in {"record", "write", "end", "idle"}
    <3>1. CASE ReadsPath \/ RecordsPath \/ WritesPath
      BY <1>t, <3>1 DEF ReadsPath, RecordsPath, WritesPath, InGoes, InRunType
    <3>2. CASE EndsRun \/ StopsShort
      BY <3>2 DEF EndsRun, StopsShort, NoRun
    <3> QED BY <1>6, <3>1, <3>2
  <2>2. UNCHANGED <<inLines, inBlock, inDir, inDropIn, inMoved>>
    BY <2>1 DEF inFiles
  <2>3. PlaceStands' /\ SweepStands' /\ RunsHookThere'
    BY <2>1 DEF PlaceStands, SweepStands, RunsHookThere
  <2>4. NothingRunsWhatIsGone'
    BY <1>t, <2>1, <2>2 DEF Wirings, NothingRunsWhatIsGone
  <2> QED BY <1>t, <2>1, <2>2, <2>3, <2>4, FilesStay DEF Wirings
<1>7. ASSUME NEW f \in StartupFiles \ {SystemWide}, EditsFile(f) \/ MakesDir(f) \/ RemovesDir(f)
      PROVE  Wirings'
  <2>1. /\ UNCHANGED <<inBlock, inHooks, inRun, inBereft>> /\ inDropIn' \subseteq inDropIn
        /\ inMoved \subseteq inMoved' /\ inMoved' \subseteq StartupFiles
        /\ inLines' \in [StartupFiles -> Contents]
        /\ inDropIn' \subseteq inDir' /\ inDir' \subseteq StartupFiles
        /\ \A g \in StartupFiles \ inMoved' : Wired(g) => (InPlace(g)' <=> InPlace(g))
    BY <1>7, UserMovesPlaces
  <2>2. WiredNow' \subseteq WiredNow
    BY <2>1 DEF WiredNow
  <2>3. \A g \in WiredNow' : InPlace(g)' <=> InPlace(g)
    BY <1>t, <2>1, <2>2 DEF WiredNow, Wired
  <2>4. WiringStands'
    BY <1>t, <2>1, <2>2, <2>3 DEF Wirings, WiringStands
  <2>5. PlaceStands'
    <3> SUFFICES ASSUME inRun.at \in {"render", "wire"}, inRun.place.file \notin inMoved'
                 PROVE  /\ inRun.op = "install" /\ OfRun(inRun.place.file)
                        /\ inRun.place.dropIn <=> InPlace(inRun.place.file)'
      BY <2>1, <1>t DEF PlaceStands, OfRun, Wirings
    <3>1. inRun.op = "install" /\ OfRun(inRun.place.file)
          /\ (inRun.place.dropIn <=> InPlace(inRun.place.file))
      BY <1>t, <2>1 DEF Wirings, PlaceStands
    <3>2. inRun.place.file \in StartupFiles /\ Wired(inRun.place.file)
      BY <1>t, <3>1 DEF InRunType, PlaceType, Wired
    <3> QED BY <2>1, <3>1, <3>2
  <2>6. SweepStands'
    <3> SUFFICES ASSUME inRun.at = "sweep"
                 PROVE  SweepStands'
      BY <2>1 DEF SweepStands
    <3>1. SweptSpots' = SweptSpots /\ \A g : OfRun(g)' <=> OfRun(g)
      BY <2>1 DEF SweptSpots, OfRun
    <3>2. \A g \in WiredNow' : OfRun(g)' =>
             \E spot \in SweptSpots : spot.file = g /\ (spot.dropIn <=> InPlace(g)')
      BY <1>t, <2>2, <2>3, <3>1 DEF Wirings, SweepStands
    <3>3. \A spot \in SweptSpots : spot.file \in WiredNow' => (spot.dropIn <=> InPlace(spot.file)')
      BY <1>t, <2>2, <2>3 DEF Wirings, SweepStands
    <3> QED BY <1>t, <2>1, <3>1, <3>2, <3>3 DEF Wirings, SweepStands
  <2>7. RunsHookThere'
    BY <1>t, <2>1 DEF Wirings, RunsHookThere, Hook
  <2>8. NothingRunsWhatIsGone'
    BY <1>t, <2>1 DEF Wirings, NothingRunsWhatIsGone
  <2> QED BY <1>t, <2>1, <2>4, <2>5, <2>6, <2>7, <2>8 DEF Wirings
<1>8. CASE EditsPath
  <2>1. UNCHANGED <<inLines, inBlock, inDir, inDropIn, inMoved, inBereft, inHooks, inRun>>
    BY <1>8 DEF EditsPath, inFiles
  <2> QED
    BY <1>t, <2>1 DEF Wirings, WiringStands, PlaceStands, RunsHookThere, SweepStands,
       NothingRunsWhatIsGone, WiredNow, InPlace, InDropIn, OfRun, Hook, SweptSpots
<1> QED BY <1>1, <1>2, <1>3, <1>4, <1>5, <1>6, <1>7, <1>8 DEF InstallerNext

LEMMA NextInstaller ==
    InstallerTypeOK /\ RunsWell /\ InstallerSound /\ [InstallerNext]_inVars
        => InstallerTypeOK' /\ RunsWell' /\ InstallerSound'
<1> SUFFICES ASSUME InstallerTypeOK, RunsWell, InstallerSound, [InstallerNext]_inVars
             PROVE  InstallerTypeOK' /\ RunsWell' /\ InstallerSound'
  OBVIOUS
<1>1. CASE UNCHANGED inVars
  <2>1. UNCHANGED <<inLines, inBlock, inDir, inDropIn, inMoved, inBereft, inHooks, inPath, inRecord,
                    inRun, inRuns, inEdits, inGone>>
    BY <1>1 DEF inVars, inFiles
  <2>2. InstallerTypeOK' /\ RunsWell'
    BY <2>1 DEF InstallerTypeOK, RunsWell, ListType
  <2>3. WiringStands' /\ PlaceStands'
    BY <2>1 DEF InstallerSound, WiringStands, PlaceStands, WiredNow, InPlace, InDropIn, OfRun
  <2>4. RunsHookThere' /\ NothingRunsWhatIsGone'
    BY <2>1 DEF InstallerSound, RunsHookThere, NothingRunsWhatIsGone, Hook, WiredNow, InPlace, InDropIn
  <2>5. SweepStands'
    BY <2>1 DEF InstallerSound, SweepStands, SweptSpots, WiredNow, InPlace, InDropIn, OfRun
  <2>6. RecordStands' /\ RecordIsOfBefore'
    BY <2>1 DEF InstallerSound, RecordStands, RecordIsOfBefore, Wanted
  <2> QED BY <2>2, <2>3, <2>4, <2>5, <2>6 DEF InstallerSound
<1>2. CASE InstallerNext
  <2>1. /\ inRun' \in InRunType /\ Wirings' /\ RecordStands' /\ RecordIsOfBefore'
        /\ inEdits' \in 0..MaxHandEdits
        /\ (inRun.raw \in ListType)' /\ (inPath \in ListType)' /\ (inRecord \subseteq ListType)'
    BY <1>2, NextInRun, NextWirings, NextList
  <2>2. ListType' \subseteq [ours : BOOLEAN, theirs : 0..MaxHandEdits]
    BY <2>1, SetupBounds DEF ListType
  <2>3. inGone' \subseteq Kinds
    <3>1. inGone' \subseteq inGone \cup {inRun.kind}
      BY <1>2 DEF InstallerNext, Begins, Renders, Wires, Unwires, RemovesHook, ReadsPath,
         RecordsPath, WritesPath, EndsRun, StopsShort, EditsFile, MakesDir, RemovesDir, EditsPath
    <3> QED BY <3>1 DEF InstallerTypeOK, RunsWell, InRunType
  <2>4. inRuns' \in 0..MaxRuns
    <3>1. inRuns' = inRuns \/ (inRuns < MaxRuns /\ inRuns' = inRuns + 1)
      BY <1>2 DEF InstallerNext, Begins, Renders, Wires, Unwires, RemovesHook, ReadsPath,
         RecordsPath, WritesPath, EndsRun, StopsShort, EditsFile, MakesDir, RemovesDir, EditsPath
    <3> QED BY <3>1, SetupBounds DEF InstallerTypeOK
  <2>5. /\ inRun'.sweep \in Seq([file : StartupFiles, dropIn : BOOLEAN])
        /\ inRun'.at \in {"idle", "render", "wire", "sweep", "path", "record", "write", "end"}
    BY <2>1 DEF InRunType, PlaceType
  <2>6. InstallerTypeOK'
    BY <2>1, <2>2, <2>3, <2>4, <2>5 DEF InstallerTypeOK, Wirings
  <2> QED BY <2>1, <2>6 DEF RunsWell, InstallerSound, Wirings
<1> QED BY <1>1, <1>2

(* The types of the installer: no directory outlived by our file in it, and *)
(* no list but what the account and the runs made of it.                   *)
THEOREM InstallerTypes == InstallerSpec => []InstallerTypeOK
<1>1. InstallerTypeOK /\ RunsWell /\ InstallerSound => InstallerTypeOK
  OBVIOUS
<1> QED BY <1>1, InitInstaller, NextInstaller, PTL DEF InstallerSpec

(* No startup file runs a hook that is gone, wherever a run stopped, but    *)
(* one whose place the user changed under its wiring, and one of the        *)
(* edition of PowerShell whose hook went with the other's uninstall.        *)
THEOREM HooksOutliveWirings == InstallerSpec => []NothingRunsWhatIsGone
<1>1. InstallerSound => NothingRunsWhatIsGone
  BY DEF InstallerSound
<1> QED BY <1>1, InitInstaller, NextInstaller, PTL DEF InstallerSpec

(* While our entry is in the search list there is a record of the list as  *)
(* it was without it, and never one with it.                               *)
THEOREM ListIsOnRecord == InstallerSpec => []RecordIsOfBefore
<1>1. InstallerSound => RecordIsOfBefore
  BY DEF InstallerSound
<1> QED BY <1>1, InitInstaller, NextInstaller, PTL DEF InstallerSpec

-----------------------------------------------------------------------------
(* protect-keys.                                                           *)

PkRunType ==
    [at : {"idle", "look", "ask", "apply", "back", "done"}, dryRun : BOOLEAN,
     targets : SUBSET (PkPaths \ {"authorized_keys"}), left : SUBSET PkPaths,
     seen : SUBSET PkPaths, pending : SUBSET PkPaths, theirs : BOOLEAN,
     failed : SUBSET PkPaths, exit : {"none", "ok", "failed", "killed"}]

(* What was seen covered was covered since the run began, and a run has    *)
(* settled each of its targets, or has it left, or in hand.                *)
CoveredSoFar == CoveredIn(pkDisk) \subseteq pkBeen /\ pkRun.seen \subseteq pkBeen

Accounted ==
    /\ pkRun.pending \subseteq pkRun.targets
    /\ pkRun.at \in {"look", "ask", "apply", "back"} => pkRun.exit = "none"
    /\ pkRun.at = "look" => pkRun.failed = {} /\ pkRun.pending = {}
    /\ pkRun.at \in {"ask", "apply", "back"} =>
          /\ pkRun.targets \subseteq pkRun.pending \cup pkRun.seen
          /\ pkRun.left \subseteq pkRun.pending
          /\ pkRun.left \cap (pkRun.seen \cup pkRun.failed) = {}
    /\ pkRun.at \in {"ask", "apply"} => Attempted = {}
    /\ pkRun.at = "back" => \E p \in PkPaths : Attempted = {p}
    /\ pkRun.exit = "ok" /\ ~pkRun.dryRun => pkRun.targets \subseteq pkRun.seen

ProtectKeysSound == pkRun \in PkRunType /\ CoveredSoFar /\ Accounted
LEMMA TwoPathsMore == "dir" \notin PkKeys /\ "authorized_keys" \notin PkKeys
BY ProtectKeysAssumption

LEMMA InitPkTypes ==
    ProtectKeysInit => ProtectKeysTypeOK /\ ProtectKeysSound
<1> SUFFICES ASSUME ProtectKeysInit PROVE ProtectKeysTypeOK /\ ProtectKeysSound
  OBVIOUS
<1>1. pkRun = NoPkRun /\ pkRun \in PkRunType
  BY DEF ProtectKeysInit, NoPkRun, PkRunType
<1>2. pkDisk \in [PkPaths -> States] /\ CoveredIn(pkDisk) = {}
  BY DEF ProtectKeysInit, States, CoveredIn
<1>3. ProtectKeysTypeOK
  BY <1>1, <1>2 DEF ProtectKeysInit, ProtectKeysTypeOK, NoPkRun
<1> QED BY <1>1, <1>2, <1>3 DEF ProtectKeysSound, CoveredSoFar, Accounted, NoPkRun

(* The targets of a run, as it plans them.                                 *)
PkTargets(directory) ==
    {k \in PkKeys : pkDisk[k] # "absent"} \cup {d \in {"dir"} : directory}

LEMMA PlansTargets ==
    ASSUME Plans
    PROVE  \/ pkRun' = [NoPkRun EXCEPT !.at = "done", !.exit = "ok"]
           \/ \E directory, dryRun, theirOwn \in BOOLEAN :
                 pkRun' = [NoPkRun EXCEPT !.at = "look", !.dryRun = dryRun,
                             !.targets = PkTargets(directory), !.left = PkTargets(directory),
                             !.theirs = theirOwn]
BY Zenon DEF Plans, PkEnds, PkTargets

LEMMA TargetsAreOurs ==
    ASSUME NEW directory \in BOOLEAN
    PROVE  PkTargets(directory) \in SUBSET (PkPaths \ {"authorized_keys"})
BY TwoPathsMore DEF PkTargets, PkPaths

(* What is read back is found covered, or has failed.                      *)
LEMMA BackInHand ==
    ASSUME pkRun \in PkRunType, NEW p \in PkPaths, ReadsItBack(p)
    PROVE  /\ pkRun.at = "back" /\ p \in Attempted
           /\ \/ /\ pkDisk[p] = "covered"
                 /\ pkRun' = [pkRun EXCEPT !.seen = @ \cup {p}, !.at = "apply"]
              \/ pkRun' = [pkRun EXCEPT !.failed = @ \cup {p}, !.at = "apply"]
<1>1. CASE pkRun' = [IF IsCovered(p) THEN [pkRun EXCEPT !.seen = @ \cup {p}]
                                     ELSE [pkRun EXCEPT !.failed = @ \cup {p}]
                       EXCEPT !.at = "apply"]
  <2>1. CASE IsCovered(p)
    BY <1>1, <2>1 DEF ReadsItBack, IsCovered
  <2>2. CASE ~IsCovered(p)
    BY <1>1, <2>2 DEF ReadsItBack
  <2> QED BY <2>1, <2>2
<1> QED BY <1>1 DEF ReadsItBack

LEMMA NextPkRun ==
    ASSUME ProtectKeysTypeOK, ProtectKeysSound, ProtectKeysNext
    PROVE  pkRun' \in PkRunType
<1> pkRun \in PkRunType
  BY DEF ProtectKeysSound
<1>1. CASE Plans
  <2>1. NoPkRun \in PkRunType
    BY DEF NoPkRun, PkRunType
  <2>2. CASE pkRun' = [NoPkRun EXCEPT !.at = "done", !.exit = "ok"]
    BY <2>1, <2>2 DEF PkRunType
  <2>3. ASSUME NEW directory \in BOOLEAN, NEW dryRun \in BOOLEAN, NEW theirOwn \in BOOLEAN,
               pkRun' = [NoPkRun EXCEPT !.at = "look", !.dryRun = dryRun,
                             !.targets = PkTargets(directory), !.left = PkTargets(directory),
                             !.theirs = theirOwn]
        PROVE  pkRun' \in PkRunType
    <3>1. PkTargets(directory) \in SUBSET (PkPaths \ {"authorized_keys"})
      BY TargetsAreOurs
    <3> QED BY <2>1, <2>3, <3>1 DEF PkRunType
  <2> QED BY <1>1, <2>2, <2>3, PlansTargets
<1>2. ASSUME NEW p \in PkPaths, LooksAt(p) PROVE pkRun' \in PkRunType
  <2>1. CASE pkRun' = [pkRun EXCEPT !.left = @ \ {p},
                         !.seen = IF pkDisk[p] = "covered" THEN @ \cup {p} ELSE @]
    BY <2>1 DEF PkRunType
  <2>2. CASE pkRun' = [pkRun EXCEPT !.left = @ \ {p}]
    BY <2>2 DEF PkRunType
  <2> QED BY <1>2, <2>1, <2>2 DEF LooksAt
<1>3. CASE Lists
  <2> DEFINE pending == pkRun.targets \ pkRun.seen
  <2>1. pending \in SUBSET PkPaths
    BY DEF PkRunType
  <2>2. CASE pkRun' = [pkRun EXCEPT !.at = "done", !.exit = "ok"]
    BY <2>2 DEF PkRunType
  <2>3. ASSUME NEW at \in {"ask", "apply"},
               pkRun' = [pkRun EXCEPT !.pending = pending, !.left = pending, !.at = at]
        PROVE  pkRun' \in PkRunType
    BY <2>1, <2>3 DEF PkRunType
  <2> HIDE DEF pending
  <2> QED BY <1>3, <2>2, <2>3 DEF Lists, PkEnds, pending
<1>4. CASE AnsweredYes \/ AnsweredOtherwise \/ Reports \/ PkKilled
  <2>1. CASE pkRun' = [pkRun EXCEPT !.at = "apply"]
    BY <2>1 DEF PkRunType
  <2>2. ASSUME NEW exit \in {"ok", "failed", "killed"},
               pkRun' = [pkRun EXCEPT !.at = "done", !.exit = exit]
        PROVE  pkRun' \in PkRunType
    BY <2>2 DEF PkRunType
  <2> QED BY <1>4, <2>1, <2>2 DEF AnsweredYes, AnsweredOtherwise, Reports, PkKilled, PkEnds
<1>5. ASSUME NEW p \in PkPaths, Protects(p) \/ ReadsItBack(p) \/ MeddlesWith(p)
      PROVE  pkRun' \in PkRunType
  <2>1. CASE pkRun' = [pkRun EXCEPT !.at = "back", !.left = @ \ {p}]
    BY <2>1 DEF PkRunType
  <2>2. CASE pkRun' = [pkRun EXCEPT !.seen = @ \cup {p}, !.at = "apply"]
    BY <2>2 DEF PkRunType
  <2>3. CASE pkRun' = [pkRun EXCEPT !.failed = @ \cup {p}, !.at = "apply"]
    BY <2>3 DEF PkRunType
  <2>4. CASE ReadsItBack(p)
    BY <2>2, <2>3, <2>4, BackInHand
  <2> QED BY <1>5, <2>1, <2>4 DEF Protects, MeddlesWith
<1> QED BY <1>1, <1>2, <1>3, <1>4, <1>5 DEF ProtectKeysNext

(* What is covered stays known as covered, and nothing else is seen so.    *)
LEMMA NextCoveredSoFar ==
    ASSUME ProtectKeysTypeOK, ProtectKeysSound, ProtectKeysNext
    PROVE  pkBeen' \subseteq PkPaths /\ pkDisk' \in [PkPaths -> States] /\ CoveredSoFar'
<1> pkRun \in PkRunType
  BY DEF ProtectKeysSound
<1> USE DEF ProtectKeysSound, CoveredSoFar, ProtectKeysTypeOK, PkEnds, CoveredIn, States
<1>1. CASE Plans
  <2>1. pkRun'.seen = {}
    BY <1>1, PlansTargets DEF NoPkRun
  <2> QED BY <1>1, <2>1 DEF Plans
<1>2. ASSUME NEW p \in PkPaths, LooksAt(p)
      PROVE  pkBeen' \subseteq PkPaths /\ pkDisk' \in [PkPaths -> States] /\ CoveredSoFar'
  <2>1. /\ UNCHANGED <<pkDisk, pkBeen>>
        /\ pkRun'.seen \subseteq pkRun.seen \cup (IF pkDisk[p] = "covered" THEN {p} ELSE {})
    BY <1>2 DEF LooksAt, PkRunType
  <2> QED BY <2>1
<1>3. CASE Lists \/ AnsweredYes \/ AnsweredOtherwise \/ Reports \/ PkKilled
  <2>1. UNCHANGED <<pkDisk, pkBeen>> /\ pkRun'.seen = pkRun.seen
    BY <1>3 DEF Lists, AnsweredYes, AnsweredOtherwise, Reports, PkKilled, PkRunType
  <2> QED BY <2>1
<1>4. ASSUME NEW p \in PkPaths, Protects(p)
      PROVE  pkBeen' \subseteq PkPaths /\ pkDisk' \in [PkPaths -> States] /\ CoveredSoFar'
  <2>1. /\ pkRun'.seen = pkRun.seen
        /\ \/ UNCHANGED <<pkDisk, pkBeen>>
           \/ pkDisk' = [pkDisk EXCEPT ![p] = "covered"] /\ pkBeen' = pkBeen \cup {p}
    BY <1>4 DEF Protects, PkRunType
  <2> QED BY <2>1
<1>5. ASSUME NEW p \in PkPaths, ReadsItBack(p)
      PROVE  pkBeen' \subseteq PkPaths /\ pkDisk' \in [PkPaths -> States] /\ CoveredSoFar'
  <2>1. /\ UNCHANGED <<pkDisk, pkBeen>>
        /\ \/ pkDisk[p] = "covered" /\ pkRun'.seen = pkRun.seen \cup {p}
           \/ pkRun'.seen = pkRun.seen
    BY <1>5, BackInHand DEF ReadsItBack, PkRunType
  <2> QED BY <2>1
<1>6. ASSUME NEW p \in PkPaths, MeddlesWith(p)
      PROVE  pkBeen' \subseteq PkPaths /\ pkDisk' \in [PkPaths -> States] /\ CoveredSoFar'
  <2>1. /\ UNCHANGED pkRun /\ pkBeen' = pkBeen \cup CoveredIn(pkDisk')
        /\ \E state \in States : pkDisk' = [pkDisk EXCEPT ![p] = state]
    BY <1>6 DEF MeddlesWith
  <2> QED BY <2>1
<1> QED BY <1>1, <1>2, <1>3, <1>4, <1>5, <1>6 DEF ProtectKeysNext

LEMMA NextAccounted ==
    ASSUME ProtectKeysTypeOK, ProtectKeysSound, ProtectKeysNext
    PROVE  Accounted'
<1> pkRun \in PkRunType /\ pkRun' \in PkRunType
  BY NextPkRun DEF ProtectKeysSound
<1> USE DEF Accounted, Attempted, PkEnds
<1>0. Accounted
  BY DEF ProtectKeysSound
<1>1. CASE Plans
  BY <1>1, PlansTargets DEF NoPkRun
<1>2. ASSUME NEW p \in PkPaths, LooksAt(p) PROVE Accounted'
  <2>1. /\ pkRun.at = "look"
        /\ \A f \in {"at", "exit", "failed", "pending", "targets"} : pkRun'[f] = pkRun[f]
    BY <1>2 DEF LooksAt, PkRunType
  <2>2. /\ pkRun'.at = "look" /\ pkRun'.exit = "none"
        /\ pkRun'.failed = {} /\ pkRun'.pending = {}
    BY <1>0, <2>1
  <2> QED BY <2>2
<1>3. CASE Lists
  <2> DEFINE pending == pkRun.targets \ pkRun.seen
  <2>1. pkRun.at = "look" /\ pkRun.failed = {} /\ pkRun.pending = {} /\ pkRun.exit = "none"
    BY <1>0, <1>3 DEF Lists
  <2>2. CASE (pkRun.dryRun \/ pending = {}) /\ pkRun' = [pkRun EXCEPT !.at = "done", !.exit = "ok"]
    <3>1. /\ pkRun'.at = "done" /\ pkRun'.pending = {}
          /\ pkRun'.targets = pkRun.targets /\ pkRun'.seen = pkRun.seen
          /\ pkRun'.dryRun = pkRun.dryRun
      BY <2>1, <2>2 DEF PkRunType
    <3> QED BY <2>2, <3>1
  <2>3. ASSUME NEW at \in {"ask", "apply"},
               pkRun' = [pkRun EXCEPT !.pending = pending, !.left = pending, !.at = at]
        PROVE  Accounted'
    <3>1. /\ pkRun'.at = at /\ pkRun'.exit = "none" /\ pkRun'.failed = {}
          /\ pkRun'.pending = pending /\ pkRun'.left = pending
          /\ pkRun'.targets = pkRun.targets /\ pkRun'.seen = pkRun.seen
      BY <2>1, <2>3 DEF PkRunType
    <3> QED BY <3>1
  <2> QED BY <1>3, <2>2, <2>3 DEF Lists
<1>4. CASE AnsweredYes
  <2>1. /\ pkRun.at = "ask" /\ pkRun'.at = "apply" /\ pkRun'.exit = pkRun.exit
        /\ pkRun'.failed = pkRun.failed /\ pkRun'.pending = pkRun.pending
        /\ pkRun'.left = pkRun.left /\ pkRun'.targets = pkRun.targets /\ pkRun'.seen = pkRun.seen
    BY <1>4 DEF AnsweredYes, PkRunType
  <2> QED BY <1>0, <2>1
<1>5. CASE AnsweredOtherwise \/ PkKilled
  <2>1. /\ pkRun'.at = "done" /\ pkRun'.exit \in {"failed", "killed"}
        /\ pkRun'.pending = pkRun.pending /\ pkRun'.targets = pkRun.targets
    BY <1>5 DEF AnsweredOtherwise, PkKilled, PkRunType
  <2> QED BY <1>0, <2>1
<1>6. CASE Reports
  <2>1. /\ pkRun.at = "apply" /\ pkRun.left = {}
        /\ pkRun'.at = "done" /\ pkRun'.exit = (IF pkRun.failed = {} THEN "ok" ELSE "failed")
        /\ pkRun'.pending = pkRun.pending /\ pkRun'.targets = pkRun.targets
        /\ pkRun'.seen = pkRun.seen
    BY <1>6 DEF Reports, PkRunType
  <2>2. pkRun.failed = {} => pkRun.targets \subseteq pkRun.seen
    BY <1>0, <2>1
  <2> QED BY <1>0, <2>1, <2>2
<1>7. ASSUME NEW p \in PkPaths, Protects(p) PROVE Accounted'
  <2>1. /\ pkRun.at = "apply" /\ p \in pkRun.left
        /\ pkRun'.at = "back" /\ pkRun'.left = pkRun.left \ {p} /\ pkRun'.exit = pkRun.exit
        /\ pkRun'.failed = pkRun.failed /\ pkRun'.pending = pkRun.pending
        /\ pkRun'.targets = pkRun.targets /\ pkRun'.seen = pkRun.seen
    BY <1>7 DEF Protects, PkRunType
  <2>2. Attempted' = {p}
    BY <1>0, <2>1
  <2> HIDE DEF Attempted
  <2> QED BY <1>0, <2>1, <2>2
<1>8. ASSUME NEW p \in PkPaths, ReadsItBack(p) PROVE Accounted'
  <2>1. /\ pkRun.at = "back" /\ p \in Attempted
        /\ pkRun'.at = "apply" /\ pkRun'.left = pkRun.left /\ pkRun'.exit = pkRun.exit
        /\ pkRun'.pending = pkRun.pending /\ pkRun'.targets = pkRun.targets
        /\ \/ pkRun'.seen = pkRun.seen \cup {p} /\ pkRun'.failed = pkRun.failed
           \/ pkRun'.seen = pkRun.seen /\ pkRun'.failed = pkRun.failed \cup {p}
    <3> HIDE DEF Attempted
    <3>1. CASE pkRun' = [pkRun EXCEPT !.seen = @ \cup {p}, !.at = "apply"]
      BY <1>8, <3>1, BackInHand DEF PkRunType
    <3>2. CASE pkRun' = [pkRun EXCEPT !.failed = @ \cup {p}, !.at = "apply"]
      BY <1>8, <3>2, BackInHand DEF PkRunType
    <3> QED BY <1>8, <3>1, <3>2, BackInHand
  <2>2. Attempted = {p} /\ p \notin pkRun.left
    <3> HIDE DEF Attempted
    <3>1. Attempted = {p}
      BY <1>0, <2>1
    <3> QED BY <3>1 DEF Attempted
  <2>3. Attempted' = {}
    BY <2>1, <2>2
  <2> HIDE DEF Attempted
  <2> QED BY <1>0, <2>1, <2>2, <2>3
<1>9. ASSUME NEW p \in PkPaths, MeddlesWith(p) PROVE Accounted'
  BY <1>0, <1>9 DEF MeddlesWith
<1> QED BY <1>1, <1>2, <1>3, <1>4, <1>5, <1>6, <1>7, <1>8, <1>9 DEF ProtectKeysNext

LEMMA NextPkTypes ==
    ProtectKeysTypeOK /\ ProtectKeysSound /\ [ProtectKeysNext]_pkVars
        => ProtectKeysTypeOK' /\ ProtectKeysSound'
<1> SUFFICES ASSUME ProtectKeysTypeOK, ProtectKeysSound, [ProtectKeysNext]_pkVars
             PROVE  ProtectKeysTypeOK' /\ ProtectKeysSound'
  OBVIOUS
<1>1. CASE UNCHANGED pkVars
  BY <1>1 DEF pkVars, ProtectKeysTypeOK, ProtectKeysSound, CoveredSoFar, Accounted, Attempted,
     CoveredIn
<1>2. CASE ProtectKeysNext
  <2>1. pkRun' \in PkRunType /\ Accounted' /\ CoveredSoFar'
    BY <1>2, NextPkRun, NextAccounted, NextCoveredSoFar
  <2>2. pkBeen' \subseteq PkPaths /\ pkDisk' \in [PkPaths -> States]
    BY <1>2, NextCoveredSoFar
  <2>3. (pkRun.at = "back" => Cardinality(Attempted) = 1)'
    <3>1. \A p \in PkPaths : Cardinality({p}) = 1
      BY FS_Singleton
    <3> QED BY <2>1, <3>1 DEF Accounted
  <2>4. /\ pkRun'.at \in {"idle", "look", "ask", "apply", "back", "done"}
        /\ pkRun'.exit \in {"none", "ok", "failed", "killed"}
        /\ "authorized_keys" \notin pkRun'.targets
    BY <2>1 DEF PkRunType
  <2> QED BY <2>1, <2>2, <2>3, <2>4 DEF ProtectKeysTypeOK, ProtectKeysSound, Accounted
<1> QED BY <1>1, <1>2

(* The types of protect-keys, and that the authorized_keys are never a     *)
(* target of it.                                                           *)
THEOREM ProtectKeysTypes == ProtectKeysSpec => []ProtectKeysTypeOK
<1>1. ProtectKeysTypeOK /\ ProtectKeysSound => ProtectKeysTypeOK
  OBVIOUS
<1> QED BY <1>1, InitPkTypes, NextPkTypes, PTL DEF ProtectKeysSpec

(* A run that ended well covered every one of its targets, whatever the    *)
(* calls that cover one said and the others did to the files.              *)
THEOREM SuccessfulRunsCover == ProtectKeysSpec => []SuccessIsReal
<1>1. ProtectKeysSound => SuccessIsReal
  BY DEF ProtectKeysSound, CoveredSoFar, Accounted, SuccessIsReal
<1> QED BY <1>1, InitPkTypes, NextPkTypes, PTL DEF ProtectKeysSpec

-----------------------------------------------------------------------------
(* The configuration.                                                      *)

(* Nothing is written before a setting is followed, and an edit that ended *)
(* has said what there was to say.                                         *)
EditStands ==
    /\ cfSetting = "none" => cfEdit = NoEdit /\ cfWritten = Nothing
    /\ cfSetting \in Settings \ {"editor"} =>
          (cfEdit.exit = "ok" /\ cfEdit.lost => cfEdit.said)

CfEditType ==
    [at : {"none", "editor", "ended"}, exit : {"none", "ok", "failed"},
     said : BOOLEAN, lost : BOOLEAN]

WrittenType == [Places -> {"absent", "blank", "bad"} \cup Good]

ConfigurationSound == cfEdit \in CfEditType /\ cfWritten \in WrittenType /\ EditStands

LEMMA TextsAreTexts ==
    ASSUME NEW setting \in Settings, NEW where \in Places
    PROVE  /\ "absent" \in Texts(setting, where)
           /\ Texts(setting, where) \subseteq {"absent", "blank", "bad"} \cup Good
BY DEF Texts, Settings

(* The place named decides, for each kind of setting and whatever is       *)
(* written where.                                                          *)
LEMMA OriginsDecide ==
    ASSUME NEW s \in Settings \ {"editor"}, NEW w \in WrittenType,
           \A p \in Places : w[p] \in Texts(s, p)
    PROVE  LET o == StatedBy(s, w)
           IN IF o = "default" THEN InForce(s, w) = InForce(s, Nothing)
              ELSE Decides(o, s, w)
<1> USE DEF WrittenType, Texts, Places, Good, Nothing, StatedBy, FileStating, EnvUsed, IsStated,
        InForce, Resolve, Decides, Used, OrRefused, OrDefault, MergedFile, Coalesced, FileOnly
<1>1. CASE s = "duration"
  BY <1>1 DEF ResolveDuration
<1>2. CASE s = "attempts"
  BY <1>2 DEF ResolveMaxAttempts
<1>3. CASE s = "switch"
  BY <1>3 DEF ResolveBool
<1>4. CASE s = "named"
  BY <1>4 DEF ResolveNamed
<1>5. CASE s = "name"
  BY <1>5 DEF ResolveName
<1>6. CASE s = "patterns"
  BY <1>6 DEF ResolveKeyPatterns
<1>7. CASE s = "free"
  BY <1>7 DEF ResolveFree
<1> QED BY <1>1, <1>2, <1>3, <1>4, <1>5, <1>6, <1>7 DEF Settings

(* A value of the main file that decides nothing is refused or overruled.  *)
LEMMA LostValuesAreSaid ==
    ASSUME NEW s \in Settings \ {"editor"}, NEW w \in WrittenType,
           \A p \in Places : w[p] \in Texts(s, p),
           w["main"] \in Good, InForce(s, w) # w["main"]
    PROVE  Overruled(s, w)
<1> USE DEF WrittenType, Texts, Places, Good, StatedBy, FileStating, EnvUsed, IsStated, Overruled,
        InForce, Resolve, Used, OrRefused, OrDefault, MergedFile, Coalesced, FileOnly
<1>1. CASE s = "duration"
  BY <1>1 DEF ResolveDuration
<1>2. CASE s = "attempts"
  BY <1>2 DEF ResolveMaxAttempts
<1>3. CASE s = "switch"
  BY <1>3 DEF ResolveBool
<1>4. CASE s = "named"
  BY <1>4 DEF ResolveNamed
<1>5. CASE s = "name"
  BY <1>5 DEF ResolveName
<1>6. CASE s = "patterns"
  BY <1>6 DEF ResolveKeyPatterns
<1>7. CASE s = "free"
  BY <1>7 DEF ResolveFree
<1> QED BY <1>1, <1>2, <1>3, <1>4, <1>5, <1>6, <1>7 DEF Settings

LEMMA ReadIsWritten ==
    ASSUME NEW setting \in Settings, NEW w \in WrittenType, NEW file,
           \A p \in Places : w[p] \in Texts(setting, p)
    PROVE  /\ Read(w, file) \in WrittenType
           /\ \A p \in Places : Read(w, file)[p] \in Texts(setting, p)
<1>1. \A p \in Places : "absent" \in Texts(setting, p)
  BY TextsAreTexts
<1> QED BY <1>1 DEF Read, WrittenType, Places

LEMMA InitConfiguration == ConfigurationInit => ConfigurationTypeOK /\ ConfigurationSound
<1> SUFFICES ASSUME ConfigurationInit PROVE ConfigurationTypeOK /\ ConfigurationSound
  OBVIOUS
<1>1. cfEdit = NoEdit /\ NoEdit \in CfEditType
  BY DEF ConfigurationInit, NoEdit, CfEditType
<1>2. cfWritten = Nothing /\ Nothing \in WrittenType
  BY DEF ConfigurationInit, Nothing, WrittenType
<1>3. \A p \in Places : Nothing[p] \in Texts("none", p)
  BY DEF Nothing, Texts, FileOnly
<1> QED
  BY <1>1, <1>2, <1>3 DEF ConfigurationInit, ConfigurationTypeOK, ConfigurationSound, EditStands,
     NoEdit, Settings

LEMMA NextConfiguration ==
    ConfigurationTypeOK /\ ConfigurationSound /\ [ConfigurationNext]_cfVars
        => ConfigurationTypeOK' /\ ConfigurationSound'
<1> SUFFICES ASSUME ConfigurationTypeOK, ConfigurationSound, [ConfigurationNext]_cfVars
             PROVE  ConfigurationTypeOK' /\ ConfigurationSound'
  OBVIOUS
<1> USE DEF ConfigurationTypeOK, ConfigurationSound, EditStands
<1>0. "none" \notin Settings
  BY DEF Settings
<1>1. CASE UNCHANGED cfVars
  BY <1>1 DEF cfVars
<1>2. CASE Follows
  <2>1. /\ cfSetting = "none" /\ cfSetting' \in Settings /\ cfEdit = NoEdit
        /\ cfWritten = Nothing /\ UNCHANGED <<cfWritten, cfFile, cfEdit>>
    BY <1>2 DEF Follows
  <2>2. \A p \in Places : Nothing[p] \in Texts(cfSetting', p)
    BY <2>1, TextsAreTexts DEF Nothing
  <2> QED BY <1>0, <2>1, <2>2 DEF NoEdit
<1>3. ASSUME NEW where \in Places, NEW text \in Texts(cfSetting, where), cfSetting # "none",
             cfWritten' = [cfWritten EXCEPT ![where] = text],
             cfFile' \in {"fine", "unknown_keys", "broken"}, UNCHANGED <<cfSetting, cfEdit>>
      PROVE  ConfigurationTypeOK' /\ ConfigurationSound'
  <2>1. cfWritten' \in WrittenType /\ \A p \in Places : cfWritten'[p] \in Texts(cfSetting, p)
    BY <1>3, TextsAreTexts DEF WrittenType
  <2> QED BY <1>3, <2>1
<1>4. CASE Saves
  <2>1. cfSetting # "none"
    BY <1>4 DEF Saves, NoEdit
  <2> QED BY <1>3, <1>4, <2>1 DEF Saves, Places
<1>5. ASSUME NEW where \in {"dropin", "env"}, Writes(where)
      PROVE  ConfigurationTypeOK' /\ ConfigurationSound'
  BY <1>3, <1>5 DEF Writes, Places
<1>6. CASE OpensEditor \/ EditsAgain
  <2>1. /\ cfSetting # "none" /\ UNCHANGED <<cfSetting, cfWritten, cfFile>>
        /\ \/ cfEdit' = [NoEdit EXCEPT !.at = "editor"]
           \/ cfEdit' = [NoEdit EXCEPT !.at = "ended", !.exit = "failed"]
           \/ cfEdit' = NoEdit
    BY <1>6 DEF OpensEditor, EditsAgain, NoEdit
  <2>2. cfEdit' \in CfEditType /\ cfEdit'.exit # "ok"
    <3> USE DEF NoEdit, CfEditType
    <3>1. CASE cfEdit' = [NoEdit EXCEPT !.at = "editor"]
      BY <3>1
    <3>2. CASE cfEdit' = [NoEdit EXCEPT !.at = "ended", !.exit = "failed"]
      BY <3>2
    <3>3. CASE cfEdit' = NoEdit
      BY <3>3
    <3> QED BY <2>1, <3>1, <3>2, <3>3
  <2> QED BY <2>1, <2>2 DEF CfEditType
<1>7. CASE ReportsEdited
  <2> DEFINE w == Read(cfWritten, cfFile)
  <2>1. /\ cfSetting \in Settings /\ UNCHANGED <<cfSetting, cfWritten, cfFile>>
    BY <1>7 DEF ReportsEdited, NoEdit
  <2>2. w \in WrittenType /\ \A p \in Places : w[p] \in Texts(cfSetting, p)
    BY <2>1, ReadIsWritten
  <2>3. /\ cfEdit'.at = "ended" /\ cfEdit'.exit \in {"ok", "failed"}
        /\ cfEdit' \in CfEditType
    BY <1>7, Zenon DEF ReportsEdited, CfEditType
  <2>4. cfEdit'.lost => w["main"] \in Good /\ InForce(cfSetting, w) # w["main"]
    BY <1>7 DEF ReportsEdited
  <2>5. Overruled(cfSetting, w) => cfEdit'.said
    BY <1>7 DEF ReportsEdited
  <2>6. cfSetting # "editor" => (cfEdit'.lost => cfEdit'.said)
    <3> HIDE DEF w
    <3> QED BY <2>1, <2>2, <2>4, <2>5, LostValuesAreSaid
  <2> QED BY <1>0, <2>1, <2>3, <2>6 DEF CfEditType
<1> QED BY <1>1, <1>2, <1>4, <1>5, <1>6, <1>7 DEF ConfigurationNext

(* The types of the configuration: what is written where is a text its     *)
(* setting can have there.                                                 *)
THEOREM ConfigurationTypes == ConfigurationSpec => []ConfigurationTypeOK
<1>1. ConfigurationTypeOK /\ ConfigurationSound => ConfigurationTypeOK
  OBVIOUS
<1> QED BY <1>1, InitConfiguration, NextConfiguration, PTL DEF ConfigurationSpec

(* Of every setting but the editor, what the two reports say is so,         *)
(* whatever is written, however often it changes.                          *)
THEOREM TrueReports == ConfigurationSpec => []ReportsAreTrue
<1>1. ConfigurationTypeOK /\ ConfigurationSound => ReportsAreTrue
  <2> SUFFICES ASSUME ConfigurationTypeOK, ConfigurationSound, cfSetting \in Settings \ {"editor"}
               PROVE  NamesWhatDecides(cfSetting)
    BY DEF ReportsAreTrue, ConfigurationSound, EditStands
  <2> DEFINE w == Read(cfWritten, cfFile)
  <2>1. w \in WrittenType /\ \A p \in Places : w[p] \in Texts(cfSetting, p)
    BY ReadIsWritten DEF ConfigurationSound, ConfigurationTypeOK
  <2> HIDE DEF w
  <2>2. LET o == StatedBy(cfSetting, w)
        IN IF o = "default" THEN InForce(cfSetting, w) = InForce(cfSetting, Nothing)
           ELSE Decides(o, cfSetting, w)
    BY <2>1, OriginsDecide
  <2> QED BY <2>2 DEF NamesWhatDecides, w
<1> QED BY <1>1, InitConfiguration, NextConfiguration, PTL DEF ConfigurationSpec
=============================================================================
