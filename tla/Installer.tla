------------------------------ MODULE Installer ------------------------------
(***************************************************************************)
(* sshakku install and uninstall: the hook is rendered into a directory of *)
(* its own, a startup file of the shell is made to run it -- by a marked   *)
(* block, or by a file in a drop-in directory beside it where one is read  *)
(* -- and the program's directory goes in the stored search list; and all  *)
(* of it is taken out again.                                               *)
(*                                                                         *)
(* One run at a time, for either shell and either scope, with and without  *)
(* the authority over the machine, which may fail or be killed between any *)
(* two steps.  Between runs and during them the user edits the startup     *)
(* files, makes and removes the directories, and edits the search list.    *)
(* Bash stands for the Bourne shells; "core" and "windows" are the two     *)
(* editions of PowerShell, which have startup files of their own and one   *)
(* hook between them.                                                      *)
(***************************************************************************)
EXTENDS Naturals, Sequences

CONSTANTS
  MaxRuns,      \* installs and uninstalls
  MaxHandEdits  \* what the user does to the same files

ASSUME InstallerAssumption == {MaxRuns, MaxHandEdits} \subseteq Nat

Kinds == {"bash", "core", "windows"}
InScopes == {"user", "machine"}

(* BourneLoginFile's candidates, of which an account has two here, and      *)
(* EveryProfile's, of which a host names two: one per scope.                *)
Candidates(kind) ==
  CASE kind = "bash" -> <<"bash_profile", "profile">>
    [] kind = "core" -> <<"my_profile", "all_profile">>
    [] kind = "windows" -> <<"win_profile", "win_all_profile">>

(* machineWiringFor: a directory every login shell reads.                   *)
SystemWide == "profile.d"
StartupFiles == {"bash_profile", "profile", "my_profile", "all_profile",
                 "win_profile", "win_all_profile", SystemWide}
ScopeOf(file) == IF file \in {"all_profile", "win_all_profile", SystemWide} THEN "machine" ELSE "user"
KindOf(file) ==
  CASE file \in {"my_profile", "all_profile"} -> "core"
    [] file \in {"win_profile", "win_all_profile"} -> "windows"
    [] OTHER -> "bash"

(* hookName: a hook is named for the language it is written in.             *)
Languages == {"bourne", "powershell"}
Language(kind) == IF kind = "bash" THEN "bourne" ELSE "powershell"
HookOf(file) == <<ScopeOf(file), Language(KindOf(file))>>

VARIABLES
  inLines,   \* what each startup file holds of somebody else's
  inBlock,   \* the files that hold our block
  inDir,     \* those with a drop-in directory beside them
  inDropIn,  \* those with our file in it
  inHooks,   \* the hooks that are rendered: <<scope, language>>
  inPath,    \* the search list: our entry, and a version of the others
  inRecord,  \* the list as it was written down
  inRun,     \* the run, and what it has settled
  inGone,    \* history: the shells whose last run was a finished uninstall
  inMoved,   \* history: wired files whose place the user has changed
  inBereft,  \* history: files wired to a hook that another kind's uninstall took away
  inRuns, inEdits

inFiles == <<inLines, inBlock, inDir, inDropIn>>
inVars == <<inFiles, inHooks, inPath, inRecord, inRun, inGone, inMoved, inBereft, inRuns, inEdits>>

(* "blank" is a file with nothing of theirs in it; "loads" mentions the     *)
(* drop-in directory.                                                       *)
Contents == {"absent", "blank", "theirs", "loads"}
NoPlace == [file |-> SystemWide, dropIn |-> FALSE]
NoRun == [op |-> "none", kind |-> "bash", scope |-> "user", admin |-> FALSE,
          at |-> "idle", place |-> NoPlace, sweep |-> <<>>, raw |-> [ours |-> FALSE, theirs |-> 0]]

InstallerInit ==
  /\ inLines = [f \in StartupFiles |-> IF f = "profile" THEN "theirs" ELSE "absent"]
  /\ inBlock = {} /\ inDir = {} /\ inDropIn = {} /\ inHooks = {}
  /\ inPath = [ours |-> FALSE, theirs |-> 0] /\ inRecord = {}
  /\ inRun = NoRun /\ inGone = {} /\ inMoved = {} /\ inBereft = {} /\ inRuns = 0 /\ inEdits = 0
-----------------------------------------------------------------------------
(* resolve: where the wiring goes, asked of the disk before any writing.    *)

(* PlaceBourne: the directory is there.  PlacePowerShell: and is read.      *)
InDropIn(file, lines, dirs) == file \in dirs /\ (KindOf(file) = "bash" \/ lines[file] = "loads")
PlaceIn(file) == [file |-> file, dropIn |-> InDropIn(file, inLines, inDir)]

There(file) == inLines[file] # "absent" \/ file \in inBlock

(* BourneLoginFile, ProfileFor, forMachine.                                 *)
Target(kind, scope) ==
  CASE kind # "bash" -> PlaceIn(Candidates(kind)[IF scope = "user" THEN 1 ELSE 2])
    [] kind = "bash" /\ scope = "machine" -> [file |-> SystemWide, dropIn |-> TRUE]
    [] OTHER -> PlaceIn(IF There("bash_profile") \/ ~There("profile") THEN "bash_profile" ELSE "profile")

(* Every place an install could have chosen, as the disk is now.            *)
Sweep(kind, scope) ==
  IF kind = "bash" /\ scope = "machine" THEN <<Target(kind, scope)>>
  ELSE [i \in 1..2 |-> PlaceIn(Candidates(kind)[i])]

(* refuseAChangeThisSessionCannotFinish comes before everything else.       *)
Begins(op, kind, scope, admin) ==
  /\ inRun.at = "idle" /\ inRuns < MaxRuns /\ inRuns' = inRuns + 1
  /\ scope = "machine" => admin
  /\ inRun' = [NoRun EXCEPT !.op = op, !.kind = kind, !.scope = scope, !.admin = admin,
                 !.at = IF op = "install" THEN "render" ELSE "sweep",
                 !.place = Target(kind, scope), !.sweep = Sweep(kind, scope)]
  /\ inGone' = inGone \ {kind}
  /\ UNCHANGED <<inFiles, inHooks, inPath, inRecord, inMoved, inBereft, inEdits>>

InGoes(to) == inRun' = [inRun EXCEPT !.at = to]
(* The search list is last, unless --no-path.                               *)
ThenPath == InGoes("path") \/ InGoes("end")
MayWrite(file) == inRun.admin \/ ScopeOf(file) = "user"
Hook == <<inRun.scope, Language(inRun.kind)>>
-----------------------------------------------------------------------------
(* Install.                                                                 *)

(* renderInto: over an older one by a rename.                               *)
Renders ==
  /\ inRun.at = "render" /\ inHooks' = inHooks \cup {Hook} /\ InGoes("wire")
  /\ inBereft' = {f \in inBereft : HookOf(f) # Hook}
  /\ UNCHANGED <<inFiles, inPath, inRecord, inGone, inMoved, inRuns, inEdits>>

(* At the end of the file, or where the block already is; a file that is    *)
(* not there is made.                                                       *)
UpsertBlockFile(f) ==
  /\ inLines' = [inLines EXCEPT ![f] = IF @ = "absent" THEN "blank" ELSE @]
  /\ inBlock' = inBlock \cup {f} /\ UNCHANGED <<inDir, inDropIn>>

(* The system's directory is ours to make, one beside a startup file is not. *)
WriteDropIn(f) ==
  /\ f = SystemWide \/ f \in inDir
  /\ inDir' = inDir \cup {f} /\ inDropIn' = inDropIn \cup {f} /\ UNCHANGED <<inLines, inBlock>>

Wires ==
  /\ inRun.at = "wire" /\ MayWrite(inRun.place.file)
  /\ IF inRun.place.dropIn THEN WriteDropIn(inRun.place.file) ELSE UpsertBlockFile(inRun.place.file)
  /\ ThenPath
  /\ UNCHANGED <<inHooks, inPath, inRecord, inGone, inMoved, inBereft, inRuns, inEdits>>
-----------------------------------------------------------------------------
(* Uninstall.                                                               *)

RemoveDropIn(f) ==
  /\ f \in inDropIn => MayWrite(f)
  /\ inDropIn' = inDropIn \ {f} /\ UNCHANGED <<inLines, inBlock, inDir>>

(* Rewrites the file whether it held a block or not, and removes one with   *)
(* nothing left in it.                                                      *)
StripBlockFile(f) ==
  /\ There(f) => MayWrite(f)
  /\ inLines' = [inLines EXCEPT ![f] = IF @ = "blank" THEN "absent" ELSE @]
  /\ inBlock' = inBlock \ {f} /\ UNCHANGED <<inDir, inDropIn>>

(* unwire, of the next place.                                               *)
Unwires ==
  /\ inRun.at = "sweep" /\ inRun.sweep # <<>>
  /\ LET place == Head(inRun.sweep)
     IN IF place.dropIn THEN RemoveDropIn(place.file) ELSE StripBlockFile(place.file)
  /\ inRun' = [inRun EXCEPT !.sweep = Tail(@)]
  /\ UNCHANGED <<inHooks, inPath, inRecord, inGone, inMoved, inBereft, inRuns, inEdits>>

\* Mutant: the hook goes before what runs it.
WhenItLikes == inRun.at = "sweep"

AllUnwired == inRun.at = "sweep" /\ inRun.sweep = <<>>

(* Whoever else runs it: the other edition of PowerShell is not asked about. *)
RemovesHook ==
  /\ inRun.op = "uninstall" /\ AllUnwired
  /\ inHooks' = inHooks \ {Hook} /\ ThenPath
  /\ inBereft' = inBereft \cup {f \in inBlock \cup inDropIn : HookOf(f) = Hook /\ KindOf(f) # inRun.kind}
  /\ UNCHANGED <<inFiles, inPath, inRecord, inGone, inMoved, inRuns, inEdits>>
-----------------------------------------------------------------------------
(* changePath: the list is read, written down if it is about to hold more   *)
(* than the account had, and written.                                       *)

Wanted == inRun.op = "install"

\* Mutant: the list is written down whatever the change.
AnyChange == TRUE

WritesDown == Wanted

(* PathList.Add and Remove: one entry more, or every one of ours out, with  *)
(* the others as they stand.                                                *)
PathList(list) == [list EXCEPT !.ours = Wanted]

ReadsPath ==
  /\ inRun.at = "path"
  /\ inRun' = [inRun EXCEPT !.raw = inPath, !.at = IF PathList(inPath) = inPath THEN "end" ELSE "record"]
  /\ UNCHANGED <<inFiles, inHooks, inPath, inRecord, inGone, inMoved, inBereft, inRuns, inEdits>>

RecordsPath ==
  /\ inRun.at = "record" /\ InGoes("write")
  /\ inRecord' = IF WritesDown THEN {inRun.raw} ELSE inRecord
  /\ UNCHANGED <<inFiles, inHooks, inPath, inGone, inMoved, inBereft, inRuns, inEdits>>

WritesPath ==
  /\ inRun.at = "write" /\ inPath' = PathList(inRun.raw) /\ InGoes("end")
  /\ UNCHANGED <<inFiles, inHooks, inRecord, inGone, inMoved, inBereft, inRuns, inEdits>>

EndsRun ==
  /\ inRun.at = "end" /\ inRun' = NoRun
  /\ inGone' = IF inRun.op = "uninstall" /\ inRun.scope = "user" THEN inGone \cup {inRun.kind} ELSE inGone
  /\ UNCHANGED <<inFiles, inHooks, inPath, inRecord, inMoved, inBereft, inRuns, inEdits>>

(* A call that fails ends the run where it stands, and so does a kill.      *)
StopsShort ==
  /\ inRun.at # "idle" /\ inRun' = NoRun
  /\ UNCHANGED <<inFiles, inHooks, inPath, inRecord, inGone, inMoved, inBereft, inRuns, inEdits>>
-----------------------------------------------------------------------------
(* The user.                                                                *)

HandEdit == inEdits < MaxHandEdits /\ inEdits' = inEdits + 1
Wired(f) == f \in inBlock \cup inDropIn \/ (inRun.op = "install" /\ inRun.place.file = f)

(* A wiring is no longer where it would be looked for.                      *)
Misplaces(f, lines, dirs) ==
  inMoved' = IF Wired(f) /\ InDropIn(f, lines, dirs) # InDropIn(f, inLines, inDir) THEN inMoved \cup {f} ELSE inMoved

EditsFile(f) ==
  /\ HandEdit /\ \E lines \in Contents \ {"absent", inLines[f]} : inLines' = [inLines EXCEPT ![f] = lines]
  /\ Misplaces(f, inLines', inDir)
  /\ UNCHANGED <<inBlock, inDir, inDropIn, inHooks, inPath, inRecord, inRun, inGone, inBereft, inRuns>>

MakesDir(f) ==
  /\ HandEdit /\ f \notin inDir /\ inDir' = inDir \cup {f} /\ Misplaces(f, inLines, inDir')
  /\ UNCHANGED <<inLines, inBlock, inDropIn, inHooks, inPath, inRecord, inRun, inGone, inBereft, inRuns>>

RemovesDir(f) ==
  /\ HandEdit /\ f \in inDir /\ inDir' = inDir \ {f} /\ inDropIn' = inDropIn \ {f}
  /\ Misplaces(f, inLines, inDir')
  /\ UNCHANGED <<inLines, inBlock, inHooks, inPath, inRecord, inRun, inGone, inBereft, inRuns>>

EditsPath ==
  /\ HandEdit
  /\ \/ inPath' = [inPath EXCEPT !.theirs = @ + 1]
     \/ inPath.ours /\ inPath' = [inPath EXCEPT !.ours = FALSE]
  /\ UNCHANGED <<inFiles, inHooks, inRecord, inRun, inGone, inMoved, inBereft, inRuns>>

InstallerNext ==
  \/ \E op \in {"install", "uninstall"}, kind \in Kinds, scope \in InScopes, admin \in BOOLEAN :
       Begins(op, kind, scope, admin)
  \/ Renders \/ Wires \/ Unwires \/ RemovesHook
  \/ ReadsPath \/ RecordsPath \/ WritesPath \/ EndsRun \/ StopsShort
  \/ \E f \in StartupFiles \ {SystemWide} : EditsFile(f) \/ MakesDir(f) \/ RemovesDir(f)
  \/ EditsPath

InstallerSpec == InstallerInit /\ [][InstallerNext]_inVars
-----------------------------------------------------------------------------
(* The types of the variables.                                              *)
InstallerTypeOK ==
  /\ inLines \in [StartupFiles -> Contents] /\ inBlock \subseteq StartupFiles
  /\ inDropIn \subseteq inDir /\ inDir \subseteq StartupFiles
  /\ inHooks \subseteq InScopes \X Languages
  /\ {inPath, inRun.raw} \cup inRecord \subseteq [ours : BOOLEAN, theirs : 0..MaxHandEdits]
  /\ inRun.at \in {"idle", "render", "wire", "sweep", "path", "record", "write", "end"}
  /\ inRun.sweep \in Seq([file : StartupFiles, dropIn : BOOLEAN])
  /\ inGone \subseteq Kinds /\ inMoved \cup inBereft \subseteq StartupFiles
  /\ inRuns \in 0..MaxRuns /\ inEdits \in 0..MaxHandEdits

(* docs/TEST-MATRIX.md:187, of a build that left one behind, "a session     *)
(* started on that profile is told CommandNotFoundException, every time":   *)
(* wherever a run of either command stops, for any shell and either scope   *)
(* and after whatever the user did to the files, no startup file runs a     *)
(* hook that is not there, with two exceptions.  One whose place was        *)
(* changed under its wiring is one.  The other is the code's: a finished    *)
(* sweep of one edition of PowerShell takes away the hook (apply.go:205)    *)
(* that hookName (apply.go:522) has the other edition's profile run too,    *)
(* which is then without one until either edition is installed again.       *)
NothingRunsWhatIsGone ==
  \A f \in (inBlock \cup inDropIn) \ (inMoved \cup inBereft) : HookOf(f) \in inHooks

(* pathenv_windows.go, "the record exists to say what that was": while our  *)
(* entry is in the list there is a record of it as it was without, however  *)
(* installs and uninstalls followed each other and wherever one stopped.    *)
RecordIsOfBefore == (inPath.ours => inRecord # {}) /\ \A list \in inRecord : ~list.ours

(* docs/CLI.md:296, "uninstall takes the same selectors, and sweeps every   *)
(* file an install of that shell could have chosen": when an uninstall has  *)
(* finished, nothing of the account's still runs the hook.                  *)
NothingLeftWired ==
  \A f \in inBlock \cup inDropIn : ScopeOf(f) = "user" => KindOf(f) \notin inGone
=============================================================================
