------------------------------ MODULE MoveKeys ------------------------------
(***************************************************************************)
(* sshakku move-keys: deps.moveKeys (internal/cli/movekeys.go) over        *)
(* PlanFor and Apply (internal/keys/move/move.go) and SetKeyDir            *)
(* (internal/config/write.go). Key files go from the old directory to the  *)
(* new one by one, each given its permissions, and the user's own          *)
(* configuration is told; what fails part way is put back.                 *)
(*                                                                         *)
(* Any rename, permission, or write may fail; the run may be killed; and   *)
(* somebody else may have, or make, a file of the same name.               *)
(***************************************************************************)
EXTENDS Integers

CONSTANTS
    NumFiles,     \* files in the plan: each key, and its public half if any
    MaxFailures,  \* bound: how many of a run's calls fail
    MaxIntruders  \* bound: files others make under the run's feet

ASSUME BoundsAssumption ==
    /\ NumFiles \in Nat \ {0}
    /\ MaxFailures \in Nat
    /\ MaxIntruders \in Nat

Files == 1..NumFiles   \* in the order of the plan's Moves

VARIABLES
    place,      \* the directory each file of the plan is in
    theirs,     \* in each directory, the names taken by somebody else's file
    late,       \* history: the names taken after Blocked had looked
    lost,       \* history: the names whose file a rename has replaced
    keyDir,     \* what the line with key_dir says in the user's own config.toml
    form,       \* how that file stands: see Forms
    decides,    \* the file that decides key_dir: "own", or one read "later"
    pc,
    way,        \* where Apply is taking the files
    next,       \* the file Apply, or putBack, is at
    stranded,   \* Result.Stranded
    said,       \* what the user was told
    failures,
    intruders

disk == <<place, theirs, late, lost>>
conf == <<keyDir, form, decides>>
vars == <<disk, conf, pc, way, next, stranded, said, failures, intruders>>

Dirs == {"old", "new"}
Names == [Dirs -> SUBSET Files]
NoNames == [d \in Dirs |-> {}]

(* A line with key_dir counts in a plain file. In a broken one, which does *)
(* not parse, nothing does; in one that ends in a table, or has the line   *)
(* in it, key_dir is the table's and unknown.                              *)
Forms == {"plain", "table", "broken"}

Other(dir) == IF dir = "old" THEN "new" ELSE "old"

Init ==
    /\ place = [f \in Files |-> "old"]
    /\ theirs \in Names /\ theirs["old"] = {}
    /\ late = NoNames /\ lost = NoNames
    /\ keyDir = "old" /\ form \in Forms
    /\ decides \in {"own", "later"}
    /\ pc = "check"
    /\ way = "new"
    /\ next = 1
    /\ stranded = {}
    /\ said = "silence"
    /\ failures = 0
    /\ intruders = 0

Fails == failures < MaxFailures /\ failures' = failures + 1 /\ UNCHANGED intruders
Works == UNCHANGED <<failures, intruders>>
Says(what) == said' = what /\ pc' = "ended"

\* moveKeysStopped
Stops(left) == Says(IF left = {} THEN "unmoved" ELSE "stranded")

\* os.Rename takes the place of whatever has the name already.
Rename(f, dir) ==
    /\ place' = [place EXCEPT ![f] = dir]
    /\ theirs' = [theirs EXCEPT ![dir] = @ \ {f}]
    /\ lost' = [lost EXCEPT ![dir] = @ \cup (theirs[dir] \cap {f})]
    /\ UNCHANGED late

-----------------------------------------------------------------------------
(* Before anything moves: moveKeysRefusal and prepareKeyDir.                *)

\* Mutant: only the first destination is looked at.
FirstBlocked == 1 \in theirs["new"]

Blocked == theirs["new"] # {}

(* KeyDirDecidedElsewhere, Blocked, WritableConfig: nothing has changed.    *)
Refused ==
    /\ pc = "check"
    /\ \/ (decides = "later" \/ Blocked) /\ Works
       \/ Fails
    /\ Says("refused")
    /\ UNCHANGED <<disk, conf, way, next, stranded>>

Accepted ==
    /\ pc = "check" /\ decides = "own" /\ ~Blocked
    /\ pc' = "prepare"
    /\ Works
    /\ UNCHANGED <<disk, conf, way, next, stranded, said>>

Prepare ==
    /\ pc = "prepare"
    /\ \/ pc' = "move" /\ said' = said /\ Works
       \/ Says("refused") /\ Fails
    /\ UNCHANGED <<disk, conf, way, next, stranded>>

-----------------------------------------------------------------------------
(* Apply, either way.                                                       *)

\* Mutants: the last file is left behind; a file past the last is looked for.
ArrivedEarly == next >= NumFiles
ArrivedLate == next > NumFiles + 1

Arrived == next > NumFiles

(* A rename that fails puts back what was moved before it.                  *)
MoveOne ==
    /\ pc = "move" /\ ~Arrived
    /\ \/ /\ Rename(next, way)
          /\ pc' = IF way = "new" THEN "permit" ELSE "move"
          /\ next' = IF way = "new" THEN next ELSE next + 1
          /\ Works
       \/ /\ pc' = "putback" /\ next' = next - 1
          /\ Fails
          /\ UNCHANGED disk
    /\ UNCHANGED <<conf, way, stranded, said>>

\* Mutant: the file that could not be permitted is left where it is.
PermitLeaves ==
    /\ pc = "permit"
    /\ \/ pc' = "move" /\ next' = next + 1 /\ Works
       \/ pc' = "putback" /\ next' = next - 1 /\ Fails
    /\ UNCHANGED <<disk, conf, way, stranded, said>>

(* The file whose permissions would not be set goes back with the others.   *)
PermitOne ==
    /\ pc = "permit"
    /\ \/ pc' = "move" /\ next' = next + 1 /\ Works
       \/ pc' = "putback" /\ next' = next /\ Fails
    /\ UNCHANGED <<disk, conf, way, stranded, said>>

PutBack ==
    /\ pc = "putback" /\ next > 0
    /\ \/ Rename(next, Other(way)) /\ stranded' = stranded /\ Works
       \/ stranded' = stranded \cup {next} /\ Fails /\ UNCHANGED disk
    /\ next' = next - 1
    /\ UNCHANGED <<conf, pc, way, said>>

PutBackEnds ==
    /\ pc = "putback" /\ next = 0
    /\ Stops(stranded)
    /\ Works
    /\ UNCHANGED <<disk, conf, way, next, stranded>>

-----------------------------------------------------------------------------
(* The configuration, and the way back where it cannot be written.          *)

(* SetKeyDir replaces the line or adds it, and asks nothing of the file; a *)
(* file broken by the very line it replaces is mended by that.             *)
WriteConfig ==
    /\ pc = "move" /\ Arrived /\ way = "new"
    /\ \/ /\ keyDir' = "new"
          /\ form' = form \/ (form = "broken" /\ form' = "plain")
          /\ Says("moved") /\ Works /\ UNCHANGED <<way, next>>
       \/ /\ way' = "old" /\ next' = 1 /\ Fails
          /\ UNCHANGED <<keyDir, form, pc, said>>
    /\ UNCHANGED <<disk, decides, stranded>>

AllBack ==
    /\ pc = "move" /\ Arrived /\ way = "old"
    /\ Stops(stranded)
    /\ Works
    /\ UNCHANGED <<disk, conf, way, next, stranded>>

Step == \/ Refused \/ Accepted \/ Prepare
        \/ MoveOne \/ PermitOne \/ PutBack \/ PutBackEnds
        \/ WriteConfig \/ AllBack

Killed ==
    /\ pc # "ended"
    /\ Says("silence")
    /\ Works
    /\ UNCHANGED <<disk, conf, way, next, stranded>>

Intrudes(f, dir) ==
    /\ intruders < MaxIntruders
    /\ place[f] # dir /\ f \notin theirs[dir]
    /\ theirs' = [theirs EXCEPT ![dir] = @ \cup {f}]
    /\ late' = IF pc = "check" THEN late ELSE [late EXCEPT ![dir] = @ \cup {f}]
    /\ intruders' = intruders + 1
    /\ UNCHANGED <<place, lost, conf, pc, way, next, stranded, said, failures>>

Next == Step \/ Killed \/ \E f \in Files, dir \in Dirs : Intrudes(f, dir)
Spec == Init /\ [][Next]_vars

-----------------------------------------------------------------------------
TypeOK ==
    /\ place \in [Files -> Dirs]
    /\ theirs \in Names /\ late \in Names /\ lost \in Names
    /\ keyDir \in Dirs /\ form \in Forms /\ decides \in {"own", "later"}
    /\ pc \in {"check", "prepare", "move", "permit", "putback", "ended"}
    /\ way \in Dirs /\ next \in 0..NumFiles + 1
    /\ stranded \subseteq Files
    /\ said \in {"silence", "refused", "moved", "unmoved", "stranded"}
    /\ failures \in 0..MaxFailures /\ intruders \in 0..MaxIntruders

In(dir) == {f \in Files : place[f] = dir}

(* The directory a login reads keys from once this is over: where Load has *)
(* no key_dir from the user's own file, the one it read before.            *)
ReadFrom == IF decides = "own" /\ form = "plain" THEN keyDir ELSE "old"

Told ==
    /\ said \in {"refused", "unmoved"} => In("new") = {} /\ keyDir = "old"
    /\ said = "stranded" => In("new") = stranded
    /\ said = "moved" => /\ In("old") = {} /\ keyDir = "new"
                         /\ form = "plain" => ReadFrom = "new"

(* The configuration could not be written, and moving everything back       *)
(* failed part way as well.                                                 *)
WayBackFailed == pc = "ended" /\ way = "old" /\ next = 0

(* However much fails, what the user is told is so (F70), unless the way    *)
(* back itself failed: "Nothing was moved; your keys are where they were",  *)
(* or the files named as stranded in the new directory are the ones that    *)
(* are, or everything has moved and logins read it there. The last is not  *)
(* so, and nobody says, where the user's own file is one that Load cannot  *)
(* read or has the line in a table: KeyDirDecidedElsewhere, which is asked *)
(* so that nobody ends there, looks at no file's Err.                      *)
SaysWhatIsSo == ~WayBackFailed => Told

(* The same where the way back failed.                                      *)
SaysOfTheWayBack == WayBackFailed => Told

(* Whatever happens, a kill included, the configuration never names the new *)
(* directory while a key is still in the old one.                           *)
ConfigNeverAhead == keyDir = "new" => In("old") = {}

(* "Nothing in this package overwrites anything": what had one of the names  *)
(* when the plan was checked is still there, however the run ended. A file  *)
(* that took a name after the check is replaced by the rename.              *)
NothingOverwritten == \A d \in Dirs : lost[d] \subseteq late[d]
=============================================================================
