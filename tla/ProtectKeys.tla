---------------------------- MODULE ProtectKeys -----------------------------
(***************************************************************************)
(* protect-keys: the key files SSHakku loads, and the directory holding    *)
(* them when asked for, are encrypted to the account.  A run looks at each *)
(* path, says what covering the directory costs, has to be answered yes    *)
(* where a server reads an authorized_keys there, covers what is left and  *)
(* reads every path back, because the call that covers one may report      *)
(* success and have done nothing.                                          *)
(*                                                                         *)
(* The user and other programs make, remove and uncover files meanwhile; a *)
(* file made in a covered directory is born covered, one that was there    *)
(* stays as it is.                                                         *)
(***************************************************************************)
EXTENDS Naturals, FiniteSets

CONSTANTS
  PkKeys,        \* the private keys, by path
  MaxPkRuns,
  MaxPkMeddling, \* what others do to the files
  MaxPkFailures  \* looks and attempts that fail, or say they worked

ASSUME ProtectKeysAssumption ==
  /\ {"dir", "authorized_keys"} \cap PkKeys = {}
  /\ {MaxPkRuns, MaxPkMeddling, MaxPkFailures} \subseteq Nat

VARIABLES
  pkDisk,      \* every path: absent, clear or covered
  pkRun,       \* the run: where it is, what it was asked, found and achieved
  pkBeen,      \* history: the paths covered at some time since the run began
  pkRuns, pkMeddled, pkFailed

pkVars == <<pkDisk, pkRun, pkBeen, pkRuns, pkMeddled, pkFailed>>
PkPaths == PkKeys \cup {"dir", "authorized_keys"}
States == {"absent", "clear", "covered"}
CoveredIn(d) == {p \in PkPaths : d[p] = "covered"}

NoPkRun == [at |-> "idle", dryRun |-> FALSE, targets |-> {}, left |-> {}, seen |-> {},
          pending |-> {}, theirs |-> FALSE, failed |-> {}, exit |-> "none"]

ProtectKeysInit ==
  /\ pkDisk = [p \in PkPaths |-> IF p = "authorized_keys" THEN "absent" ELSE "clear"]
  /\ pkRun = NoPkRun /\ pkBeen = {} /\ pkRuns = 0 /\ pkMeddled = 0 /\ pkFailed = 0

PkUnlucky == pkFailed < MaxPkFailures /\ pkFailed' = pkFailed + 1
PkEnds(run, code) == pkRun' = [run EXCEPT !.at = "done", !.exit = code]

-----------------------------------------------------------------------------
(* Looking.                                                                 *)

(* protectKeys: the keys there are, and PlanFor: the directory where it is  *)
(* asked for, never the authorized_keys.  authorizedKeysIn is read once,    *)
(* here.                                                                    *)
Plans ==
  /\ pkRun.at \in {"idle", "done"} /\ pkRuns < MaxPkRuns /\ pkRuns' = pkRuns + 1
  /\ pkBeen' = CoveredIn(pkDisk)
  /\ \E directory \in BOOLEAN, dryRun \in BOOLEAN :
       LET keys    == {k \in PkKeys : pkDisk[k] # "absent"}
           targets == keys \cup {d \in {"dir"} : directory}
       IN IF keys = {} /\ ~directory THEN PkEnds(NoPkRun, "ok")
          ELSE pkRun' = [NoPkRun EXCEPT !.at = "look", !.dryRun = dryRun,
                           !.targets = targets, !.left = targets,
                           !.theirs = directory /\ pkDisk["authorized_keys"] # "absent"]
  /\ UNCHANGED <<pkDisk, pkMeddled, pkFailed>>

(* Take: a path nobody could answer for is not known to be covered.         *)
LooksAt(p) ==
  /\ pkRun.at = "look" /\ p \in pkRun.left
  /\ \/ /\ UNCHANGED pkFailed
        /\ pkRun' = [pkRun EXCEPT !.left = @ \ {p},
                       !.seen = IF pkDisk[p] = "covered" THEN @ \cup {p} ELSE @]
     \/ PkUnlucky /\ pkRun' = [pkRun EXCEPT !.left = @ \ {p}]
  /\ UNCHANGED <<pkDisk, pkBeen, pkRuns, pkMeddled>>

(* Cost.NeedsConfirmation, of a directory still to be covered.              *)
NeedsConfirmation(pending) == "dir" \in pending /\ pkRun.theirs

(* What is pending is listed; a dry run ends there, and so does a run with  *)
(* nothing left to cover.                                                   *)
Lists ==
  LET pending == pkRun.targets \ pkRun.seen
  IN /\ pkRun.at = "look" /\ pkRun.left = {}
     /\ IF pkRun.dryRun \/ pending = {} THEN PkEnds(pkRun, "ok")
        ELSE pkRun' = [pkRun EXCEPT !.pending = pending, !.left = pending,
                         !.at = IF NeedsConfirmation(pending) THEN "ask" ELSE "apply"]
     /\ UNCHANGED <<pkDisk, pkBeen, pkRuns, pkMeddled, pkFailed>>

(* protectKeysConfirmed: anything but yes is no.                            *)
AnsweredYes ==
  /\ pkRun.at = "ask" /\ pkRun' = [pkRun EXCEPT !.at = "apply"]
  /\ UNCHANGED <<pkDisk, pkBeen, pkRuns, pkMeddled, pkFailed>>

AnsweredOtherwise ==
  /\ pkRun.at = "ask" /\ PkEnds(pkRun, "failed")
  /\ UNCHANGED <<pkDisk, pkBeen, pkRuns, pkMeddled, pkFailed>>

-----------------------------------------------------------------------------
(* Covering.                                                                *)

(* Apply, of the next path, the directory first: Protect covers it, fails,  *)
(* or says it worked.                                                       *)
Protects(p) ==
  /\ pkRun.at = "apply" /\ p \in pkRun.left /\ ("dir" \in pkRun.left => p = "dir")
  /\ \/ /\ pkDisk[p] # "absent" /\ UNCHANGED pkFailed
        /\ pkDisk' = [pkDisk EXCEPT ![p] = "covered"] /\ pkBeen' = pkBeen \cup {p}
        /\ pkRun' = [pkRun EXCEPT !.at = "back", !.left = @ \ {p}]
     \/ /\ pkDisk[p] = "absent" /\ UNCHANGED <<pkFailed, pkDisk, pkBeen>>
        /\ pkRun' = [pkRun EXCEPT !.at = "back", !.left = @ \ {p}]
     \/ /\ PkUnlucky /\ UNCHANGED <<pkDisk, pkBeen>>
        /\ pkRun' = [pkRun EXCEPT !.at = "back", !.left = @ \ {p}]
  /\ UNCHANGED <<pkRuns, pkMeddled>>

\* The path that was just handed to Protect.
Attempted == pkRun.pending \ (pkRun.left \cup pkRun.seen \cup pkRun.failed)

\* Mutant: what the call returned is believed.
BelievesTheCall(p) == TRUE

(* The reading back in Apply: covered, or not for whatever reason.          *)
IsCovered(p) == pkDisk[p] = "covered"

ReadsItBack(p) ==
  /\ pkRun.at = "back" /\ p \in Attempted
  /\ \/ /\ UNCHANGED pkFailed
        /\ pkRun' = [IF IsCovered(p) THEN [pkRun EXCEPT !.seen = @ \cup {p}]
                                     ELSE [pkRun EXCEPT !.failed = @ \cup {p}]
                       EXCEPT !.at = "apply"]
     \/ PkUnlucky /\ pkRun' = [pkRun EXCEPT !.failed = @ \cup {p}, !.at = "apply"]
  /\ UNCHANGED <<pkDisk, pkBeen, pkRuns, pkMeddled>>

(* protectKeysOutcome.                                                      *)
Reports ==
  /\ pkRun.at = "apply" /\ pkRun.left = {}
  /\ PkEnds(pkRun, IF pkRun.failed = {} THEN "ok" ELSE "failed")
  /\ UNCHANGED <<pkDisk, pkBeen, pkRuns, pkMeddled, pkFailed>>

-----------------------------------------------------------------------------
(* The user and other programs: a file made (born as its directory says),   *)
(* removed, or uncovered; and a run stopped anywhere.                       *)

MeddlesWith(p) ==
  /\ pkMeddled < MaxPkMeddling /\ pkMeddled' = pkMeddled + 1
  /\ \E s \in States \ {pkDisk[p]} :
       /\ CASE s = "absent"  -> p # "dir"
            [] s = "clear"   -> pkDisk[p] = "absent" => pkDisk["dir"] = "clear"
            [] s = "covered" -> pkDisk[p] = "absent" /\ pkDisk["dir"] = "covered"
       /\ pkDisk' = [pkDisk EXCEPT ![p] = s] /\ pkBeen' = pkBeen \cup CoveredIn(pkDisk')
  /\ UNCHANGED <<pkRun, pkRuns, pkFailed>>

PkKilled ==
  /\ pkRun.at \notin {"idle", "done"} /\ PkEnds(pkRun, "killed")
  /\ UNCHANGED <<pkDisk, pkBeen, pkRuns, pkMeddled, pkFailed>>

ProtectKeysNext ==
  \/ Plans \/ Lists \/ AnsweredYes \/ AnsweredOtherwise \/ Reports \/ PkKilled
  \/ \E p \in PkPaths : LooksAt(p) \/ Protects(p) \/ ReadsItBack(p) \/ MeddlesWith(p)

ProtectKeysSpec == ProtectKeysInit /\ [][ProtectKeysNext]_pkVars

-----------------------------------------------------------------------------
ProtectKeysTypeOK ==
  /\ pkDisk \in [PkPaths -> States] /\ pkBeen \subseteq PkPaths
  /\ pkRun.at \in {"idle", "look", "ask", "apply", "back", "done"}
  /\ pkRun.exit \in {"none", "ok", "failed", "killed"}
  /\ pkRun.pending \subseteq pkRun.targets /\ "authorized_keys" \notin pkRun.targets
  /\ pkRun.at = "back" => Cardinality(Attempted) = 1

(* A run that meant to cover what it found and ended well left nothing      *)
(* uncovered all along: each path it was to cover was covered at some time  *)
(* since it began (Apply reads each one back, protect.go).                  *)
SuccessIsReal ==
  pkRun.exit = "ok" /\ ~pkRun.dryRun => pkRun.targets \subseteq pkBeen
=============================================================================
