----------------------------- MODULE MCKeyExpiry ----------------------------
(***************************************************************************)
(* Three parts in one instance for TLC: the lifetimes sshakku keeps where  *)
(* the agent keeps none, the conversation with KeePassXC, and install and  *)
(* uninstall.  They share no state: a behaviour is one of one of them, and *)
(* the others stay as they begin.                                          *)
(***************************************************************************)
EXTENDS KeyExpiry, KeePassXC, Installer, TLC

VARIABLE part

oneVars == <<part, vars, kxVars, inVars>>

OneInit ==
  /\ part \in {"expiry", "keepassxc", "installer"}
  /\ Init /\ (part # "expiry" => agent = [k \in Keys |-> "out"])
  /\ KeePassXCInit
  /\ InstallerInit

OneNext ==
  /\ UNCHANGED part
  /\ \/ part = "expiry" /\ Next
     \/ part = "keepassxc" /\ KeePassXCNext
     \/ part = "installer" /\ InstallerNext
  /\ part # "expiry" => UNCHANGED vars
  /\ part # "keepassxc" => UNCHANGED kxVars
  /\ part # "installer" => UNCHANGED inVars

OneSpec == OneInit /\ [][OneNext]_oneVars

(* Each keeps its types.                                                     *)
OneTypeOK == TypeOK /\ KeePassXCTypeOK /\ InstallerTypeOK

Alike == Permutations(Sessions) \cup Permutations(Clients) \cup Permutations(Passphrases)
=============================================================================
