--------------------------- MODULE Configuration ----------------------------
(***************************************************************************)
(* What SSHakku is configured to do: config.toml, the drop-ins applied     *)
(* over it and the exported variables, resolved into the value in force of *)
(* each setting, and the two reports made of them: `config`, which says    *)
(* what put each value in force, and the one `config --edit` ends with,    *)
(* which says which of the values just written decide nothing.             *)
(*                                                                         *)
(* A setting is followed at a time, of any kind: they differ in whether a  *)
(* variable states it, in which is looked at first, and in what becomes of *)
(* a value that cannot be used.  What is written is a text: one that is    *)
(* blank, one that cannot be used, or one of two that can.                 *)
(***************************************************************************)
EXTENDS Naturals

CONSTANT MaxCfChanges \* how often the files and the environment change

ASSUME ConfigurationAssumption == MaxCfChanges \in Nat

VARIABLES
  cfSetting, \* the kind of the setting followed
  cfWritten, \* what main, dropin and env state of it
  cfFile,    \* main can be read, holds keys nobody knows, or cannot be parsed
  cfEdit,    \* config --edit: where it is, how it ended, what it said
  cfChanges

cfVars == <<cfSetting, cfWritten, cfFile, cfEdit, cfChanges>>

Good == {"v1", "v2"}
Settings == {"duration", "attempts", "switch", "named", "name", "patterns", "free", "editor"}
Places == {"main", "dropin", "env"}
NoEdit == [at |-> "none", exit |-> "none", said |-> FALSE, lost |-> FALSE]

\* The kinds with no variable of their own.
FileOnly == {"named", "name", "patterns", "free"}

\* What can be written where: a number or a truth value in a file has no blank.
Texts(s, where) ==
  IF where = "env" /\ s \in FileOnly THEN {"absent"}
  ELSE {"absent"} \cup Good \cup
       CASE s \in {"free", "editor"}          -> {"blank"}
         [] where # "env" /\ s = "switch"     -> {}
         [] where # "env" /\ s = "attempts"   -> {"bad"}
         [] OTHER                             -> {"blank", "bad"}

Nothing == [p \in Places |-> "absent"]

ConfigurationInit ==
  /\ cfSetting = "none" /\ cfWritten = Nothing /\ cfFile = "fine"
  /\ cfEdit = NoEdit /\ cfChanges = 0

-----------------------------------------------------------------------------
(* Resolve.                                                                 *)

(* LoadSources: a file that cannot be parsed states nothing.                *)
Read(written, file) ==
  [written EXCEPT !["main"] = IF file = "broken" THEN "absent" ELSE @]

(* Merge: a drop-in that states a setting at all takes main's place.        *)
MergedFile(w) == IF w["dropin"] # "absent" THEN w["dropin"] ELSE w["main"]

(* coalesce: a variable that is set, whatever to, is looked at first.       *)
Coalesced(w) == IF w["env"] # "absent" THEN w["env"] ELSE MergedFile(w)

OrDefault(text) == IF text \in Good THEN text ELSE "default"
Used(value) == [value |-> value, refused |-> FALSE]
OrRefused(text) == [value |-> OrDefault(text), refused |-> text = "bad"]

(* KeyLifetime, GiveupTTL, CommandTimeout and InteractiveTimeout.           *)
ResolveDuration(w) == OrRefused(Coalesced(w))

(* A number that will not do is passed over without a word.                 *)
ResolveMaxAttempts(w) == Used(IF w["env"] \in Good THEN w["env"] ELSE OrDefault(MergedFile(w)))

(* v1 is what IsTruthy takes for yes; what it does not is no.               *)
ResolveBool(w) == Used(IF Coalesced(w) = "v1" THEN "v1" ELSE "v2")

(* One of the words the setting is written in, or of the wallets and the    *)
(* dialogs this system has.                                                 *)
ResolveNamed(w) == OrRefused(MergedFile(w))

(* service_prefix and secret_container: bad is blanks, a slash, or a name   *)
(* of the desktop's own.                                                    *)
ResolveName(w) == OrRefused(MergedFile(w))

(* A list with nothing in it cannot be used either.                         *)
ResolveKeyPatterns(w) ==
  [OrRefused(MergedFile(w)) EXCEPT !.refused = MergedFile(w) \in {"blank", "bad"}]

(* The directory, the accounts, the lists of keys.                          *)
ResolveFree(w) == Used(OrDefault(MergedFile(w)))

(* statedEditor: the file's before the system's own variables.              *)
StatedEditor(w) == Used(IF MergedFile(w) \in Good THEN MergedFile(w) ELSE OrDefault(w["env"]))

Resolve(s, w) ==
  CASE s = "duration" -> ResolveDuration(w)
    [] s = "attempts" -> ResolveMaxAttempts(w)
    [] s = "switch"   -> ResolveBool(w)
    [] s = "named"    -> ResolveNamed(w)
    [] s = "name"     -> ResolveName(w)
    [] s = "patterns" -> ResolveKeyPatterns(w)
    [] s = "free"     -> ResolveFree(w)
    [] s = "editor"   -> StatedEditor(w)

InForce(s, w) == Resolve(s, w).value
IsRefused(s, w) == Resolve(s, w).refused

-----------------------------------------------------------------------------
(* Explain and Overruled.                                                   *)

(* settingDesc.set.                                                         *)
IsStated(s, text) == text # "absent" /\ (s = "editor" => text # "blank")

\* Mutant: a variable is taken for the origin whatever it holds.
AnyIsUsed(s, text) == text # "absent"

(* statedInTheEnvironment, with envUsed.                                    *)
EnvUsed(s, text) ==
  /\ text # "absent"
  /\ s = "attempts" => text \in Good
  /\ s = "editor" => text # "blank"

FileStating(s, w) ==
  IF IsStated(s, w["dropin"]) THEN "dropin" ELSE IF IsStated(s, w["main"]) THEN "main" ELSE "default"

(* statedBy.                                                                *)
StatedBy(s, w) ==
  IF EnvUsed(s, w["env"]) /\ (s = "editor" => FileStating(s, w) = "default") THEN "env"
  ELSE FileStating(s, w)

(* Overruled, of the settings main states.                                  *)
Overruled(s, w) == IsStated(s, w["main"]) /\ StatedBy(s, w) # "main"

-----------------------------------------------------------------------------
(* The user's changes, and config --edit.                                   *)

Changes == cfChanges < MaxCfChanges /\ cfChanges' = cfChanges + 1

Follows ==
  /\ cfSetting = "none" /\ cfSetting' \in Settings
  /\ UNCHANGED <<cfWritten, cfFile, cfEdit, cfChanges>>

Writes(where) ==
  /\ cfSetting # "none" /\ Changes /\ (where = "env" => cfEdit.at = "none")
  /\ \E text \in Texts(cfSetting, where) : cfWritten' = [cfWritten EXCEPT ![where] = text]
  /\ UNCHANGED <<cfSetting, cfFile, cfEdit>>

(* configEdit up to the editor, and one that cannot be run.                 *)
OpensEditor ==
  /\ cfSetting # "none" /\ cfEdit.at = "none"
  /\ \/ cfEdit' = [NoEdit EXCEPT !.at = "editor"]
     \/ cfEdit' = [NoEdit EXCEPT !.at = "ended", !.exit = "failed"]
  /\ UNCHANGED <<cfSetting, cfWritten, cfFile, cfChanges>>

Saves ==
  /\ cfEdit.at = "editor" /\ Changes
  /\ \E text \in Texts(cfSetting, "main"), file \in {"fine", "unknown_keys", "broken"} :
       cfWritten' = [cfWritten EXCEPT !["main"] = text] /\ cfFile' = file
  /\ UNCHANGED <<cfSetting, cfEdit>>

(* reportEdited, once the editor ends: a file that cannot be read is all it *)
(* speaks of; then the values refused in it, and those overruled.           *)
ReportsEdited ==
  LET w == Read(cfWritten, cfFile)
  IN /\ cfEdit.at = "editor"
     /\ cfEdit' = [at   |-> "ended",
                   exit |-> IF cfFile = "fine" THEN "ok" ELSE "failed",
                   said |-> \/ cfFile # "fine" \/ Overruled(cfSetting, w)
                            \/ IsRefused(cfSetting, w) /\ StatedBy(cfSetting, w) = "main",
                   lost |-> w["main"] \in Good /\ InForce(cfSetting, w) # w["main"]]
     /\ UNCHANGED <<cfSetting, cfWritten, cfFile, cfChanges>>

EditsAgain ==
  /\ cfEdit.at = "ended" /\ cfEdit' = NoEdit
  /\ UNCHANGED <<cfSetting, cfWritten, cfFile, cfChanges>>

ConfigurationNext ==
  \/ Follows \/ OpensEditor \/ Saves \/ ReportsEdited \/ EditsAgain
  \/ \E p \in {"dropin", "env"} : Writes(p)

ConfigurationSpec == ConfigurationInit /\ [][ConfigurationNext]_cfVars

-----------------------------------------------------------------------------
ConfigurationTypeOK ==
  /\ cfSetting \in Settings \cup {"none"} /\ cfFile \in {"fine", "unknown_keys", "broken"}
  /\ \A p \in Places : cfWritten[p] \in Texts(cfSetting, p)
  /\ cfEdit.at \in {"none", "editor", "ended"} /\ cfEdit.exit \in {"none", "ok", "failed"}

\* Read alone, the place gives what is in force, and so does what is written there anew.
Decides(where, s, w) ==
  /\ InForce(s, w) = InForce(s, [Nothing EXCEPT ![where] = w[where]])
  /\ \A v \in Good : InForce(s, [w EXCEPT ![where] = v]) = v

NamesWhatDecides(s) ==
  LET w == Read(cfWritten, cfFile)
      o == StatedBy(s, w)
  IN IF o = "default" THEN InForce(s, w) = InForce(s, Nothing)
     ELSE Decides(o, s, w)

(* Of every setting but the editor, the two reports are true: the one names *)
(* what put the value in force, so that the place named gives that value by *)
(* itself and what is written there anew will be in force (Origin,          *)
(* provenance.go), and an edit that ended well said so of a value written   *)
(* that decides nothing (reportEdited, configedit.go).                      *)
ReportsAreTrue ==
  cfSetting \in Settings \ {"editor"} =>
    /\ NamesWhatDecides(cfSetting)
    /\ cfEdit.exit = "ok" /\ cfEdit.lost => cfEdit.said
=============================================================================
