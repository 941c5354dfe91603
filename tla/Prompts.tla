------------------------------- MODULE Prompts -------------------------------
(***************************************************************************)
(* Asking the user: the dialogs of a desktop one after another, and the    *)
(* terminal in the end.  A dialog that could not ask hands the question    *)
(* on, one that was dismissed does not.  There are three kinds: pinentry,  *)
(* which is conversed with; kdialog, zenity and osascript, which are run   *)
(* and judged by their exit code; and the window this program draws itself *)
(* where there is none of these.  On the terminal, echo is turned off, the *)
(* prompt written, a line read, and echo put back as it was found.         *)
(*                                                                         *)
(* Several processes of one session ask at a time, on one terminal.        *)
(***************************************************************************)
EXTENDS Naturals, Sequences

CONSTANTS
  Askers,
  MaxUnlucky  \* dialogs that cannot ask or are not answered, processes killed

ASSUME PromptsAssumption == MaxUnlucky \in Nat

VARIABLES
  prChain,    \* the dialogs of this session, in the order they are asked in
  prAt,       \* what each asker is at
  prDialog,   \* the dialog of the chain it is at
  prSecret,   \* what it asks for must not be seen
  prEcho,     \* the terminal shows what is typed
  prFound,    \* the echo each found when it looked
  prResult,
  prRefused,  \* history: the user turned the question down
  prShared,   \* history: two were on the terminal at once
  prUnlucky,
  prKilled    \* history: one was killed on the terminal

prVars == <<prChain, prAt, prDialog, prSecret, prEcho, prFound, prResult, prRefused, prShared, prUnlucky, prKilled>>

(* What a system has to ask with, in the order it is asked in.              *)
LinuxDialogs == <<"pinentry", "kdialog", "zenity">>
DarwinDialogs == <<"osascript">>
WindowsDialogs == <<"window">>

(* The one the configuration names, if it can ask here ...                  *)
NamedDialog(dialogs) == {<<>>} \cup {<<dialogs[i]>> : i \in DOMAIN dialogs}
(* ... or every one that can, which with pinentry is more than being there. *)
Ascending(n, able) == \A i, j \in 1..n : i < j => able[i] < able[j]
ChooseDialog(dialogs) ==
  UNION {{[i \in 1..n |-> dialogs[able[i]]] : able \in {f \in [1..n -> DOMAIN dialogs] : Ascending(n, f)}}
          : n \in 0..Len(dialogs)}
(* None where the configuration wants none, or there is no screen.          *)
Graphical(dialogs) == {<<>>} \cup NamedDialog(dialogs) \cup ChooseDialog(dialogs)
Chains == UNION {Graphical(dialogs) : dialogs \in {LinuxDialogs, DarwinDialogs, WindowsDialogs}}
OnTerminal == {"open", "look", "hide", "write", "read", "restore"}

PromptsInit ==
  /\ prChain = <<"unknown">>
  /\ prAt = [a \in Askers |-> "idle"] /\ prDialog = [a \in Askers |-> 0]
  /\ prSecret = [a \in Askers |-> TRUE]
  /\ prEcho = TRUE /\ prFound = [a \in Askers |-> TRUE]
  /\ prResult = [a \in Askers |-> "none"] /\ prRefused = {}
  /\ prShared = FALSE /\ prUnlucky = 0 /\ prKilled = FALSE

PrUnlucky == prUnlucky < MaxUnlucky /\ prUnlucky' = prUnlucky + 1
PrGoes(a, to) == prAt' = [prAt EXCEPT ![a] = to] /\ UNCHANGED prResult
PrEnds(a, result) == prAt' = [prAt EXCEPT ![a] = "done"] /\ prResult' = [prResult EXCEPT ![a] = result]
PrTerminal == UNCHANGED <<prEcho, prFound, prShared, prKilled>>

(* Graphical and chooseDialog, once for the session they are asked in.      *)
Chooses ==
  /\ prChain = <<"unknown">> /\ prChain' \in Chains
  /\ UNCHANGED <<prAt, prDialog, prSecret, prResult, prRefused, prUnlucky>> /\ PrTerminal

(* The terminal is where a chain ends.                                      *)
Beyond(a, n) == IF n < Len(prChain) THEN PrGoes(a, "dialog") ELSE PrGoes(a, "open")

(* The loader asks in the chain.                                            *)
AsksForKey(a) ==
  /\ prChain # <<"unknown">> /\ prAt[a] = "idle"
  /\ Beyond(a, 0) /\ prDialog' = [prDialog EXCEPT ![a] = 1]
  /\ UNCHANGED <<prChain, prSecret, prRefused, prUnlucky>> /\ PrTerminal

(* The broker asks on the terminal, for a passphrase or for a confirmation. *)
AsksForSsh(a, secret) ==
  /\ prChain # <<"unknown">> /\ prAt[a] = "idle" /\ PrGoes(a, "open")
  /\ prSecret' = [prSecret EXCEPT ![a] = secret]
  /\ UNCHANGED <<prChain, prDialog, prRefused, prUnlucky>> /\ PrTerminal
-----------------------------------------------------------------------------
(* A dialog.                                                                *)

Kind(a) == prChain[prDialog[a]]
AtDialog(a) == prAt[a] = "dialog" /\ UNCHANGED <<prChain, prSecret>> /\ PrTerminal

(* FallbackPrompter.                                                        *)
FallsBack(a) == Beyond(a, prDialog[a]) /\ prDialog' = [prDialog EXCEPT ![a] = @ + 1]

Canceled(a) == PrEnds(a, "canceled") /\ UNCHANGED prDialog

AnswersPrompt(a) ==
  /\ AtDialog(a) /\ PrEnds(a, "answered")
  /\ UNCHANGED <<prDialog, prRefused, prUnlucky>>

(* A Cancel is an answer; of the window, one that finds the time run out is *)
(* taken for that.                                                          *)
WindowTimeIsUp(a) == Kind(a) = "window" /\ PrUnlucky /\ FallsBack(a) /\ UNCHANGED prRefused
Dismisses(a) ==
  /\ AtDialog(a)
  /\ \/ Canceled(a) /\ prRefused' = prRefused \cup {a} /\ UNCHANGED prUnlucky
     \/ WindowTimeIsUp(a)

(* pinentry says how it went, and what it does not say is an error.         *)
PinentryFails(a) == Kind(a) = "pinentry" /\ FallsBack(a)

(* A command that does not start is an error; of one that did, every way of *)
(* ending badly is taken for a dismissal.                                   *)
KDialogFails(a) == Kind(a) = "kdialog" /\ (FallsBack(a) \/ Canceled(a))
ZenityFails(a) == Kind(a) = "zenity" /\ (FallsBack(a) \/ Canceled(a))
OsascriptFails(a) == Kind(a) = "osascript" /\ (FallsBack(a) \/ Canceled(a))

(* No class, no window, none of its controls: nothing was asked.            *)
WindowFails(a) == Kind(a) = "window" /\ FallsBack(a)

DoesNotAsk(a) ==
  /\ AtDialog(a) /\ PrUnlucky /\ UNCHANGED prRefused
  /\ PinentryFails(a) \/ KDialogFails(a) \/ ZenityFails(a) \/ OsascriptFails(a) \/ WindowFails(a)
-----------------------------------------------------------------------------
(* The terminal: ReadTTYLine.                                               *)

AtTerminal(a, at) == prAt[a] = at /\ UNCHANGED <<prChain, prDialog, prSecret>>

OpensTerminal(a) ==
  /\ AtTerminal(a, "open")
  /\ \/ /\ PrGoes(a, IF prSecret[a] THEN "look" ELSE "write") /\ UNCHANGED prUnlucky
        /\ prShared' = (prShared \/ \E b \in Askers \ {a} : prAt[b] \in OnTerminal \ {"open"})
     \/ PrEnds(a, "no_terminal") /\ PrUnlucky /\ UNCHANGED prShared
  /\ UNCHANGED <<prRefused, prEcho, prFound, prKilled>>

LooksAtEcho(a) ==
  /\ AtTerminal(a, "look")
  /\ \/ PrGoes(a, "hide") /\ prFound' = [prFound EXCEPT ![a] = prEcho] /\ UNCHANGED prUnlucky
     \/ PrEnds(a, "error") /\ PrUnlucky /\ UNCHANGED prFound
  /\ UNCHANGED <<prRefused, prEcho, prShared, prKilled>>

HidesTyping(a) ==
  /\ AtTerminal(a, "hide")
  /\ \/ PrGoes(a, "write") /\ prEcho' = FALSE /\ UNCHANGED prUnlucky
     \/ PrEnds(a, "error") /\ PrUnlucky /\ UNCHANGED prEcho
  /\ UNCHANGED <<prRefused, prFound, prShared, prKilled>>

(* What was turned off is put back all the same.                            *)
EndsInError(a) ==
  /\ prAt' = [prAt EXCEPT ![a] = "restore"] /\ prResult' = [prResult EXCEPT ![a] = "error"]
  /\ PrUnlucky

WritesPrompt(a) ==
  /\ AtTerminal(a, "write")
  /\ \/ PrGoes(a, "read") /\ UNCHANGED prUnlucky
     \/ EndsInError(a)
  /\ UNCHANGED <<prRefused, prEcho, prFound, prShared, prKilled>>

\* Mutant: closing the input skips what was deferred.
EndsUnrestored(a, line) == IF line THEN PrGoes(a, "restore") ELSE PrEnds(a, "canceled")

AfterReading(a, line) == line \in BOOLEAN /\ PrGoes(a, "restore")

ReadsLine(a, line) ==
  /\ AtTerminal(a, "read") /\ AfterReading(a, line)
  /\ prRefused' = IF line THEN prRefused ELSE prRefused \cup {a}
  /\ UNCHANGED <<prEcho, prFound, prShared, prKilled, prUnlucky>>

CannotReadTTY(a) ==
  /\ AtTerminal(a, "read") /\ EndsInError(a)
  /\ UNCHANGED <<prRefused, prEcho, prFound, prShared, prKilled>>

RestoresEcho(a) ==
  /\ AtTerminal(a, "restore")
  /\ PrEnds(a, IF prResult[a] = "error" THEN "error" ELSE IF a \in prRefused THEN "canceled" ELSE "answered")
  /\ prEcho' = IF prSecret[a] THEN prFound[a] ELSE prEcho
  /\ UNCHANGED <<prRefused, prFound, prShared, prKilled, prUnlucky>>

PrKilled(a) ==
  /\ prAt[a] \in OnTerminal \cup {"dialog"} /\ PrUnlucky /\ PrEnds(a, "killed")
  /\ prKilled' = (prKilled \/ prAt[a] \in OnTerminal)
  /\ UNCHANGED <<prChain, prDialog, prSecret, prRefused, prEcho, prFound, prShared>>

(* It has its answer, and may ask for the next key.                         *)
Asked(a) ==
  /\ prAt[a] = "done"
  /\ prAt' = [prAt EXCEPT ![a] = "idle"] /\ prResult' = [prResult EXCEPT ![a] = "none"]
  /\ prRefused' = prRefused \ {a} /\ prDialog' = [prDialog EXCEPT ![a] = 0]
  /\ prSecret' = [prSecret EXCEPT ![a] = TRUE] /\ prFound' = [prFound EXCEPT ![a] = TRUE]
  /\ UNCHANGED <<prChain, prEcho, prShared, prKilled, prUnlucky>>

PromptsNext ==
  \/ Chooses
  \/ \E a \in Askers :
       \/ AsksForKey(a) \/ (\E secret \in BOOLEAN : AsksForSsh(a, secret))
       \/ AnswersPrompt(a) \/ Dismisses(a) \/ DoesNotAsk(a)
       \/ OpensTerminal(a) \/ LooksAtEcho(a) \/ HidesTyping(a) \/ WritesPrompt(a)
       \/ (\E line \in BOOLEAN : ReadsLine(a, line)) \/ CannotReadTTY(a) \/ RestoresEcho(a)
       \/ PrKilled(a) \/ Asked(a)

PromptsSpec == PromptsInit /\ [][PromptsNext]_prVars
-----------------------------------------------------------------------------
(* The types of the variables.                                              *)
PromptsTypeOK ==
  /\ prChain \in Chains \cup {<<"unknown">>} /\ prDialog \in [Askers -> 0..4]
  /\ prAt \in [Askers -> OnTerminal \cup {"idle", "dialog", "done"}]
  /\ prSecret \in [Askers -> BOOLEAN] /\ prFound \in [Askers -> BOOLEAN] /\ prEcho \in BOOLEAN
  /\ prResult \in [Askers -> {"none", "answered", "canceled", "no_terminal", "error", "killed"}]
  /\ prRefused \subseteq Askers /\ {prShared, prKilled} \subseteq BOOLEAN /\ prUnlucky \in 0..MaxUnlucky

(* disableEcho's restoring: when nobody asks on it, the terminal shows what *)
(* is typed, however the questions ended, but where two asked at once or    *)
(* one was killed while it asked.                                           *)
TerminalGivenBack ==
  (\A a \in Askers : prAt[a] \notin OnTerminal) => prEcho \/ prShared \/ prKilled
=============================================================================
