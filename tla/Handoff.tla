------------------------------- MODULE Handoff -------------------------------
(***************************************************************************)
(* How a passphrase gets from load-keys to the helper that ssh-add asks    *)
(* for it: a kernel keyring entry or a socket that serves one connection,  *)
(* named by a token in the environment.  ssh-add asks its helper again for *)
(* as long as what it is told does not open the key, so what ends a wrong  *)
(* passphrase is that the second helper gets nothing.                      *)
(*                                                                         *)
(* load-keys adds one key after another, each with a token of its own.  It *)
(* may be killed, an ssh-add may be stopped at its time budget, a helper   *)
(* may be killed, a call may fail, and the time a passphrase may lie       *)
(* waiting may elapse at any step.                                         *)
(***************************************************************************)
EXTENDS Naturals

CONSTANTS
  MaxAdds,        \* passphrases load-keys tries
  MaxMisfortunes  \* calls that fail, processes stopped or killed

ASSUME HandoffAssumption == {MaxAdds, MaxMisfortunes} \subseteq Nat

VARIABLES
  hoPlace,    \* where the passphrase of each token is
  hoTimed,    \* the keyring entries that have an expiry
  hoDue,      \* the tokens whose time to live has elapsed
  hoRight,    \* the tokens whose passphrase opens the key
  hoAdd,      \* what the ssh-add of each token is at
  hoHelper,   \* what its helper is at
  hoTried,    \* how many passphrases it was told
  hoLoaded,   \* the tokens whose key reached the agent
  hoGone,     \* load-keys was killed
  hoUnlucky   \* the misfortunes so far

hoStore == <<hoPlace, hoTimed, hoDue>>
hoVars == <<hoStore, hoRight, hoAdd, hoHelper, hoTried, hoLoaded, hoGone, hoUnlucky>>

Tokens == 1..MaxAdds

HandoffInit ==
  /\ hoPlace = [t \in Tokens |-> "none"]
  /\ hoTimed = {} /\ hoDue = {} /\ hoRight = {} /\ hoLoaded = {}
  /\ hoAdd = [t \in Tokens |-> "idle"] /\ hoHelper = [t \in Tokens |-> "none"]
  /\ hoTried = [t \in Tokens |-> 0]
  /\ hoGone = FALSE /\ hoUnlucky = 0

Misfortune == hoUnlucky < MaxMisfortunes /\ hoUnlucky' = hoUnlucky + 1
Moved(f, t, to) == f' = [f EXCEPT ![t] = to]

(* The add before this one has returned: ssh-add has ended, and so has its  *)
(* helper, which holds the pipe that Run reads ssh-add's errors from.       *)
Busy == {"starts", "dialled", "read", "told"}
Returned(t) == hoAdd[t] \in {"added", "refused", "stopped", "error"} /\ hoHelper[t] \notin Busy
-----------------------------------------------------------------------------
(* load-keys.                                                               *)

(* The expiry is set after the entry is made, and its failure is ignored.   *)
SetsExpiry(t, timed) ==
  /\ hoTimed' = IF timed THEN hoTimed \cup {t} ELSE hoTimed
  /\ timed \/ Misfortune
  /\ timed => UNCHANGED hoUnlucky

Stashes(t) ==
  /\ hoAdd[t] = "idle" /\ ~hoGone /\ \A u \in 1..(t - 1) : Returned(u)
  /\ \/ Moved(hoPlace, t, "entry") /\ \E timed \in BOOLEAN : SetsExpiry(t, timed)
     \/ Moved(hoPlace, t, "listening") /\ UNCHANGED <<hoTimed, hoUnlucky>>
  /\ \E right \in BOOLEAN : hoRight' = IF right THEN hoRight \cup {t} ELSE hoRight
  /\ Moved(hoAdd, t, "asks")
  /\ UNCHANGED <<hoDue, hoHelper, hoTried, hoLoaded, hoGone>>

CannotStash(t) ==
  /\ hoAdd[t] = "idle" /\ ~hoGone /\ \A u \in 1..(t - 1) : Returned(u)
  /\ Misfortune /\ Moved(hoAdd, t, "error")
  /\ UNCHANGED <<hoStore, hoRight, hoHelper, hoTried, hoLoaded, hoGone>>

(* Its sockets go with it, all but their names.                             *)
LoaderKilled ==
  /\ ~hoGone /\ hoGone' = TRUE /\ Misfortune
  /\ hoPlace' = [t \in Tokens |-> IF hoPlace[t] \in {"listening", "accepted", "closing"} THEN "left" ELSE hoPlace[t]]
  /\ UNCHANGED <<hoTimed, hoDue, hoRight, hoAdd, hoHelper, hoTried, hoLoaded>>
-----------------------------------------------------------------------------
(* ssh-add.                                                                 *)

AsksHelper(t) ==
  /\ hoAdd[t] = "asks" /\ Moved(hoAdd, t, "waits") /\ Moved(hoHelper, t, "starts")
  /\ UNCHANGED <<hoStore, hoRight, hoTried, hoLoaded, hoGone, hoUnlucky>>

(* A helper that exits with an error counts as an empty answer, which ends  *)
(* the asking.                                                              *)
HearsHelper(t) ==
  /\ hoAdd[t] = "waits"
  /\ \/ /\ hoHelper[t] = "told" /\ Moved(hoHelper, t, "done")
        /\ hoTried' = [hoTried EXCEPT ![t] = @ + 1]
        /\ IF t \in hoRight THEN hoLoaded' = hoLoaded \cup {t} /\ Moved(hoAdd, t, "exits")
           ELSE Moved(hoAdd, t, "asks") /\ UNCHANGED hoLoaded
     \/ /\ hoHelper[t] = "failed" /\ Moved(hoAdd, t, "refused")
        /\ UNCHANGED <<hoHelper, hoTried, hoLoaded>>
  /\ UNCHANGED <<hoStore, hoRight, hoGone, hoUnlucky>>

Exits(t) ==
  /\ hoAdd[t] = "exits" /\ Moved(hoAdd, t, "added")
  /\ UNCHANGED <<hoStore, hoRight, hoHelper, hoTried, hoLoaded, hoGone, hoUnlucky>>

(* Its budget is load-keys' to enforce.                                     *)
AddTimesOut(t) ==
  /\ hoAdd[t] \in {"asks", "waits", "exits"} /\ ~hoGone /\ Misfortune
  /\ Moved(hoAdd, t, "stopped")
  /\ UNCHANGED <<hoStore, hoRight, hoHelper, hoTried, hoLoaded, hoGone>>
-----------------------------------------------------------------------------
(* The helper.                                                              *)

Ends(t, how) == Moved(hoHelper, t, how)
Answered(t) == Ends(t, IF hoAdd[t] = "waits" THEN "told" ELSE "done")

(* Fetch from the keyring: the entry is read ...                            *)
ReadsEntry(t) ==
  /\ hoHelper[t] = "starts" /\ hoPlace[t] = "entry" /\ Ends(t, "read")
  /\ UNCHANGED <<hoStore, hoRight, hoAdd, hoTried, hoLoaded, hoGone, hoUnlucky>>

\* Mutant: the entry outlives its reading.
Kept(t) == UNCHANGED <<hoPlace, hoUnlucky>>

(* ... and unlinked, the failure of which nobody looks at.                  *)
Unlinked(t) ==
  \/ hoPlace' = [hoPlace EXCEPT ![t] = "gone"] /\ UNCHANGED hoUnlucky
  \/ UNCHANGED hoPlace /\ Misfortune

Unlinks(t) ==
  /\ hoHelper[t] = "read" /\ Unlinked(t) /\ Answered(t)
  /\ UNCHANGED <<hoTimed, hoDue, hoRight, hoAdd, hoTried, hoLoaded, hoGone>>

FindsNothing(t) ==
  /\ hoHelper[t] = "starts" /\ hoPlace[t] \in {"gone", "left"} /\ Ends(t, "failed")
  /\ UNCHANGED <<hoStore, hoRight, hoAdd, hoTried, hoLoaded, hoGone, hoUnlucky>>

(* Fetch from the socket: whoever dials before the listener is closed is    *)
(* connected, served or not.                                                *)
Dials(t) ==
  /\ hoHelper[t] = "starts" /\ hoPlace[t] \in {"listening", "closing"} /\ Ends(t, "dialled")
  /\ UNCHANGED <<hoStore, hoRight, hoAdd, hoTried, hoLoaded, hoGone, hoUnlucky>>

(* No byte came: the connection was closed, or the budget of the reading is *)
(* spent, as that of one accepted when the time to live elapsed is.         *)
GetsNothing(t) ==
  /\ hoHelper[t] = "dialled" /\ hoPlace[t] \in {"gone", "left"} /\ Ends(t, "failed")
  /\ UNCHANGED <<hoStore, hoRight, hoAdd, hoTried, hoLoaded, hoGone, hoUnlucky>>

FetchTimesOut(t) ==
  /\ hoHelper[t] = "dialled" /\ Misfortune /\ Ends(t, "failed")
  /\ UNCHANGED <<hoStore, hoRight, hoAdd, hoTried, hoLoaded, hoGone>>

HelperKilled(t) ==
  /\ hoHelper[t] \in {"starts", "dialled", "read"} /\ Misfortune /\ Ends(t, "failed")
  /\ UNCHANGED <<hoStore, hoRight, hoAdd, hoTried, hoLoaded, hoGone>>
-----------------------------------------------------------------------------
(* The server of a socket, and the clock.                                   *)

Accepts(t) ==
  /\ hoPlace[t] = "listening" /\ hoHelper[t] = "dialled" /\ Moved(hoPlace, t, "accepted")
  /\ UNCHANGED <<hoTimed, hoDue, hoRight, hoAdd, hoHelper, hoTried, hoLoaded, hoGone, hoUnlucky>>

Serves(t) ==
  /\ hoPlace[t] = "accepted" /\ Moved(hoPlace, t, "closing")
  /\ IF hoHelper[t] = "dialled" THEN Answered(t) ELSE UNCHANGED hoHelper
  /\ UNCHANGED <<hoTimed, hoDue, hoRight, hoAdd, hoTried, hoLoaded, hoGone, hoUnlucky>>

\* Mutant: nobody collects, and nobody gives up.
NeverGivesUp(t) == FALSE

(* select may see the time elapse with a connection accepted: that one is   *)
(* neither served nor closed.                                               *)
MayGiveUp(t) == hoPlace[t] \in {"listening", "accepted"} /\ t \in hoDue

GivesUp(t) ==
  /\ MayGiveUp(t) /\ Moved(hoPlace, t, "closing")
  /\ UNCHANGED <<hoTimed, hoDue, hoRight, hoAdd, hoHelper, hoTried, hoLoaded, hoGone, hoUnlucky>>

Closes(t) ==
  /\ hoPlace[t] = "closing" /\ Moved(hoPlace, t, "gone")
  /\ UNCHANGED <<hoTimed, hoDue, hoRight, hoAdd, hoHelper, hoTried, hoLoaded, hoGone, hoUnlucky>>

Elapses(t) ==
  /\ hoPlace[t] # "none" /\ t \notin hoDue /\ hoDue' = hoDue \cup {t}
  /\ hoPlace' = IF hoPlace[t] = "entry" /\ t \in hoTimed THEN [hoPlace EXCEPT ![t] = "gone"] ELSE hoPlace
  /\ UNCHANGED <<hoTimed, hoRight, hoAdd, hoHelper, hoTried, hoLoaded, hoGone, hoUnlucky>>

ServerSteps(t) == Accepts(t) \/ Serves(t) \/ GivesUp(t) \/ Closes(t)
HelperSteps(t) == ReadsEntry(t) \/ Unlinks(t) \/ FindsNothing(t) \/ Dials(t) \/ GetsNothing(t)
SshAddSteps(t) == AsksHelper(t) \/ HearsHelper(t) \/ Exits(t)

HandoffNext ==
  \/ LoaderKilled
  \/ \E t \in Tokens :
       \/ Stashes(t) \/ CannotStash(t) \/ AddTimesOut(t) \/ FetchTimesOut(t) \/ HelperKilled(t)
       \/ SshAddSteps(t) \/ HelperSteps(t) \/ ServerSteps(t) \/ Elapses(t)

(* Processes run, and time passes.                                          *)
HandoffFairness ==
  \A t \in Tokens : /\ WF_hoVars(ServerSteps(t)) /\ WF_hoVars(HelperSteps(t))
                    /\ WF_hoVars(SshAddSteps(t)) /\ WF_hoVars(Elapses(t))

HandoffSpec == HandoffInit /\ [][HandoffNext]_hoVars /\ HandoffFairness
-----------------------------------------------------------------------------
(* The types of the variables.                                              *)
HandoffTypeOK ==
  /\ hoPlace \in [Tokens -> {"none", "entry", "listening", "accepted", "closing", "left", "gone"}]
  /\ {hoTimed, hoDue, hoRight, hoLoaded} \subseteq SUBSET Tokens
  /\ hoAdd \in [Tokens -> {"idle", "asks", "waits", "exits", "added", "refused", "stopped", "error"}]
  /\ hoHelper \in [Tokens -> {"none", "starts", "dialled", "read", "told", "done", "failed"}]
  /\ hoTried \in [Tokens -> Nat] /\ hoGone \in BOOLEAN /\ hoUnlucky \in 0..MaxMisfortunes

(* handoff.go, "the token is invalidated on the first redemption": the user *)
(* typed a passphrase once, and ssh-add is told it at most once, however    *)
(* often it asks; told again it would try a wrong one until its time is up. *)
(* Every further telling takes an unlinking that failed.                    *)
ToldOnce == \A t \in Tokens : hoTried[t] <= 1 + hoUnlucky

(* handoff.go, "expires on its own if nobody ever comes for it": whatever   *)
(* becomes of load-keys, ssh-add and the helper, a passphrase does not stay *)
(* where it was put, but where its expiry could not be set.                 *)
NoneLingers ==
  \A t \in Tokens :
    hoPlace[t] # "none" ~> \/ hoPlace[t] \in {"gone", "left"}
                           \/ hoPlace[t] = "entry" /\ t \notin hoTimed
=============================================================================
