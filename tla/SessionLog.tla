----------------------------- MODULE SessionLog ------------------------------
(***************************************************************************)
(* The session log every login shell of the account appends to: Log queues *)
(* for a lock beside the file, appends its line, and under the lock trims  *)
(* the file to its last lines by reading it and writing it again, which    *)
(* truncates it first.  A writer that waited too long for the lock appends *)
(* all the same and trims nothing.                                         *)
(*                                                                         *)
(* Any number of shells write; each is killed anywhere, which lets go of   *)
(* the lock, or finds a call failing.  A line is the number it was         *)
(* appended as.                                                            *)
(***************************************************************************)
EXTENDS Naturals, Sequences, SequencesExt

CONSTANTS
  LogWriters,
  LogMaxLines,      \* maxLines
  MaxLogged,        \* how many lines are ever appended
  MaxLogMisfortunes \* waits that elapse, calls that fail, writers killed

ASSUME SessionLogAssumption == {LogMaxLines, MaxLogged, MaxLogMisfortunes} \subseteq Nat

VARIABLES
  slFile,     \* the lines in the file
  slLock,     \* who holds the lock
  slAt,       \* what each writer is at
  slRead,     \* the lines it is to write back
  slAppended, \* how many lines have been appended
  slHeld,     \* history: those appended under the lock
  slTorn,     \* history: a writer ended between truncating and writing back
  slUnlucky

slVars == <<slFile, slLock, slAt, slRead, slAppended, slHeld, slTorn, slUnlucky>>
NoWriter == "nobody"

ASSUME WritersAssumption == NoWriter \notin LogWriters

SessionLogInit ==
  /\ slFile = <<>> /\ slLock = NoWriter
  /\ slAt = [w \in LogWriters |-> "idle"] /\ slRead = [w \in LogWriters |-> <<>>]
  /\ slAppended = 0 /\ slHeld = {} /\ slTorn = FALSE /\ slUnlucky = 0

SlGoes(w, to) == slAt' = [slAt EXCEPT ![w] = to]
SlUnlucky == slUnlucky < MaxLogMisfortunes /\ slUnlucky' = slUnlucky + 1
LetsGo(w) == slLock' = IF slLock = w THEN NoWriter ELSE slLock

(* Log, with a line to write.                                               *)
Logs(w) ==
  /\ slAt[w] = "idle" /\ SlGoes(w, "queue")
  /\ UNCHANGED <<slFile, slLock, slRead, slAppended, slHeld, slTorn, slUnlucky>>

(* Logger.lock: TryLock until it is got or the wait is over.                *)
Locks(w) ==
  /\ slAt[w] = "queue" /\ slLock = NoWriter /\ slLock' = w /\ SlGoes(w, "append")
  /\ UNCHANGED <<slFile, slRead, slAppended, slHeld, slTorn, slUnlucky>>

GivesUpLock(w) ==
  /\ slAt[w] = "queue" /\ slLock # NoWriter /\ SlUnlucky /\ SlGoes(w, "append")
  /\ UNCHANGED <<slFile, slLock, slRead, slAppended, slHeld, slTorn>>

\* Mutant: a writer without the lock trims as well.
WhoeverWrote(w) == TRUE

MayTrim(w) == slLock = w

(* O_APPEND: the line goes to whatever the end is by then.                  *)
Appends(w) ==
  /\ slAt[w] = "append" /\ slAppended < MaxLogged
  /\ slAppended' = slAppended + 1 /\ slFile' = Append(slFile, slAppended')
  /\ slHeld' = IF slLock = w THEN slHeld \cup {slAppended'} ELSE slHeld
  /\ SlGoes(w, IF MayTrim(w) THEN "read" ELSE "idle")
  /\ UNCHANGED <<slLock, slRead, slTorn, slUnlucky>>

Lasts(lines) == SubSeq(lines, Len(lines) - LogMaxLines + 1, Len(lines))

(* trim: nothing to do, or the lines to keep.                               *)
ReadsBack(w) ==
  /\ slAt[w] = "read"
  /\ \/ Len(slFile) <= LogMaxLines /\ SlGoes(w, "idle") /\ LetsGo(w) /\ UNCHANGED slRead
     \/ /\ Len(slFile) > LogMaxLines /\ SlGoes(w, "truncate")
        /\ slRead' = [slRead EXCEPT ![w] = Lasts(slFile)] /\ UNCHANGED slLock
  /\ UNCHANGED <<slFile, slAppended, slHeld, slTorn, slUnlucky>>

(* os.WriteFile is two steps, and writes from the start of the file: a line *)
(* that has been appended to the truncated file meanwhile is written over.  *)
Truncates(w) ==
  /\ slAt[w] = "truncate" /\ slFile' = <<>> /\ SlGoes(w, "write")
  /\ UNCHANGED <<slLock, slRead, slAppended, slHeld, slTorn, slUnlucky>>

WritesBack(w) ==
  /\ slAt[w] = "write" /\ slFile' = slRead[w] /\ slRead' = [slRead EXCEPT ![w] = <<>>]
  /\ SlGoes(w, "idle") /\ LetsGo(w)
  /\ UNCHANGED <<slAppended, slHeld, slTorn, slUnlucky>>

(* Killed, or a call refused: the lock is let go of either way.             *)
EndsEarly(w) ==
  /\ slAt[w] # "idle" /\ SlUnlucky /\ SlGoes(w, "idle") /\ LetsGo(w)
  /\ slRead' = [slRead EXCEPT ![w] = <<>>]
  /\ slTorn' = (slTorn \/ slAt[w] = "write")
  /\ UNCHANGED <<slFile, slAppended, slHeld>>

SessionLogNext ==
  \E w \in LogWriters :
    \/ Logs(w) \/ Locks(w) \/ GivesUpLock(w) \/ Appends(w)
    \/ ReadsBack(w) \/ Truncates(w) \/ WritesBack(w) \/ EndsEarly(w)

SessionLogSpec == SessionLogInit /\ [][SessionLogNext]_slVars
-----------------------------------------------------------------------------
(* The types of the variables.                                              *)
SessionLogTypeOK ==
  /\ slFile \in Seq(1..MaxLogged) /\ slLock \in LogWriters \cup {NoWriter}
  /\ slAt \in [LogWriters -> {"idle", "queue", "append", "read", "truncate", "write"}]
  /\ slRead \in [LogWriters -> Seq(1..MaxLogged)]
  /\ slAppended \in 0..MaxLogged /\ slHeld \subseteq 1..slAppended
  /\ slTorn \in BOOLEAN /\ slUnlucky \in 0..MaxLogMisfortunes

(* sessionlog.go, "an append that lands between that read and that write is *)
(* one the trim overwrites ... it is what the lock is here to stop", and of *)
(* a writer without it, "it never makes the clobbering worse": however many *)
(* shells write, and however many of them could not wait for the lock, a    *)
(* line written under it is in the log until LogMaxLines later ones have    *)
(* been, unless a writer ended with the file truncated under it.            *)
HeldLinesStay ==
  slTorn \/ (\E w \in LogWriters : slAt[w] = "write")
  \/ \A line \in slHeld : line \in ToSet(slFile) \/ slAppended - line >= LogMaxLines
=============================================================================
