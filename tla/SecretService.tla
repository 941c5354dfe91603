---------------------------- MODULE SecretService ----------------------------
(***************************************************************************)
(* The client of the desktop's Secret Service and the wallet backend on    *)
(* it: find SSHakku's collection or have it created, unlock it, look up,   *)
(* store, delete or list, and lock it again.  Wherever the service wants   *)
(* the user's word for something it returns a prompt, which the client has *)
(* to raise, to wait for by a signal, and to dismiss when it stops         *)
(* waiting.  Some services know collections by alias and some only by      *)
(* label.                                                                  *)
(*                                                                         *)
(* A step is one call.  A call may fail, whether or not the service has    *)
(* done what it asked; the user answers a dialog whenever they like, or    *)
(* never.  Batches that hold the collection open are KeyLoading's.         *)
(***************************************************************************)
EXTENDS Naturals, FiniteSets

CONSTANTS
  SsClients,       \* processes with a connection of their own
  MaxSsCalls,      \* operations between them
  MaxCollections,  \* collections of SSHakku's name that may come to exist
  MaxSsFailures    \* calls that fail, waits that end, processes killed

ASSUME SecretServiceAssumption == {MaxSsCalls, MaxCollections, MaxSsFailures} \subseteq Nat

VARIABLES
  ssDesktop,      \* how the service knows a collection: by "alias" or "label"
  ssCollections,  \* the collections of SSHakku's name
  ssAlias,        \* the one the alias leads to, if it leads anywhere
  ssUnlocked,     \* those that are unlocked
  ssItems,        \* those that hold the passphrase
  ssDialogs,      \* prompts in front of the user
  ssAt,           \* the call each client is about to make, or its wait
  ssOp,           \* the operation it is part of
  ssCol,          \* SecretService.collection
  ssPrompt,       \* the prompt it was given
  ssSignal,       \* the Completed signal in its channel
  ssCalls,
  ssFailed,
  ssAstray,       \* history: dialogs whose raising or dismissal failed, or whose client was killed
  ssOverlapped    \* history: two clients were at it at once

ssService == <<ssDesktop, ssCollections, ssAlias, ssUnlocked, ssItems>>
ssClient == <<ssAt, ssOp, ssCol, ssPrompt, ssSignal>>
ssHistory == <<ssAstray, ssOverlapped>>
ssVars == <<ssService, ssDialogs, ssClient, ssCalls, ssFailed, ssHistory>>

Collections == 1..MaxCollections
NoCollection == 0
SsOps == {"lookup", "store", "delete", "list", "look"}
Creating == {"create", "create_aliased"}
SsNoPrompt == [client |-> "nobody", number |-> 0, wants |-> "nothing", of |-> NoCollection]
NoSignal == [code |-> "none", col |-> NoCollection]

SecretServiceInit ==
  /\ ssDesktop = "unknown" /\ ssCollections = {} /\ ssAlias = NoCollection
  /\ ssUnlocked = {} /\ ssItems = {} /\ ssDialogs = {}
  /\ ssAt = [c \in SsClients |-> "idle"] /\ ssOp = [c \in SsClients |-> "none"]
  /\ ssCol = [c \in SsClients |-> NoCollection]
  /\ ssPrompt = [c \in SsClients |-> SsNoPrompt] /\ ssSignal = [c \in SsClients |-> NoSignal]
  /\ ssCalls = 0 /\ ssFailed = 0 /\ ssAstray = {} /\ ssOverlapped = FALSE

SsMishap == ssFailed < MaxSsFailures /\ ssFailed' = ssFailed + 1
-----------------------------------------------------------------------------
(* What the service does.                                                   *)

FreshCollection == CHOOSE col \in Collections : col \notin ssCollections

(* CreateCollection, done: an alias that is taken leads to the one it has.  *)
SsCreated(aliased, col) ==
  IF aliased /\ ssAlias # NoCollection
  THEN col = ssAlias /\ UNCHANGED <<ssCollections, ssAlias, ssUnlocked>>
  ELSE /\ Cardinality(ssCollections) < MaxCollections /\ col = FreshCollection
       /\ ssCollections' = ssCollections \cup {col} /\ ssUnlocked' = ssUnlocked \cup {col}
       /\ ssAlias' = IF aliased THEN col ELSE ssAlias

(* What is asked of it is done, now or when the user has agreed.            *)
Done(wants, of, col) ==
  \/ wants \in Creating /\ SsCreated(wants = "create_aliased", col) /\ UNCHANGED ssItems
  \/ /\ wants \notin Creating /\ col = of /\ UNCHANGED <<ssCollections, ssAlias>>
     /\ ssUnlocked' = CASE wants = "unlock" -> ssUnlocked \cup {of}
                         [] wants = "lock" -> ssUnlocked \ {of}
                         [] OTHER -> ssUnlocked
     /\ ssItems' = CASE wants = "store" -> ssItems \cup {of}
                      [] wants = "delete" -> ssItems \ {of}
                      [] OTHER -> ssItems

Untouched == UNCHANGED <<ssCollections, ssAlias, ssUnlocked, ssItems>>
-----------------------------------------------------------------------------
(* What the client makes of an answer.                                      *)

SsTurns(c, to, op, col, prompt, signal) ==
  /\ ssAt' = [ssAt EXCEPT ![c] = to] /\ ssOp' = [ssOp EXCEPT ![c] = op]
  /\ ssCol' = [ssCol EXCEPT ![c] = col]
  /\ ssPrompt' = [ssPrompt EXCEPT ![c] = prompt] /\ ssSignal' = [ssSignal EXCEPT ![c] = signal]
SsGoes(c, to) == SsTurns(c, to, ssOp[c], ssCol[c], SsNoPrompt, NoSignal)
SsEnds(c) == SsTurns(c, "idle", "none", ssCol[c], SsNoPrompt, NoSignal)
Resolved(c, col) == SsTurns(c, "unlock", ssOp[c], col, SsNoPrompt, NoSignal)

(* Once a call, or the prompt it led to, has succeeded.                     *)
SsProceeds(c, wants, col) ==
  CASE wants \in Creating -> Resolved(c, col)
    [] wants = "unlock" -> SsGoes(c, "work")
    [] wants \in {"store", "delete"} -> SsGoes(c, "lock")
    [] wants = "lock" -> SsEnds(c)

(* Once it has failed: what was unlocked is locked again.                   *)
SsFails(c, wants) == IF wants \in {"store", "delete"} THEN SsGoes(c, "lock") ELSE SsEnds(c)
-----------------------------------------------------------------------------
(* The client.                                                              *)

SsBegins(c, op) ==
  /\ ssAt[c] = "idle" /\ ssCalls < MaxSsCalls /\ ssCalls' = ssCalls + 1
  /\ ssDesktop' \in IF ssDesktop = "unknown" THEN {"alias", "label"} ELSE {ssDesktop}
  /\ SsTurns(c, IF ssCol[c] = NoCollection \/ op = "look" THEN "alias" ELSE "unlock",
             op, ssCol[c], SsNoPrompt, NoSignal)
  /\ ssOverlapped' = (ssOverlapped \/ \E d \in SsClients : ssAt[d] # "idle")
  /\ UNCHANGED <<ssCollections, ssAlias, ssUnlocked, ssItems, ssDialogs, ssFailed, ssAstray>>

(* The process ends, and what it had resolved with it.                      *)
SsExits(c) ==
  /\ ssAt[c] = "idle" /\ ssCol[c] # NoCollection
  /\ SsTurns(c, "idle", "none", NoCollection, SsNoPrompt, NoSignal)
  /\ UNCHANGED <<ssService, ssDialogs, ssCalls, ssFailed, ssHistory>>

(* A look only looks; anything else has the collection created.             *)
ReadsAlias(c) ==
  /\ ssAt[c] = "alias"
  /\ CASE ssAlias # NoCollection /\ ssOp[c] = "look" -> SsEnds(c)
       [] ssAlias # NoCollection /\ ssOp[c] # "look" -> Resolved(c, ssAlias)
       [] ssAlias = NoCollection /\ (ssDesktop = "label" \/ ssOp[c] = "look") -> SsGoes(c, "find")
       [] OTHER -> SsGoes(c, "create_aliased")
  /\ UNCHANGED <<ssService, ssDialogs, ssCalls, ssFailed, ssHistory>>

\* Mutant: a collection is known by its alias only.
NoneTold(cols) == {}

(* findCollectionByLabel: of these, each is asked for its label.            *)
SsTold(cols) == cols

(* One that does not tell it is passed over.                                *)
Finds(c) ==
  /\ ssAt[c] = "find"
  /\ \E silent \in SUBSET ssCollections :
       /\ IF silent = {} THEN UNCHANGED ssFailed ELSE SsMishap
       /\ LET seen == SsTold(ssCollections \ silent)
          IN CASE ssOp[c] = "look" -> SsEnds(c)
               [] ssOp[c] # "look" /\ seen = {} -> SsGoes(c, "create")
               [] OTHER -> \E col \in seen : Resolved(c, col)
  /\ UNCHANGED <<ssService, ssDialogs, ssCalls, ssHistory>>

CannotRead(c) ==
  /\ ssAt[c] \in {"alias", "find"} /\ SsMishap /\ SsEnds(c)
  /\ UNCHANGED <<ssService, ssDialogs, ssCalls, ssHistory>>

(* The calls that do something, each at its place in the operation.         *)
SsWants(c) ==
  CASE ssAt[c] \in Creating \cup {"unlock", "lock"} -> ssAt[c]
    [] ssAt[c] = "work" /\ ssOp[c] = "store" -> "store"
    [] ssAt[c] = "work" /\ ssOp[c] = "delete" /\ ssCol[c] \in ssItems -> "delete"
    [] OTHER -> "nothing"

Given(c) == [client |-> c, number |-> ssCalls, wants |-> SsWants(c), of |-> ssCol[c]]

(* The service does it, wants the user's word for it, or the call fails -   *)
(* done or not done.                                                        *)
SsCalls(c) ==
  /\ SsWants(c) # "nothing"
  /\ \/ \E col \in Collections : Done(SsWants(c), ssCol[c], col) /\ SsProceeds(c, SsWants(c), col)
        /\ UNCHANGED ssFailed
     \/ /\ SsTurns(c, "prompt", ssOp[c], ssCol[c], Given(c), NoSignal)
        /\ Untouched /\ UNCHANGED ssFailed
     \/ /\ SsMishap /\ SsFails(c, SsWants(c))
        /\ Untouched \/ \E col \in Collections : Done(SsWants(c), ssCol[c], col)
  /\ UNCHANGED <<ssDesktop, ssDialogs, ssCalls, ssHistory>>

(* Searching, reading secrets and attributes, listing, finding nothing to   *)
(* delete: whatever comes of it, the collection is locked next.             *)
SsReads(c) ==
  /\ ssAt[c] = "work" /\ SsWants(c) = "nothing" /\ SsGoes(c, "lock")
  /\ UNCHANGED <<ssService, ssDialogs, ssCalls, ssFailed, ssHistory>>
-----------------------------------------------------------------------------
(* completePrompt.                                                          *)

(* The signal is watched for, and the dialog raised: the call may fail with *)
(* the dialog raised all the same.                                          *)
RaisesDialog(c) ==
  /\ ssAt[c] = "prompt"
  /\ \/ /\ SsTurns(c, "wait", ssOp[c], ssCol[c], ssPrompt[c], NoSignal)
        /\ ssDialogs' = ssDialogs \cup {ssPrompt[c]} /\ UNCHANGED <<ssFailed, ssAstray>>
     \/ /\ SsMishap /\ SsFails(c, ssPrompt[c].wants)
        /\ \/ ssDialogs' = ssDialogs \cup {ssPrompt[c]} /\ ssAstray' = ssAstray \cup {ssPrompt[c]}
           \/ UNCHANGED <<ssDialogs, ssAstray>>
  /\ UNCHANGED <<ssService, ssCalls, ssOverlapped>>

HearsDialog(c) ==
  /\ ssAt[c] = "wait" /\ ssSignal[c] # NoSignal
  /\ IF ssSignal[c].code = "dismissed" THEN SsFails(c, ssPrompt[c].wants)
     ELSE SsProceeds(c, ssPrompt[c].wants, ssSignal[c].col)
  /\ UNCHANGED <<ssService, ssDialogs, ssCalls, ssFailed, ssHistory>>

\* Mutant: the dialog is left where it is.
LeftThere(d) == ssDialogs' \in {ssDialogs} /\ UNCHANGED ssAstray

Dismissed(d) ==
  \/ ssDialogs' = ssDialogs \ {d} /\ UNCHANGED ssAstray
  \/ UNCHANGED ssDialogs /\ ssAstray' = ssAstray \cup {d}

(* The budget of the wait is spent, or the caller's: it may be that the     *)
(* user has just answered.                                                  *)
StopsWaiting(c) ==
  /\ ssAt[c] = "wait" /\ SsMishap /\ Dismissed(ssPrompt[c])
  /\ SsFails(c, ssPrompt[c].wants)
  /\ UNCHANGED <<ssService, ssCalls, ssOverlapped>>

SsKilled(c) ==
  /\ ssAt[c] # "idle" /\ SsMishap
  /\ SsTurns(c, "idle", "none", NoCollection, SsNoPrompt, NoSignal)
  /\ ssAstray' = ssAstray \cup {ssPrompt[c]}
  /\ UNCHANGED <<ssService, ssDialogs, ssCalls, ssOverlapped>>

Signals(d, code, col) ==
  ssSignal' = IF ssAt[d.client] = "wait" /\ ssPrompt[d.client] = d
              THEN [ssSignal EXCEPT ![d.client] = [code |-> code, col |-> col]] ELSE ssSignal

UserAnswers(d) ==
  /\ d \in ssDialogs /\ ssDialogs' = ssDialogs \ {d}
  /\ \/ \E col \in Collections : Done(d.wants, d.of, col) /\ Signals(d, "completed", col)
     \/ Untouched /\ Signals(d, "dismissed", NoCollection)
  /\ UNCHANGED <<ssDesktop, ssAt, ssOp, ssCol, ssPrompt, ssCalls, ssFailed, ssHistory>>

SecretServiceNext ==
  \/ \E c \in SsClients :
       \/ \E op \in SsOps : SsBegins(c, op)
       \/ SsExits(c) \/ ReadsAlias(c) \/ Finds(c) \/ CannotRead(c) \/ SsCalls(c) \/ SsReads(c)
       \/ RaisesDialog(c) \/ HearsDialog(c) \/ StopsWaiting(c) \/ SsKilled(c)
  \/ \E d \in ssDialogs : UserAnswers(d)

SecretServiceSpec == SecretServiceInit /\ [][SecretServiceNext]_ssVars
-----------------------------------------------------------------------------
DialogIds ==
  [client: SsClients \cup {"nobody"}, number: 0..MaxSsCalls, of: Collections \cup {NoCollection},
   wants: Creating \cup {"nothing", "unlock", "lock", "store", "delete"}]

(* The types of the variables.                                              *)
SecretServiceTypeOK ==
  /\ ssDesktop \in {"unknown", "alias", "label"} /\ ssAlias \in ssCollections \cup {NoCollection}
  /\ ssCollections \subseteq Collections /\ {ssUnlocked, ssItems} \subseteq SUBSET ssCollections
  /\ ssDialogs \subseteq DialogIds /\ ssAstray \subseteq DialogIds
  /\ ssAt \in [SsClients -> Creating \cup {"idle", "alias", "find", "unlock", "work", "lock", "prompt", "wait"}]
  /\ ssOp \in [SsClients -> SsOps \cup {"none"}] /\ ssCol \in [SsClients -> ssCollections \cup {NoCollection}]
  /\ ssPrompt \in [SsClients -> DialogIds]
  /\ ssSignal \in [SsClients -> [code: {"none", "completed", "dismissed"}, col: Collections \cup {NoCollection}]]
  /\ ssCalls \in 0..MaxSsCalls /\ ssFailed \in 0..MaxSsFailures /\ ssOverlapped \in BOOLEAN

(* completePrompt, "dismiss it rather than leave it on their screen": every *)
(* dialog in front of the user has a client waiting for the answer, but one *)
(* whose raising or dismissal failed, or whose client was killed.           *)
NoDialogForNobody ==
  \A d \in ssDialogs \ ssAstray : ssAt[d.client] = "wait" /\ ssPrompt[d.client] = d

(* Client.Collection: used by one process at a time, SSHakku's collection   *)
(* is created once, whichever way the service knows it and however often    *)
(* the user turns its dialogs down; two would hide each other's passphrases. *)
OneCollection == Cardinality(ssCollections) <= 1 \/ ssOverlapped \/ ssFailed > 0

=============================================================================
