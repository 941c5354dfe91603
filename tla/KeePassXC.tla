------------------------------ MODULE KeePassXC ------------------------------
(***************************************************************************)
(* The route to KeePassXC that asks nobody anything: its browser protocol, *)
(* over a local socket.  An operation opens a connection of its own,       *)
(* exchanges keys, has KeePassXC confirm the association the user once     *)
(* approved, and asks for the entries of a URL; saving then writes one.    *)
(* Where there is no association, saving, and only saving, asks for one,   *)
(* which raises a dialog.                                                  *)
(*                                                                         *)
(* A step is one frame sent, read or answered.  KeePassXC answers when it  *)
(* gets round to it, says unasked that its database was locked or opened,  *)
(* and may be slower than the budget of an exchange.                       *)
(***************************************************************************)
EXTENDS Naturals, Sequences, FiniteSets

CONSTANTS
  Clients,        \* processes that look up and save passphrases
  Logins,         \* key names that differ only in case: they share one URL
  Passphrases,
  NoPassphrase,
  MaxEntries,     \* entries the database may come to hold
  MaxCalls,       \* how often anything is looked up or saved
  MaxGrants,      \* associations that may be asked for
  MaxLate,        \* exchanges KeePassXC answers too late, refuses or breaks off
  MaxMeddling     \* how often the user locks, opens or revokes

ASSUME KeePassXCAssumption ==
  /\ NoPassphrase \notin Passphrases
  /\ \A x \in Passphrases \cup {NoPassphrase} : x \notin {"none", "ok", "error"}
  /\ {MaxEntries, MaxCalls, MaxGrants, MaxLate, MaxMeddling} \subseteq Nat

VARIABLES
  \* KeePassXC.
  kxOpen,       \* its database is unlocked
  kxEntries,    \* the entries of the URL
  kxKnown,      \* the associations it honours
  kxDialogs,    \* approvals it is asking the user for
  kxLeft,       \* requests of connections that were closed
  \* The file the association is kept in (FileAssociationStore).
  kxFile,
  \* Per client.
  kxJob,        \* the operation, its key and its passphrase
  kxAt,         \* the answer it is waiting for
  kxAsked,      \* requests on their way to KeePassXC
  kxFrames,     \* frames on their way back
  kxBroken,     \* the decoder has failed to read, and will not try again
  kxAssoc,      \* the association it uses
  kxOutcome,
  kxCalls, kxLates, kxMeddled, kxGrants,
  \* History.
  kxSeen,       \* the passphrases the key had while it was looked up
  kxBlind       \* keys saved by one that could not see what was there

kxServer == <<kxOpen, kxEntries, kxKnown, kxDialogs>>
kxClient == <<kxJob, kxAt, kxBroken, kxAssoc, kxOutcome>>
kxBounds == <<kxCalls, kxLates, kxMeddled, kxGrants>>
kxVars == <<kxServer, kxLeft, kxFile, kxClient, kxAsked, kxFrames, kxBounds, kxSeen, kxBlind>>

Uuids == 1..MaxEntries
Grants == 1..MaxGrants
NoGrant == 0
KxTorn == MaxGrants + 1
Asking == {"keys", "test", "associate", "get", "set"}

KxNoRequest == [action |-> "none", grant |-> NoGrant, login |-> "none", secret |-> NoPassphrase, uuid |-> 0]
KxIdle == [op |-> "none", login |-> "none", secret |-> NoPassphrase]

KeePassXCInit ==
  /\ kxOpen = TRUE /\ kxEntries = {} /\ kxKnown = {} /\ kxDialogs = {} /\ kxLeft = {}
  /\ kxFile = NoGrant
  /\ kxJob = [c \in Clients |-> KxIdle] /\ kxAt = [c \in Clients |-> "idle"]
  /\ kxAsked = [c \in Clients |-> <<>>] /\ kxFrames = [c \in Clients |-> <<>>]
  /\ kxBroken = [c \in Clients |-> FALSE]
  /\ kxAssoc = [c \in Clients |-> NoGrant] /\ kxOutcome = [c \in Clients |-> "none"]
  /\ kxCalls = 0 /\ kxLates = 0 /\ kxMeddled = 0 /\ kxGrants = 0
  /\ kxSeen = [c \in Clients |-> {}] /\ kxBlind = {}
-----------------------------------------------------------------------------
(* Sending and ending.                                                      *)

(* The passphrases a key has, or that it has none.                          *)
SecretsOf(entries, login) ==
  LET theirs == {e \in entries : e.login = login}
  IN IF theirs = {} THEN {NoPassphrase} ELSE {e.secret : e \in theirs}

Storing(c) == kxJob[c].op = "store"
KxRequest(c, action, grant, uuid) ==
  [action |-> action, grant |-> grant, login |-> kxJob[c].login, secret |-> kxJob[c].secret, uuid |-> uuid]

(* exchangeWithin: the request is written whatever became of reading.       *)
Sends(c, r) ==
  /\ kxAsked' = [kxAsked EXCEPT ![c] = Append(@, r)]
  /\ kxAt' = [kxAt EXCEPT ![c] = r.action]
  /\ UNCHANGED <<kxJob, kxOutcome, kxLeft, kxSeen>>

(* Return, and the deferred Close: what was sent may still be acted on.     *)
KxEnds(c, outcome) ==
  /\ kxOutcome' = [kxOutcome EXCEPT ![c] = outcome]
  /\ kxAt' = [kxAt EXCEPT ![c] = "idle"]
  /\ kxJob' = [kxJob EXCEPT ![c] = KxIdle]
  /\ kxLeft' = kxLeft \cup {kxAsked[c][i] : i \in DOMAIN kxAsked[c]}
  /\ kxAsked' = [kxAsked EXCEPT ![c] = <<>>]
  /\ kxAssoc' = [kxAssoc EXCEPT ![c] = NoGrant] /\ kxSeen' = [kxSeen EXCEPT ![c] = {}]

(* Frames that nobody will read are not kept.                               *)
Drops(c, frames) ==
  kxFrames' = [kxFrames EXCEPT ![c] = IF kxAt'[c] = "idle" \/ kxBroken'[c] THEN <<>> ELSE frames]

(* Lookup or Store is called, connects and sends its public key.            *)
Connects(c, op, login, secret) ==
  /\ kxAt[c] = "idle" /\ kxCalls < MaxCalls /\ kxCalls' = kxCalls + 1
  /\ kxJob' = [kxJob EXCEPT ![c] = [op |-> op, login |-> login, secret |-> secret]]
  /\ kxAt' = [kxAt EXCEPT ![c] = "keys"]
  /\ kxAsked' = [kxAsked EXCEPT ![c] = <<[KxNoRequest EXCEPT !.action = "keys"]>>]
  /\ kxFrames' = [kxFrames EXCEPT ![c] = <<>>]
  /\ kxBroken' = [kxBroken EXCEPT ![c] = FALSE]
  /\ kxOutcome' = [kxOutcome EXCEPT ![c] = "none"]
  /\ kxAssoc' = [kxAssoc EXCEPT ![c] = NoGrant]
  /\ kxSeen' = [kxSeen EXCEPT ![c] = SecretsOf(kxEntries, login)]
  /\ kxBlind' = IF op = "store" /\ \E d \in Clients : Storing(d) /\ kxJob[d].login = login
                THEN kxBlind \cup {login} ELSE kxBlind
  /\ UNCHANGED <<kxServer, kxLeft, kxFile, kxLates, kxMeddled, kxGrants>>

(* There is no socket to connect to.                                        *)
NotRunning(c) ==
  /\ kxAt[c] = "idle" /\ kxOutcome[c] # "error"
  /\ kxOutcome' = [kxOutcome EXCEPT ![c] = "error"]
  /\ UNCHANGED <<kxServer, kxLeft, kxFile, kxJob, kxAt, kxBroken, kxAssoc, kxAsked, kxFrames,
                 kxBounds, kxSeen, kxBlind>>
-----------------------------------------------------------------------------
(* What an answer leads to, and what the want of one does.                  *)

Keeps == UNCHANGED <<kxFile, kxGrants, kxBlind>>

(* Native.associate: a new identification key, and an approval to wait for. *)
AsksApproval(c) ==
  /\ kxGrants < MaxGrants /\ kxGrants' = kxGrants + 1
  /\ kxAssoc' = [kxAssoc EXCEPT ![c] = kxGrants + 1]
  /\ Sends(c, KxRequest(c, "associate", kxGrants + 1, 0))
  /\ UNCHANGED <<kxFile, kxBlind>>

(* There is no association, or none that KeePassXC confirms.                *)
NotAssociated(c) ==
  IF Storing(c) THEN AsksApproval(c) ELSE KxEnds(c, "error") /\ Keeps

(* Native.association, once keys are exchanged.                             *)
LoadsAssociation(c) ==
  CASE kxFile = NoGrant -> NotAssociated(c)
    [] kxFile = KxTorn -> KxEnds(c, "error") /\ Keeps
    [] OTHER -> /\ kxAssoc' = [kxAssoc EXCEPT ![c] = kxFile]
                /\ Sends(c, KxRequest(c, "test", kxFile, 0))
                /\ Keeps

AsksEntries(c) == Sends(c, KxRequest(c, "get", kxAssoc[c], 0)) /\ Keeps /\ UNCHANGED kxAssoc

\* Mutants: an entry of the URL is taken whatever its name; none is.
PicksAny(c, entries) == entries
PicksNone(c, entries) == {}

(* The URL narrows the candidates, the exact name picks among them.         *)
Picks(c, entries) == {e \in entries : e.login = kxJob[c].login}

KxFound(c, entries) ==
  LET mine == Picks(c, entries)
  IN IF ~Storing(c)
     THEN \E x \in IF mine = {} THEN {NoPassphrase} ELSE {e.secret : e \in mine} : KxEnds(c, x) /\ Keeps
     ELSE \E u \in IF mine = {} THEN {0} ELSE {e.uuid : e \in mine} :
            Sends(c, KxRequest(c, "set", kxAssoc[c], u)) /\ Keeps /\ UNCHANGED kxAssoc

(* Store saves whether or not it could see what is there.                   *)
CouldNotSee(c) ==
  IF Storing(c)
  THEN /\ Sends(c, KxRequest(c, "set", kxAssoc[c], 0))
       /\ kxBlind' = kxBlind \cup {kxJob[c].login}
       /\ UNCHANGED <<kxFile, kxAssoc, kxGrants>>
  ELSE KxEnds(c, "error") /\ Keeps

\* Mutant: a locked database counts as a refused association too.
KxFailsAlike(c, code) ==
  CASE kxAt[c] = "test" -> NotAssociated(c)
    [] kxAt[c] = "get" /\ code = "no_logins" -> KxFound(c, {})
    [] kxAt[c] = "get" /\ code # "no_logins" -> CouldNotSee(c)
    [] OTHER -> KxEnds(c, "error") /\ Keeps

(* TestAssociate makes one answer of every failure but a locked database.   *)
KxFails(c, code) ==
  CASE kxAt[c] = "test" /\ code # "locked" -> NotAssociated(c)
    [] kxAt[c] = "get" /\ code = "no_logins" -> KxFound(c, {})
    [] kxAt[c] = "get" /\ code # "no_logins" -> CouldNotSee(c)
    [] OTHER -> KxEnds(c, "error") /\ Keeps

Succeeds(c, entries) ==
  CASE kxAt[c] = "keys" -> LoadsAssociation(c)
    [] kxAt[c] = "test" -> AsksEntries(c)
    [] kxAt[c] = "get" -> KxFound(c, entries)
    [] kxAt[c] = "set" -> KxEnds(c, "ok") /\ Keeps
    [] kxAt[c] = "associate" -> /\ kxAt' = [kxAt EXCEPT ![c] = "save"]
                                /\ UNCHANGED <<kxJob, kxOutcome, kxLeft, kxAsked, kxAssoc, kxSeen>> /\ Keeps

(* A frame that answers something else is skipped.                          *)
Reads(c) ==
  /\ kxAt[c] \in Asking /\ ~kxBroken[c] /\ kxFrames[c] # <<>>
  /\ LET frame == Head(kxFrames[c])
     IN IF frame.action # kxAt[c]
        THEN UNCHANGED <<kxJob, kxAt, kxAssoc, kxOutcome, kxAsked, kxLeft, kxSeen>> /\ Keeps
        ELSE /\ IF frame.code = "ok" THEN Succeeds(c, frame.entries) ELSE KxFails(c, frame.code)
  /\ UNCHANGED kxBroken
  /\ Drops(c, Tail(kxFrames[c]))
  /\ UNCHANGED <<kxServer, kxLates, kxMeddled, kxCalls>>

(* Nothing came within the budget: json.Decoder keeps the error it gets, and *)
(* every later read on this connection fails with it at once.               *)
TimesOut(c) ==
  /\ kxAt[c] \in Asking /\ ~kxBroken[c]
  /\ kxLates < MaxLate /\ kxLates' = kxLates + 1
  /\ KxFails(c, "timeout")
  /\ kxBroken' = [kxBroken EXCEPT ![c] = kxAt'[c] # "idle"]
  /\ Drops(c, <<>>)
  /\ UNCHANGED <<kxServer, kxMeddled, kxCalls>>

FailsAtOnce(c) ==
  /\ kxAt[c] \in Asking /\ kxBroken[c]
  /\ KxFails(c, "timeout")
  /\ kxBroken' = [kxBroken EXCEPT ![c] = kxAt'[c] # "idle"]
  /\ UNCHANGED <<kxServer, kxFrames, kxLates, kxMeddled, kxCalls>>

(* FileAssociationStore.Save writes in place: first the file is emptied.    *)
SaveBegins(c) ==
  /\ kxAt[c] = "save"
  /\ \/ /\ kxFile' = KxTorn /\ kxAt' = [kxAt EXCEPT ![c] = "saving"]
        /\ UNCHANGED <<kxJob, kxOutcome, kxLeft, kxAsked, kxLates, kxAssoc, kxSeen>>
     \/ /\ kxLates < MaxLate /\ kxLates' = kxLates + 1
        /\ KxEnds(c, "error") /\ UNCHANGED kxFile
  /\ UNCHANGED <<kxServer, kxBroken, kxMeddled, kxCalls, kxGrants, kxBlind>>
  /\ Drops(c, kxFrames[c])

SaveEnds(c) ==
  /\ kxAt[c] = "saving"
  /\ \/ /\ kxFile' = kxAssoc[c] /\ Sends(c, KxRequest(c, "get", kxAssoc[c], 0))
        /\ UNCHANGED <<kxLates, kxAssoc>>
     \/ /\ kxLates < MaxLate /\ kxLates' = kxLates + 1
        /\ KxEnds(c, "error") /\ UNCHANGED kxFile
  /\ UNCHANGED <<kxServer, kxBroken, kxMeddled, kxCalls, kxGrants, kxBlind>>
  /\ Drops(c, kxFrames[c])

KxKilled(c) ==
  /\ kxAt[c] # "idle"
  /\ kxLates < MaxLate /\ kxLates' = kxLates + 1
  /\ KxEnds(c, "none") /\ Keeps
  /\ kxBroken' = [kxBroken EXCEPT ![c] = FALSE]
  /\ UNCHANGED <<kxServer, kxMeddled, kxCalls>>
  /\ Drops(c, <<>>)
-----------------------------------------------------------------------------
(* KeePassXC.                                                               *)

FreeUuid == CHOOSE u \in Uuids : \A e \in kxEntries : e.uuid # u
NewEntry(r) == [uuid |-> FreeUuid, login |-> r.login, secret |-> r.secret]
Holds(uuid) == \E e \in kxEntries : e.uuid = uuid
Updated(r) == {IF e.uuid = r.uuid THEN [e EXCEPT !.secret = r.secret] ELSE e : e \in kxEntries}

Frame(action, code, entries) == [action |-> action, code |-> code, entries |-> entries]

(* What it answers a request with.                                          *)
Code(r) ==
  CASE r.action = "keys" -> "ok"
    [] r.action # "keys" /\ ~kxOpen -> "locked"
    [] r.action # "keys" /\ kxOpen /\ r.grant \notin kxKnown -> "refused"
    [] r.action = "get" /\ kxOpen /\ r.grant \in kxKnown /\ kxEntries = {} -> "no_logins"
    [] OTHER -> "ok"

(* And what it does: a dialog for an associate, an entry for a set-login.   *)
Raises(r) == r.action = "associate" /\ kxOpen
SetsLogin(r) == r.action = "set" /\ Code(r) = "ok"
Served(r) ==
  /\ kxDialogs' = IF Raises(r) THEN kxDialogs \cup {r.grant} ELSE kxDialogs
  /\ SetsLogin(r) /\ ~Holds(r.uuid) => Cardinality(kxEntries) < MaxEntries
  /\ kxEntries' = IF ~SetsLogin(r) THEN kxEntries
                  ELSE IF Holds(r.uuid) THEN Updated(r) ELSE kxEntries \cup {NewEntry(r)}
  /\ kxSeen' = [c \in Clients |-> IF kxAt[c] = "idle" THEN {}
                                  ELSE kxSeen[c] \cup SecretsOf(kxEntries', kxJob[c].login)]

(* A request of a connection that is still open is answered, an associate   *)
(* when the user has answered its dialog.                                   *)
Answers(c) ==
  /\ kxAsked[c] # <<>>
  /\ UNCHANGED kxClient /\ kxAsked' = [kxAsked EXCEPT ![c] = Tail(@)]
  /\ LET r == Head(kxAsked[c])
     IN /\ Served(r)
        /\ IF Raises(r) THEN UNCHANGED kxFrames
           ELSE Drops(c, Append(kxFrames[c], Frame(r.action, Code(r), IF r.action = "get" THEN kxEntries ELSE {})))
  /\ UNCHANGED <<kxOpen, kxKnown, kxLeft, kxFile, kxBounds, kxBlind>>

(* KeePassXC refuses for a reason of its own.                               *)
Declines(c) ==
  /\ kxAsked[c] # <<>> /\ kxLates < MaxLate /\ kxLates' = kxLates + 1
  /\ UNCHANGED kxClient /\ kxAsked' = [kxAsked EXCEPT ![c] = Tail(@)]
  /\ Drops(c, Append(kxFrames[c], Frame(Head(kxAsked[c]).action, "failed", {})))
  /\ UNCHANGED <<kxServer, kxLeft, kxFile, kxMeddled, kxCalls, kxGrants, kxSeen, kxBlind>>

(* One of a connection that was closed is acted on, or lost.                *)
AnswersNobody(r) ==
  /\ r \in kxLeft /\ kxLeft' = kxLeft \ {r}
  /\ Served(r) \/ UNCHANGED <<kxEntries, kxDialogs, kxSeen>>
  /\ kxBlind' = IF r.action = "set" THEN kxBlind \cup {r.login} ELSE kxBlind
  /\ UNCHANGED <<kxOpen, kxKnown, kxFile, kxClient, kxAsked, kxFrames, kxBounds>>

(* The user answers the dialog, whether or not somebody still waits for it. *)
Tells(g, code) ==
  kxFrames' = [c \in Clients |-> IF kxAt[c] = "associate" /\ kxAssoc[c] = g /\ ~kxBroken[c]
                                 THEN Append(kxFrames[c], Frame("associate", code, {})) ELSE kxFrames[c]]
AnswersDialog(g) ==
  /\ g \in kxDialogs /\ kxDialogs' = kxDialogs \ {g}
  /\ \/ kxKnown' = kxKnown \cup {g} /\ Tells(g, "ok")
     \/ UNCHANGED kxKnown /\ Tells(g, "refused")
  /\ UNCHANGED <<kxOpen, kxEntries, kxLeft, kxFile, kxClient, kxAsked, kxBounds, kxSeen, kxBlind>>

Meddles == kxMeddled < MaxMeddling /\ kxMeddled' = kxMeddled + 1

(* The database is locked or opened, which every connection is told.        *)
LocksOrOpens ==
  /\ Meddles /\ kxOpen' = ~kxOpen
  /\ kxFrames' = [c \in Clients |-> IF kxAt[c] = "idle" \/ kxBroken[c] THEN kxFrames[c]
                                    ELSE Append(kxFrames[c], Frame("announcement", "ok", {}))]
  /\ UNCHANGED <<kxEntries, kxKnown, kxDialogs, kxLeft, kxFile, kxClient, kxAsked, kxCalls, kxLates, kxGrants,
                 kxSeen, kxBlind>>

Revokes ==
  /\ Meddles /\ kxKnown # {} /\ kxKnown' = {}
  /\ UNCHANGED <<kxOpen, kxEntries, kxDialogs, kxLeft, kxFile, kxClient, kxAsked, kxFrames, kxCalls, kxLates, kxGrants,
                 kxSeen, kxBlind>>

KeePassXCNext ==
  \/ \E c \in Clients :
       \/ \E login \in Logins : Connects(c, "lookup", login, NoPassphrase)
       \/ \E login \in Logins, secret \in Passphrases : Connects(c, "store", login, secret)
       \/ NotRunning(c) \/ Reads(c) \/ TimesOut(c) \/ FailsAtOnce(c)
       \/ SaveBegins(c) \/ SaveEnds(c) \/ KxKilled(c) \/ Answers(c) \/ Declines(c)
  \/ \E r \in kxLeft : AnswersNobody(r)
  \/ \E g \in kxDialogs : AnswersDialog(g)
  \/ LocksOrOpens \/ Revokes

KeePassXCSpec == KeePassXCInit /\ [][KeePassXCNext]_kxVars
-----------------------------------------------------------------------------
KxRequests ==
  [action: Asking, grant: Grants \cup {NoGrant}, login: Logins \cup {"none"},
   secret: Passphrases \cup {NoPassphrase}, uuid: Uuids \cup {0}]
KxEntries == [uuid: Uuids, login: Logins, secret: Passphrases]

(* The types of the variables.                                              *)
KeePassXCTypeOK ==
  /\ kxOpen \in BOOLEAN /\ kxEntries \subseteq KxEntries
  /\ kxKnown \subseteq Grants /\ kxDialogs \subseteq Grants
  /\ kxLeft \subseteq KxRequests /\ kxFile \in Grants \cup {NoGrant, KxTorn}
  /\ kxJob \in [Clients -> [op: {"none", "lookup", "store"}, login: Logins \cup {"none"},
                              secret: Passphrases \cup {NoPassphrase}]]
  /\ kxAt \in [Clients -> Asking \cup {"idle", "save", "saving"}]
  /\ kxAsked \in [Clients -> Seq(KxRequests)]
  /\ kxFrames \in [Clients -> Seq([action: Asking \cup {"announcement"}, entries: SUBSET KxEntries,
                                    code: {"ok", "locked", "refused", "no_logins", "failed"}])]
  /\ kxBroken \in [Clients -> BOOLEAN]
  /\ kxAssoc \in [Clients -> Grants \cup {NoGrant}]
  /\ kxOutcome \in [Clients -> {"none", "ok", "error"} \cup Passphrases \cup {NoPassphrase}]
  /\ kxCalls \in 0..MaxCalls /\ kxLates \in 0..MaxLate /\ kxMeddled \in 0..MaxMeddling /\ kxGrants \in 0..MaxGrants
  /\ kxSeen \in [Clients -> SUBSET (Passphrases \cup {NoPassphrase})] /\ kxBlind \subseteq Logins

(* Native.Lookup, and the matching of frames to requests: a lookup answers  *)
(* with a passphrase that its own key had while it was asked for, and says  *)
(* there is none only where there was none; whatever else came down the     *)
(* connection, and whatever other key shares the URL.                       *)
LookupTellsTheTruth ==
  [][\A c \in Clients :
       kxAt[c] = "get" /\ kxAt'[c] = "idle" /\ kxOutcome'[c] \in Passphrases \cup {NoPassphrase}
         => kxOutcome'[c] \in kxSeen[c]]_kxVars

(* native.go on Store: a passphrase saved again leaves no second copy of it *)
(* behind.  Excused are keys that were saved without seeing what is there   *)
(* (the lookup's failure is not looked at), by two at once, or by a request *)
(* that nobody waited for any more.                                         *)
OneEntryEach ==
  \A login \in Logins \ kxBlind : Cardinality({e \in kxEntries : e.login = login}) <= 1

(* native.go on association, client.go on TestAssociate: nobody is asked to *)
(* approve while KeePassXC honours the association that is on file, be its  *)
(* database locked or not, but where an exchange failed.                    *)
AskedOnlyWithout ==
  [][\A c \in Clients :
       kxAt[c] # "associate" /\ kxAt'[c] = "associate"
         => kxLates' > 0 \/ kxFile = NoGrant \/ kxAssoc[c] \notin kxKnown]_kxVars
=============================================================================
