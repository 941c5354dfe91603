--------------------------- MODULE KeePassXCProofs --------------------------
(***************************************************************************)
(* Theorems about the conversation with KeePassXC, for any number of       *)
(* clients, keys, passphrases and entries, and whatever comes too late, is *)
(* refused or is meddled with: no lookup answers with what its key never   *)
(* had, nothing is saved twice by one who could see it, and nobody is      *)
(* asked to approve while KeePassXC honours what is on file.               *)
(***************************************************************************)
EXTENDS MCKeyExpiry, KeyExpiryProofs, SetupProofs

LEMMA KxBounds ==
    /\ MaxEntries \in Nat /\ MaxCalls \in Nat /\ MaxGrants \in Nat /\ MaxLate \in Nat /\ MaxMeddling \in Nat
    /\ NoPassphrase \notin Passphrases
    /\ \A x \in Passphrases \cup {NoPassphrase} : x \notin {"none", "ok", "error"}
BY KeePassXCAssumption

-----------------------------------------------------------------------------
(* What is in a sequence of requests or frames.                            *)
Among(s) == {s[i] : i \in 1..Len(s)}

LEMMA AmongEmpty == Among(<<>>) = {}
BY DEF Among

LEMMA AmongOne == ASSUME NEW e PROVE Among(<<e>>) = {e}
BY DEF Among

LEMMA AmongAppend ==
    ASSUME NEW S, NEW s \in Seq(S), NEW e \in S
    PROVE  /\ Append(s, e) \in Seq(S)
           /\ Among(Append(s, e)) = Among(s) \cup {e}
           /\ Len(Append(s, e)) = Len(s) + 1 /\ Append(s, e)[Len(s) + 1] = e
           /\ \A i \in 1..Len(s) : Append(s, e)[i] = s[i]
<1>1. /\ Append(s, e) \in Seq(S) /\ Len(Append(s, e)) = Len(s) + 1 /\ Append(s, e)[Len(s) + 1] = e
      /\ \A i \in 1..Len(s) : Append(s, e)[i] = s[i] /\ Len(s) \in Nat
  OBVIOUS
<1>2. Among(Append(s, e)) \subseteq Among(s) \cup {e}
  BY <1>1 DEF Among
<1>3. Among(s) \subseteq Among(Append(s, e)) /\ e \in Among(Append(s, e))
  BY <1>1 DEF Among
<1> QED BY <1>1, <1>2, <1>3

LEMMA AmongTail ==
    ASSUME NEW S, NEW s \in Seq(S), s # <<>>
    PROVE  /\ Tail(s) \in Seq(S) /\ Head(s) \in S /\ Head(s) \in Among(s)
           /\ Among(Tail(s)) \subseteq Among(s)
           /\ Len(s) \in Nat /\ Len(s) > 0 /\ Head(s) = s[1] /\ Len(Tail(s)) = Len(s) - 1
           /\ \A i \in 1..Len(Tail(s)) : Tail(s)[i] = s[i + 1]
<1>1. /\ Tail(s) \in Seq(S) /\ Head(s) \in S /\ Len(s) \in Nat /\ Len(s) > 0 /\ Head(s) = s[1]
      /\ Len(Tail(s)) = Len(s) - 1 /\ \A i \in 1..Len(Tail(s)) : Tail(s)[i] = s[i + 1]
  OBVIOUS
<1> QED BY <1>1 DEF Among

LEMMA AmongTyped == ASSUME NEW S, NEW s \in Seq(S) PROVE Among(s) \subseteq S
BY DEF Among

-----------------------------------------------------------------------------
(* The types, in the parts that steps disturb.                             *)
KxJobs == [op: {"none", "lookup", "store"}, login: Logins \cup {"none"}, secret: Passphrases \cup {NoPassphrase}]
KxFrameSet ==
  [action: Asking \cup {"announcement"}, entries: SUBSET KxEntries,
   code: {"ok", "locked", "refused", "no_logins", "failed"}]
KxSteps == Asking \cup {"idle", "save", "saving"}
KxOutcomes == {"none", "ok", "error"} \cup Passphrases \cup {NoPassphrase}

ClientTypes ==
  /\ kxJob \in [Clients -> KxJobs] /\ kxAt \in [Clients -> KxSteps]
  /\ kxAsked \in [Clients -> Seq(KxRequests)]
  /\ kxAssoc \in [Clients -> Grants \cup {NoGrant}] /\ kxOutcome \in [Clients -> KxOutcomes]
  /\ kxLeft \subseteq KxRequests /\ kxFile \in Grants \cup {NoGrant, KxTorn} /\ kxGrants \in 0..MaxGrants
  /\ kxSeen \in [Clients -> SUBSET (Passphrases \cup {NoPassphrase})] /\ kxBlind \subseteq Logins
WireTypes ==
  /\ kxFrames \in [Clients -> Seq(KxFrameSet)] /\ kxBroken \in [Clients -> BOOLEAN]
ServerTypes ==
  /\ kxOpen \in BOOLEAN /\ kxEntries \subseteq KxEntries
  /\ kxKnown \subseteq Grants /\ kxDialogs \subseteq Grants
KxCounts == kxCalls \in 0..MaxCalls /\ kxLates \in 0..MaxLate /\ kxMeddled \in 0..MaxMeddling

LEMMA KxTypesAre == KeePassXCTypeOK <=> ClientTypes /\ WireTypes /\ ServerTypes /\ KxCounts
BY Zenon DEF KeePassXCTypeOK, ClientTypes, WireTypes, ServerTypes, KxCounts, KxJobs, KxFrameSet, KxSteps, KxOutcomes

-----------------------------------------------------------------------------
(* A client, its requests and its answers fit together.                    *)
JobFits(c) ==
  /\ kxAt[c] = "idle" => kxJob[c] = KxIdle /\ kxAsked[c] = <<>> /\ kxFrames[c] = <<>>
  /\ kxAt[c] # "idle" => kxJob[c].op \in {"lookup", "store"} /\ kxJob[c].login \in Logins
  /\ Storing(c) => kxJob[c].secret \in Passphrases
  /\ kxAt[c] \in {"associate", "save", "saving", "set"} => Storing(c)
  /\ kxAt[c] \in {"test", "associate", "save", "saving"} => kxAssoc[c] \in Grants
  /\ kxBroken[c] => kxFrames[c] = <<>> /\ kxLates > 0

(* What a connection has been asked by the time of a step.                 *)
Said(step) ==
  CASE step = "idle" -> {}
    [] step = "keys" -> {"keys"}
    [] step = "test" -> {"keys", "test"}
    [] step \in {"associate", "save", "saving"} -> {"keys", "test", "associate"}
    [] step = "get" -> {"keys", "test", "associate", "get"}
    [] OTHER -> Asking

AskedFits(c) ==
  /\ \A r \in Among(kxAsked[c]) :
       /\ r.action \in Said(kxAt[c])
       /\ r.action = "set" => r.login = kxJob[c].login /\ r.secret \in Passphrases
       /\ r.action = "test" /\ kxAt[c] = "test" => r.grant = kxAssoc[c]
       /\ r.action = "associate" => kxAt[c] = "associate" /\ r.grant = kxAssoc[c]
  /\ \A i \in 1..Len(kxAsked[c]) : kxAsked[c][i].action \in {"associate", "set"} => i = Len(kxAsked[c])

LeftFits ==
  \A r \in kxLeft :
    /\ r.action = "set" => r.login \in Logins /\ r.secret \in Passphrases
    /\ r.action = "associate" => r.grant \in Grants

(* What a client was told of the entries: its key had those passphrases    *)
(* since it asked, and, where it alone is saving, those are the entries.   *)
Mine(entries, login) == {e \in entries : e.login = login}
SavesAlone(c) == Storing(c) /\ kxJob[c].login \notin kxBlind
KnownOf(c, entries) ==
  /\ SecretsOf(entries, kxJob[c].login) \subseteq kxSeen[c]
  /\ SavesAlone(c) /\ kxAt[c] = "get" =>
       /\ \A e \in entries : Holds(e.uuid)
       /\ Mine(entries, kxJob[c].login) = {} => Mine(kxEntries, kxJob[c].login) = {}

(* An association is pending while the user may still be asked for it.     *)
Pending(g) ==
  \/ g \in kxDialogs
  \/ \E r \in kxLeft : r.action = "associate" /\ r.grant = g
  \/ \E c \in Clients : \E r \in Among(kxAsked[c]) : r.action = "associate" /\ r.grant = g

FramesFit(c) ==
  \A f \in Among(kxFrames[c]) :
    /\ f.action \in Said(kxAt[c]) \cup {"announcement"}
    /\ f.code = "failed" => kxLates > 0
    /\ f.code = "no_logins" => f.action = "get" /\ KnownOf(c, {})
    /\ f.action = "get" /\ f.code = "ok" => KnownOf(c, f.entries)
    /\ f.action = "test" /\ f.code = "refused" /\ kxAt[c] = "test" => kxAssoc[c] \notin kxKnown
    /\ f.action = "associate" /\ kxAt[c] = "associate" =>
         /\ f.code = "ok" => ~Pending(kxAssoc[c])
         /\ \A r \in Among(kxAsked[c]) : r.action # "associate"

(* The one that saves a key knows what is there, or there is nothing.      *)
SavesOver(c) ==
  SavesAlone(c) => \A r \in Among(kxAsked[c]) :
    r.action = "set" => Holds(r.uuid) \/ Mine(kxEntries, kxJob[c].login) = {}
OneSaves ==
  \A c, d \in Clients : SavesAlone(c) /\ Storing(d) /\ kxJob[c].login = kxJob[d].login => c = d
NoCopies == \A e, f \in kxEntries : e.login = f.login /\ e.login \notin kxBlind => e = f

(* No association is asked for twice, and one that was answered is not     *)
(* asked for again.                                                        *)
Issued ==
  /\ \A g \in Grants : Pending(g) \/ kxFile = g => g <= kxGrants
  /\ \A c \in Clients : kxAssoc[c] <= kxGrants
AskedOnce ==
  /\ \A r \in kxLeft : r.action = "associate" =>
       /\ r.grant \notin kxDialogs
       /\ \A q \in kxLeft : q.action = "associate" /\ q.grant = r.grant => q = r
       /\ \A c \in Clients : \A q \in Among(kxAsked[c]) : q.action = "associate" => q.grant # r.grant
  /\ \A c \in Clients : \A r \in Among(kxAsked[c]) : r.action = "associate" => r.grant \notin kxDialogs
  /\ \A c, d \in Clients : kxAt[c] = "associate" /\ kxAt[d] = "associate" /\ kxAssoc[c] = kxAssoc[d] => c = d
Granted ==
  /\ kxFile \in Grants => ~Pending(kxFile)
  /\ \A c \in Clients : kxAt[c] \in {"test", "save", "saving"} => ~Pending(kxAssoc[c])

ClientFits(c) == JobFits(c) /\ AskedFits(c) /\ FramesFit(c) /\ SavesOver(c)
KxSound ==
  /\ KeePassXCTypeOK /\ IsFiniteSet(kxEntries)
  /\ \A c \in Clients : ClientFits(c)
  /\ LeftFits /\ OneSaves /\ NoCopies
  /\ Issued /\ AskedOnce /\ Granted

-----------------------------------------------------------------------------
(* What the step of a client comes to, whatever led to it: it ends, sends  *)
(* its next request, or goes on to keep the association.                   *)
OthersRest(c) ==
  \A d \in Clients \ {c} :
    /\ kxJob'[d] = kxJob[d] /\ kxAt'[d] = kxAt[d] /\ kxAsked'[d] = kxAsked[d] /\ kxAssoc'[d] = kxAssoc[d]
    /\ kxOutcome'[d] = kxOutcome[d] /\ kxSeen'[d] = kxSeen[d]

ComesToEnd(c) ==
  /\ kxAt'[c] = "idle" /\ kxJob'[c] = KxIdle /\ kxAsked'[c] = <<>> /\ kxAssoc'[c] = NoGrant /\ kxSeen'[c] = {}
  /\ kxLeft' = kxLeft \cup Among(kxAsked[c])
  /\ UNCHANGED <<kxFile, kxGrants, kxBlind>>
  /\ kxOutcome'[c] \in {"none", "ok", "error"} \cup kxSeen[c]

AsksWith(c, r) ==
  /\ kxAsked'[c] = Append(kxAsked[c], r) /\ kxAt'[c] = r.action /\ kxJob'[c] = kxJob[c] /\ kxSeen'[c] = kxSeen[c]
  /\ r.login = kxJob[c].login /\ r.secret = kxJob[c].secret
  /\ kxLeft' = kxLeft /\ kxBlind \subseteq kxBlind'
Tests(c, r) ==
  /\ r.action = "test" /\ kxAt[c] = "keys" /\ kxFile \in Grants
  /\ r.grant = kxFile /\ kxAssoc'[c] = kxFile /\ UNCHANGED <<kxFile, kxGrants>>
AsksLeave(c, r) ==
  /\ r.action = "associate" /\ Storing(c)
  /\ \/ kxAt[c] = "keys" /\ kxFile = NoGrant
     \/ kxAt[c] = "test" /\ (kxLates' > 0 \/ kxAssoc[c] \notin kxKnown)
  /\ r.grant = kxGrants + 1 /\ kxGrants' = kxGrants + 1 /\ kxAssoc'[c] = kxGrants + 1
  /\ UNCHANGED kxFile
Gets(c, r) ==
  /\ r.action = "get" /\ kxAssoc'[c] = kxAssoc[c] /\ UNCHANGED kxGrants
  /\ \/ kxAt[c] = "test" /\ UNCHANGED kxFile
     \/ kxAt[c] = "saving" /\ kxFile' = kxAssoc[c]
Sets(c, r) ==
  /\ r.action = "set" /\ kxAt[c] = "get" /\ Storing(c) /\ kxAssoc'[c] = kxAssoc[c]
  /\ UNCHANGED <<kxFile, kxGrants>>
  /\ kxJob[c].login \notin kxBlind' => Holds(r.uuid) \/ Mine(kxEntries, kxJob[c].login) = {}
ComesToAsk(c) ==
  \E r \in KxRequests : AsksWith(c, r) /\ (Tests(c, r) \/ AsksLeave(c, r) \/ Gets(c, r) \/ Sets(c, r))

ComesToSave(c) ==
  /\ kxJob'[c] = kxJob[c] /\ kxAsked'[c] = kxAsked[c] /\ kxAssoc'[c] = kxAssoc[c] /\ kxSeen'[c] = kxSeen[c]
  /\ UNCHANGED <<kxLeft, kxGrants, kxBlind>>
  /\ \/ /\ kxAt[c] = "associate" /\ kxAt'[c] = "save" /\ UNCHANGED kxFile
        /\ ~Pending(kxAssoc[c])
     \/ kxAt[c] = "save" /\ kxAt'[c] = "saving" /\ kxFile' = KxTorn

Rests(c) == UNCHANGED <<kxJob, kxAt, kxAssoc, kxAsked, kxLeft, kxSeen, kxFile, kxGrants, kxBlind>>
Turns(c) ==
  /\ ClientTypes' /\ OthersRest(c)
  /\ ComesToEnd(c) \/ ComesToAsk(c) \/ ComesToSave(c) \/ Rests(c)

LEMMA EndIs ==
    ASSUME ClientTypes, NEW c \in Clients, KxEnds(c, "error") \/ KxEnds(c, "none") \/ KxEnds(c, "ok")
           \/ \E x \in kxSeen[c] : KxEnds(c, x),
           UNCHANGED <<kxFile, kxGrants, kxBlind>>
    PROVE  Turns(c)
<1>1. PICK x \in {"none", "ok", "error"} \cup kxSeen[c] : KxEnds(c, x)
  OBVIOUS
<1>2. x \in KxOutcomes
  BY DEF ClientTypes, KxOutcomes
<1>3. ComesToEnd(c) /\ OthersRest(c)
  BY <1>1, <1>2 DEF ComesToEnd, OthersRest, KxEnds, ClientTypes, Among
<1>4. /\ kxAt' \in [Clients -> KxSteps] /\ kxJob' \in [Clients -> KxJobs]
      /\ kxOutcome' \in [Clients -> KxOutcomes] /\ kxSeen' \in [Clients -> SUBSET (Passphrases \cup {NoPassphrase})]
  BY <1>1, <1>2 DEF KxEnds, ClientTypes, KxSteps, KxJobs, KxIdle
<1>5. kxAsked' \in [Clients -> Seq(KxRequests)] /\ kxAssoc' \in [Clients -> Grants \cup {NoGrant}]
  BY <1>1 DEF KxEnds, ClientTypes
<1>6. kxLeft' \subseteq KxRequests
  BY <1>3, AmongTyped DEF ComesToEnd, ClientTypes
<1>7. ClientTypes'
  BY <1>4, <1>5, <1>6 DEF ClientTypes
<1> QED BY <1>3, <1>7 DEF Turns

LEMMA SendIs ==
    ASSUME ClientTypes, NEW c \in Clients, NEW r \in KxRequests, Sends(c, r),
           r.login = kxJob[c].login, r.secret = kxJob[c].secret,
           kxBlind' \subseteq Logins, kxBlind \subseteq kxBlind',
           kxFile' \in Grants \cup {NoGrant, KxTorn}, kxGrants' \in 0..MaxGrants,
           NEW g \in Grants \cup {NoGrant}, kxAssoc' = [kxAssoc EXCEPT ![c] = g]
    PROVE  ClientTypes' /\ OthersRest(c) /\ AsksWith(c, r) /\ kxAssoc'[c] = g
<1>1. AsksWith(c, r) /\ OthersRest(c) /\ kxAssoc'[c] = g
  BY DEF Sends, AsksWith, OthersRest, ClientTypes
<1>2. Append(kxAsked[c], r) \in Seq(KxRequests)
  BY AmongAppend DEF ClientTypes
<1>3. kxAsked' \in [Clients -> Seq(KxRequests)]
  BY <1>2 DEF Sends, ClientTypes
<1>4. r.action \in KxSteps
  BY DEF KxRequests, KxSteps
<1>5. kxAt' \in [Clients -> KxSteps] /\ kxAssoc' \in [Clients -> Grants \cup {NoGrant}]
  BY <1>4 DEF Sends, ClientTypes
<1>6. UNCHANGED <<kxJob, kxOutcome, kxLeft, kxSeen>>
  BY DEF Sends
<1> QED BY <1>1, <1>3, <1>5, <1>6 DEF ClientTypes

LEMMA RequestIs ==
    ASSUME ClientTypes, NEW c \in Clients, NEW a \in Asking, NEW g \in Grants \cup {NoGrant}, NEW u \in Uuids \cup {0}
    PROVE  /\ KxRequest(c, a, g, u) \in KxRequests
           /\ KxRequest(c, a, g, u).action = a /\ KxRequest(c, a, g, u).grant = g /\ KxRequest(c, a, g, u).uuid = u
           /\ KxRequest(c, a, g, u).login = kxJob[c].login /\ KxRequest(c, a, g, u).secret = kxJob[c].secret
<1>1. kxJob[c] \in KxJobs
  BY DEF ClientTypes
<1> QED BY <1>1 DEF KxRequest, KxRequests, KxJobs

LEMMA NotAssociatedTurns ==
    ASSUME ClientTypes, NEW c \in Clients, JobFits(c), NotAssociated(c),
           \/ kxAt[c] = "keys" /\ kxFile = NoGrant
           \/ kxAt[c] = "test" /\ (kxLates' > 0 \/ kxAssoc[c] \notin kxKnown)
    PROVE  Turns(c)
<1>1. CASE Storing(c)
  <2> DEFINE r == KxRequest(c, "associate", kxGrants + 1, 0)
  <2>1. AsksApproval(c) /\ kxGrants + 1 \in Grants \cup {NoGrant} /\ kxGrants + 1 \in 0..MaxGrants
    BY <1>1, KxBounds DEF NotAssociated, AsksApproval, ClientTypes, Grants
  <2>2. r \in KxRequests /\ r.action = "associate" /\ r.grant = kxGrants + 1
        /\ r.login = kxJob[c].login /\ r.secret = kxJob[c].secret
    BY <2>1, RequestIs DEF Asking
  <2> HIDE DEF r
  <2>3. /\ Sends(c, r) /\ kxAssoc' = [kxAssoc EXCEPT ![c] = kxGrants + 1] /\ kxGrants' = kxGrants + 1
        /\ UNCHANGED <<kxFile, kxBlind>>
    BY <2>1 DEF AsksApproval, r
  <2>4. ClientTypes' /\ OthersRest(c) /\ AsksWith(c, r) /\ kxAssoc'[c] = kxGrants + 1
    <3>1. kxBlind' \subseteq Logins /\ kxBlind \subseteq kxBlind' /\ kxFile' \in Grants \cup {NoGrant, KxTorn}
      BY <2>3 DEF ClientTypes
    <3> QED BY <2>1, <2>2, <2>3, <3>1, SendIs
  <2>5. AsksLeave(c, r)
    BY <1>1, <2>2, <2>3, <2>4 DEF AsksLeave
  <2> QED BY <2>2, <2>4, <2>5 DEF Turns, ComesToAsk
<1>2. CASE ~Storing(c)
  BY <1>2, EndIs DEF NotAssociated, Keeps
<1> QED BY <1>1, <1>2

LEMMA LoadsTurns ==
    ASSUME ClientTypes, NEW c \in Clients, JobFits(c), LoadsAssociation(c), kxAt[c] = "keys"
    PROVE  Turns(c)
<1>0. MaxGrants \in Nat /\ KxTorn \notin Grants \cup {NoGrant} /\ NoGrant \notin Grants
  BY KxBounds DEF KxTorn, Grants, NoGrant
<1>1. CASE kxFile = NoGrant
  <2>1. NotAssociated(c)
    BY <1>0, <1>1 DEF LoadsAssociation
  <2> QED BY <1>1, <2>1, NotAssociatedTurns
<1>2. CASE kxFile = KxTorn
  <2>1. KxEnds(c, "error") /\ Keeps
    BY <1>0, <1>2 DEF LoadsAssociation
  <2> QED BY <2>1, EndIs DEF Keeps
<1>3. CASE kxFile \in Grants
  <2> DEFINE r == KxRequest(c, "test", kxFile, 0)
  <2>1. r \in KxRequests /\ r.action = "test" /\ r.grant = kxFile
        /\ r.login = kxJob[c].login /\ r.secret = kxJob[c].secret
    BY <1>3, RequestIs DEF Asking
  <2> HIDE DEF r
  <2>2. /\ Sends(c, r) /\ kxAssoc' = [kxAssoc EXCEPT ![c] = kxFile] /\ UNCHANGED <<kxFile, kxGrants, kxBlind>>
    BY <1>0, <1>3 DEF LoadsAssociation, Keeps, r
  <2>3. ClientTypes' /\ OthersRest(c) /\ AsksWith(c, r) /\ kxAssoc'[c] = kxFile
    <3>1. kxBlind' \subseteq Logins /\ kxBlind \subseteq kxBlind' /\ kxFile' \in Grants \cup {NoGrant, KxTorn}
          /\ kxGrants' \in 0..MaxGrants
      BY <2>2 DEF ClientTypes
    <3> QED BY <1>3, <2>1, <2>2, <3>1, SendIs
  <2>4. Tests(c, r)
    BY <1>3, <2>1, <2>2, <2>3 DEF Tests
  <2> QED BY <2>1, <2>3, <2>4 DEF Turns, ComesToAsk
<1> QED BY <1>1, <1>2, <1>3 DEF ClientTypes

(* The request that leaves the association as it is.                       *)
LEMMA SendKeeps ==
    ASSUME ClientTypes, NEW c \in Clients, NEW r \in KxRequests, Sends(c, r),
           r.login = kxJob[c].login, r.secret = kxJob[c].secret, UNCHANGED <<kxAssoc, kxGrants>>,
           kxBlind' \subseteq Logins, kxBlind \subseteq kxBlind', kxFile' \in Grants \cup {NoGrant, KxTorn}
    PROVE  ClientTypes' /\ OthersRest(c) /\ AsksWith(c, r)
<1>1. kxAssoc' = [kxAssoc EXCEPT ![c] = kxAssoc[c]] /\ kxAssoc[c] \in Grants \cup {NoGrant}
      /\ kxGrants' \in 0..MaxGrants
  BY DEF ClientTypes
<1> QED BY <1>1, SendIs

LEMMA AsksEntriesTurns ==
    ASSUME ClientTypes, NEW c \in Clients, Sends(c, KxRequest(c, "get", kxAssoc[c], 0)),
           UNCHANGED <<kxAssoc, kxGrants, kxBlind>>,
           \/ kxAt[c] = "test" /\ UNCHANGED kxFile
           \/ kxAt[c] = "saving" /\ kxFile' = kxAssoc[c]
    PROVE  Turns(c)
<1> DEFINE r == KxRequest(c, "get", kxAssoc[c], 0)
<1>1. r \in KxRequests /\ r.action = "get" /\ r.login = kxJob[c].login /\ r.secret = kxJob[c].secret
  <2>1. kxAssoc[c] \in Grants \cup {NoGrant}
    BY DEF ClientTypes
  <2> QED BY <2>1, RequestIs DEF Asking
<1> HIDE DEF r
<1>2. kxBlind' \subseteq Logins /\ kxBlind \subseteq kxBlind' /\ kxFile' \in Grants \cup {NoGrant, KxTorn}
  BY DEF ClientTypes
<1>3. ClientTypes' /\ OthersRest(c) /\ AsksWith(c, r)
  BY <1>1, <1>2, SendKeeps DEF r
<1>4. Gets(c, r)
  BY <1>1 DEF Gets
<1> QED BY <1>1, <1>3, <1>4 DEF Turns, ComesToAsk

LEMMA SetTurns ==
    ASSUME ClientTypes, NEW c \in Clients, NEW u \in Uuids \cup {0}, Sends(c, KxRequest(c, "set", kxAssoc[c], u)),
           UNCHANGED <<kxAssoc, kxGrants, kxFile>>, kxBlind' \subseteq Logins, kxBlind \subseteq kxBlind',
           kxAt[c] = "get", Storing(c),
           kxJob[c].login \notin kxBlind' => Holds(u) \/ Mine(kxEntries, kxJob[c].login) = {}
    PROVE  Turns(c)
<1> DEFINE r == KxRequest(c, "set", kxAssoc[c], u)
<1>1. r \in KxRequests /\ r.action = "set" /\ r.login = kxJob[c].login /\ r.secret = kxJob[c].secret /\ r.uuid = u
  <2>1. kxAssoc[c] \in Grants \cup {NoGrant}
    BY DEF ClientTypes
  <2> QED BY <2>1, RequestIs DEF Asking
<1> HIDE DEF r
<1>2. kxFile' \in Grants \cup {NoGrant, KxTorn}
  BY DEF ClientTypes
<1>3. ClientTypes' /\ OthersRest(c) /\ AsksWith(c, r)
  BY <1>1, <1>2, SendKeeps DEF r
<1>4. Sets(c, r)
  BY <1>1 DEF Sets
<1> QED BY <1>1, <1>3, <1>4 DEF Turns, ComesToAsk

LEMMA FoundTurns ==
    ASSUME ClientTypes, NEW c \in Clients, JobFits(c), NEW entries \in SUBSET KxEntries, kxAt[c] = "get",
           KxFound(c, entries), KnownOf(c, entries)
    PROVE  Turns(c)
<1>1. Picks(c, entries) = Mine(entries, kxJob[c].login)
  BY DEF Picks, Mine
<1>2. CASE Storing(c)
  <2>1. PICK u \in IF Picks(c, entries) = {} THEN {0} ELSE {e.uuid : e \in Picks(c, entries)} :
          Sends(c, KxRequest(c, "set", kxAssoc[c], u)) /\ Keeps /\ UNCHANGED kxAssoc
    BY <1>2 DEF KxFound
  <2>2. u \in Uuids \cup {0} /\ (Picks(c, entries) # {} => \E e \in entries : e.uuid = u)
    BY <1>1, <2>1 DEF KxEntries, Mine
  <2>3. kxJob[c].login \notin kxBlind => Holds(u) \/ Mine(kxEntries, kxJob[c].login) = {}
    BY <1>1, <1>2, <2>2 DEF KnownOf, SavesAlone, Holds
  <2>4. UNCHANGED <<kxAssoc, kxGrants, kxFile, kxBlind>> /\ kxBlind \subseteq Logins
    BY <2>1 DEF Keeps, ClientTypes
  <2> QED BY <1>2, <2>1, <2>2, <2>3, <2>4, SetTurns
<1>3. CASE ~Storing(c)
  <2>1. PICK x \in IF Picks(c, entries) = {} THEN {NoPassphrase} ELSE {e.secret : e \in Picks(c, entries)} :
          KxEnds(c, x) /\ Keeps
    BY <1>3 DEF KxFound
  <2>2. x \in SecretsOf(entries, kxJob[c].login)
    BY <2>1 DEF SecretsOf, Picks
  <2>3. x \in kxSeen[c]
    BY <2>2 DEF KnownOf
  <2> QED BY <2>1, <2>3, EndIs DEF Keeps
<1> QED BY <1>2, <1>3

LEMMA CouldNotSeeTurns ==
    ASSUME ClientTypes, NEW c \in Clients, JobFits(c), kxAt[c] = "get", CouldNotSee(c)
    PROVE  Turns(c)
<1>1. CASE Storing(c)
  <2>1. /\ Sends(c, KxRequest(c, "set", kxAssoc[c], 0)) /\ kxBlind' = kxBlind \cup {kxJob[c].login}
        /\ UNCHANGED <<kxFile, kxAssoc, kxGrants>>
    BY <1>1 DEF CouldNotSee
  <2>2. kxBlind' \subseteq Logins /\ kxBlind \subseteq kxBlind' /\ kxJob[c].login \in kxBlind' /\ 0 \in Uuids \cup {0}
    BY <2>1 DEF ClientTypes, JobFits
  <2> QED BY <1>1, <2>1, <2>2, SetTurns
<1>2. CASE ~Storing(c)
  BY <1>2, EndIs DEF CouldNotSee, Keeps
<1> QED BY <1>1, <1>2

LEMMA FailsTurns ==
    ASSUME ClientTypes, NEW c \in Clients, JobFits(c), kxAt[c] \in Asking, NEW code, KxFails(c, code),
           kxAt[c] = "test" /\ code # "locked" => kxLates' > 0 \/ kxAssoc[c] \notin kxKnown,
           code = "no_logins" => KnownOf(c, {})
    PROVE  Turns(c)
<1>1. CASE kxAt[c] = "test" /\ code # "locked"
  BY <1>1, NotAssociatedTurns DEF KxFails
<1>2. CASE kxAt[c] = "get" /\ code = "no_logins"
  <2>1. KxFound(c, {}) /\ {} \in SUBSET KxEntries
    BY <1>2 DEF KxFails
  <2> QED BY <1>2, <2>1, FoundTurns
<1>3. CASE kxAt[c] = "get" /\ code # "no_logins"
  BY <1>3, CouldNotSeeTurns DEF KxFails
<1>4. CASE kxAt[c] \notin {"test", "get"} \/ (kxAt[c] = "test" /\ code = "locked")
  <2>1. KxEnds(c, "error") /\ Keeps
    BY <1>4 DEF KxFails
  <2> QED BY <2>1, EndIs DEF Keeps
<1> QED BY <1>1, <1>2, <1>3, <1>4

LEMMA SucceedsTurns ==
    ASSUME ClientTypes, NEW c \in Clients, JobFits(c), kxAt[c] \in Asking, NEW entries \in SUBSET KxEntries,
           Succeeds(c, entries), kxAt[c] = "get" => KnownOf(c, entries),
           kxAt[c] = "associate" => ~Pending(kxAssoc[c])
    PROVE  Turns(c)
<1>1. CASE kxAt[c] = "keys"
  BY <1>1, LoadsTurns DEF Succeeds
<1>2. CASE kxAt[c] = "test"
  BY <1>2, AsksEntriesTurns DEF Succeeds, AsksEntries, Keeps
<1>3. CASE kxAt[c] = "get"
  BY <1>3, FoundTurns DEF Succeeds
<1>4. CASE kxAt[c] = "set"
  BY <1>4, EndIs DEF Succeeds, Keeps
<1>5. CASE kxAt[c] = "associate"
  <2>1. /\ kxAt' = [kxAt EXCEPT ![c] = "save"] /\ UNCHANGED <<kxJob, kxOutcome, kxLeft, kxAsked, kxAssoc, kxSeen>>
        /\ UNCHANGED <<kxFile, kxGrants, kxBlind>>
    BY <1>5 DEF Succeeds, Keeps
  <2>2. kxAt' \in [Clients -> KxSteps] /\ kxAt'[c] = "save" /\ \A d \in Clients \ {c} : kxAt'[d] = kxAt[d]
    BY <2>1 DEF ClientTypes, KxSteps
  <2>3. ClientTypes' /\ OthersRest(c)
    BY <2>1, <2>2 DEF ClientTypes, OthersRest
  <2>4. ComesToSave(c)
    BY <1>5, <2>1, <2>2 DEF ComesToSave
  <2> QED BY <2>3, <2>4 DEF Turns
<1> QED BY <1>1, <1>2, <1>3, <1>4, <1>5 DEF Asking

(* The whole step: what was read is gone, and one that gave up reading     *)
(* reads no more.                                                          *)
Turned(c) ==
  /\ Turns(c) /\ kxAt[c] # "idle"
  /\ UNCHANGED <<kxOpen, kxEntries, kxKnown, kxDialogs>>
  /\ WireTypes' /\ KxCounts' /\ kxLates <= kxLates'
  /\ \A d \in Clients \ {c} : kxFrames'[d] = kxFrames[d] /\ kxBroken'[d] = kxBroken[d]
  /\ Among(kxFrames'[c]) \subseteq Among(kxFrames[c])
  /\ kxAt'[c] = "idle" \/ kxBroken'[c] => kxFrames'[c] = <<>>
  /\ kxBroken'[c] => kxLates' > 0

LEMMA DropsIs ==
    ASSUME WireTypes, NEW c \in Clients, NEW frames \in Seq(KxFrameSet), Among(frames) \subseteq Among(kxFrames[c]),
           Drops(c, frames)
    PROVE  /\ kxFrames' \in [Clients -> Seq(KxFrameSet)]
           /\ \A d \in Clients \ {c} : kxFrames'[d] = kxFrames[d]
           /\ Among(kxFrames'[c]) \subseteq Among(kxFrames[c])
           /\ kxAt'[c] = "idle" \/ kxBroken'[c] => kxFrames'[c] = <<>>
<1> DEFINE left == IF kxAt'[c] = "idle" \/ kxBroken'[c] THEN <<>> ELSE frames
<1>1. left \in Seq(KxFrameSet) /\ (kxAt'[c] = "idle" \/ kxBroken'[c] => left = <<>>)
  OBVIOUS
<1>2. Among(left) \subseteq Among(kxFrames[c])
  BY AmongEmpty
<1>3. kxFrames' = [kxFrames EXCEPT ![c] = left]
  BY DEF Drops
<1> HIDE DEF left
<1>4. kxFrames' \in [Clients -> Seq(KxFrameSet)] /\ kxFrames'[c] = left
      /\ \A d \in Clients \ {c} : kxFrames'[d] = kxFrames[d]
  BY <1>1, <1>3 DEF WireTypes
<1> QED BY <1>1, <1>2, <1>4

(* Late by one more, or no later than before.                              *)
LEMMA LatesCount ==
    ASSUME KxCounts, UNCHANGED <<kxCalls, kxMeddled>>,
           UNCHANGED kxLates \/ (kxLates < MaxLate /\ kxLates' = kxLates + 1)
    PROVE  KxCounts' /\ kxLates <= kxLates' /\ (kxLates' # kxLates => kxLates' > 0)
BY KxBounds DEF KxCounts

LEMMA ReadsTurns ==
    ASSUME KeePassXCTypeOK, NEW c \in Clients, JobFits(c), FramesFit(c), Reads(c)
    PROVE  Turned(c)
<1>t. ClientTypes /\ WireTypes /\ KxCounts
  BY KxTypesAre
<1>0. /\ kxAt[c] \in Asking /\ ~kxBroken[c] /\ kxFrames[c] # <<>> /\ UNCHANGED <<kxBroken, kxLates, kxMeddled, kxCalls>>
      /\ UNCHANGED <<kxOpen, kxEntries, kxKnown, kxDialogs>> /\ Drops(c, Tail(kxFrames[c]))
  BY DEF Reads, kxServer
<1>1. kxFrames[c] \in Seq(KxFrameSet)
  BY <1>t DEF WireTypes
<1> DEFINE frame == Head(kxFrames[c])
<1>2. frame \in KxFrameSet /\ frame \in Among(kxFrames[c])
      /\ Tail(kxFrames[c]) \in Seq(KxFrameSet) /\ Among(Tail(kxFrames[c])) \subseteq Among(kxFrames[c])
  BY <1>0, <1>1, AmongTail
<1>a. \/ /\ frame.action # kxAt[c]
         /\ UNCHANGED <<kxJob, kxAt, kxAssoc, kxOutcome, kxAsked, kxLeft, kxSeen>> /\ Keeps
      \/ frame.action = kxAt[c] /\ frame.code = "ok" /\ Succeeds(c, frame.entries)
      \/ frame.action = kxAt[c] /\ frame.code # "ok" /\ KxFails(c, frame.code)
  BY DEF Reads
<1> HIDE DEF frame
<1>3. Turns(c)
  <2>1. CASE UNCHANGED <<kxJob, kxAt, kxAssoc, kxOutcome, kxAsked, kxLeft, kxSeen>> /\ Keeps
    BY <1>t, <2>1 DEF Turns, Rests, OthersRest, ClientTypes, Keeps
  <2>2. CASE frame.action = kxAt[c] /\ frame.code = "ok" /\ Succeeds(c, frame.entries)
    <3>1. frame.entries \in SUBSET KxEntries
      BY <1>2 DEF KxFrameSet
    <3>2. /\ kxAt[c] = "get" => KnownOf(c, frame.entries)
          /\ kxAt[c] = "associate" => ~Pending(kxAssoc[c])
      BY <1>2, <2>2 DEF FramesFit
    <3> QED BY <1>t, <1>0, <2>2, <3>1, <3>2, SucceedsTurns
  <2>3. CASE frame.action = kxAt[c] /\ frame.code # "ok" /\ KxFails(c, frame.code)
    <3>1. /\ kxAt[c] = "test" /\ frame.code = "refused" => kxAssoc[c] \notin kxKnown
          /\ frame.code = "failed" => kxLates > 0
          /\ frame.code = "no_logins" => frame.action = "get" /\ KnownOf(c, {})
      BY <1>2, <2>3 DEF FramesFit
    <3>2. frame.code \in {"ok", "locked", "refused", "no_logins", "failed"}
      BY <1>2 DEF KxFrameSet
    <3>3. kxAt[c] = "test" /\ frame.code # "locked" => kxLates' > 0 \/ kxAssoc[c] \notin kxKnown
      BY <1>0, <2>3, <3>1, <3>2
    <3> QED BY <1>t, <1>0, <2>3, <3>1, <3>3, FailsTurns
  <2> QED BY <1>a, <2>1, <2>2, <2>3
<1>4. KxCounts' /\ kxLates <= kxLates'
  BY <1>t, <1>0, LatesCount
<1>5. WireTypes' /\ (\A d \in Clients \ {c} : kxFrames'[d] = kxFrames[d]) /\ Among(kxFrames'[c]) \subseteq Among(kxFrames[c])
      /\ (kxAt'[c] = "idle" \/ kxBroken'[c] => kxFrames'[c] = <<>>)
  BY <1>t, <1>0, <1>2, DropsIs DEF WireTypes
<1>6. kxAt[c] # "idle"
  BY <1>0 DEF Asking
<1> QED BY <1>0, <1>3, <1>4, <1>5, <1>6 DEF Turned

LEMMA GivesUpTurns ==
    ASSUME KeePassXCTypeOK, NEW c \in Clients, JobFits(c), TimesOut(c) \/ FailsAtOnce(c)
    PROVE  Turned(c)
<1>t. ClientTypes /\ WireTypes /\ KxCounts
  BY KxTypesAre
<1>0. /\ kxAt[c] \in Asking /\ KxFails(c, "timeout") /\ kxBroken' = [kxBroken EXCEPT ![c] = kxAt'[c] # "idle"]
      /\ UNCHANGED <<kxMeddled, kxCalls>> /\ UNCHANGED <<kxOpen, kxEntries, kxKnown, kxDialogs>>
  BY DEF TimesOut, FailsAtOnce, kxServer
<1>1. /\ UNCHANGED kxLates \/ (kxLates < MaxLate /\ kxLates' = kxLates + 1)
      /\ kxLates' > 0
      /\ Drops(c, <<>>) \/ (kxFrames' = kxFrames /\ kxFrames[c] = <<>>)
  BY <1>t DEF TimesOut, FailsAtOnce, JobFits, KxCounts
<1>2. KxCounts' /\ kxLates <= kxLates'
  BY <1>t, <1>0, <1>1, LatesCount
<1>3. Turns(c)
  BY <1>t, <1>0, <1>1, FailsTurns
<1>4. kxBroken' \in [Clients -> BOOLEAN] /\ \A d \in Clients \ {c} : kxBroken'[d] = kxBroken[d]
  BY <1>t, <1>0, Zenon DEF WireTypes
<1>5. /\ kxFrames' \in [Clients -> Seq(KxFrameSet)]
      /\ \A d \in Clients \ {c} : kxFrames'[d] = kxFrames[d]
      /\ Among(kxFrames'[c]) \subseteq Among(kxFrames[c])
      /\ kxAt'[c] = "idle" \/ kxBroken'[c] => kxFrames'[c] = <<>>
  <2>1. <<>> \in Seq(KxFrameSet) /\ Among(<<>>) \subseteq Among(kxFrames[c])
    BY AmongEmpty
  <2>2. CASE Drops(c, <<>>)
    BY <1>t, <2>1, <2>2, DropsIs
  <2>3. CASE kxFrames' = kxFrames /\ kxFrames[c] = <<>>
    BY <1>t, <2>3 DEF WireTypes
  <2> QED BY <1>1, <2>2, <2>3
<1>6. kxAt[c] # "idle"
  BY <1>0 DEF Asking
<1> QED BY <1>0, <1>1, <1>2, <1>3, <1>4, <1>5, <1>6 DEF Turned, WireTypes

LEMMA SavesTurn ==
    ASSUME KeePassXCTypeOK, NEW c \in Clients, JobFits(c), SaveBegins(c) \/ SaveEnds(c)
    PROVE  Turned(c)
<1>t. ClientTypes /\ WireTypes /\ KxCounts
  BY KxTypesAre
<1>0. /\ kxAt[c] \in {"save", "saving"} /\ UNCHANGED <<kxBroken, kxGrants, kxBlind, kxMeddled, kxCalls>>
      /\ UNCHANGED <<kxOpen, kxEntries, kxKnown, kxDialogs>> /\ Drops(c, kxFrames[c])
  BY DEF SaveBegins, SaveEnds, kxServer
<1>1. UNCHANGED kxLates \/ (kxLates < MaxLate /\ kxLates' = kxLates + 1)
  BY DEF SaveBegins, SaveEnds
<1>2. KxCounts' /\ kxLates <= kxLates'
  BY <1>t, <1>0, <1>1, LatesCount
<1>3. Turns(c)
  <2>1. CASE KxEnds(c, "error") /\ UNCHANGED kxFile
    BY <1>t, <1>0, <2>1, EndIs
  <2>2. CASE /\ kxAt[c] = "save" /\ kxFile' = KxTorn /\ kxAt' = [kxAt EXCEPT ![c] = "saving"]
             /\ UNCHANGED <<kxJob, kxOutcome, kxLeft, kxAsked, kxAssoc, kxSeen>>
    <3>1. kxAt' \in [Clients -> KxSteps] /\ kxAt'[c] = "saving" /\ \A d \in Clients \ {c} : kxAt'[d] = kxAt[d]
      BY <1>t, <2>2 DEF ClientTypes, KxSteps
    <3>2. ClientTypes' /\ OthersRest(c)
      BY <1>t, <1>0, <2>2, <3>1 DEF ClientTypes, OthersRest
    <3>3. ComesToSave(c)
      BY <1>0, <2>2, <3>1 DEF ComesToSave
    <3> QED BY <3>2, <3>3 DEF Turns
  <2>3. CASE /\ kxAt[c] = "saving" /\ kxFile' = kxAssoc[c] /\ Sends(c, KxRequest(c, "get", kxAssoc[c], 0))
             /\ UNCHANGED kxAssoc
    BY <1>t, <1>0, <2>3, AsksEntriesTurns
  <2> QED BY <2>1, <2>2, <2>3 DEF SaveBegins, SaveEnds
<1>5. /\ kxFrames' \in [Clients -> Seq(KxFrameSet)]
      /\ \A d \in Clients \ {c} : kxFrames'[d] = kxFrames[d]
      /\ Among(kxFrames'[c]) \subseteq Among(kxFrames[c])
      /\ kxAt'[c] = "idle" \/ kxBroken'[c] => kxFrames'[c] = <<>>
  <2>1. kxFrames[c] \in Seq(KxFrameSet)
    BY <1>t DEF WireTypes
  <2> QED BY <1>t, <1>0, <2>1, DropsIs
<1>6. kxBroken'[c] => kxLates' > 0
  BY <1>t, <1>0, <1>2 DEF JobFits, KxCounts
<1> QED BY <1>t, <1>0, <1>2, <1>3, <1>5, <1>6 DEF Turned, WireTypes

LEMMA KilledTurns ==
    ASSUME KeePassXCTypeOK, NEW c \in Clients, JobFits(c), KxKilled(c)
    PROVE  Turned(c)
<1>t. ClientTypes /\ WireTypes /\ KxCounts
  BY KxTypesAre
<1>0. /\ kxAt[c] # "idle" /\ kxBroken' = [kxBroken EXCEPT ![c] = FALSE] /\ UNCHANGED <<kxMeddled, kxCalls>>
      /\ UNCHANGED <<kxOpen, kxEntries, kxKnown, kxDialogs>> /\ Drops(c, <<>>)
      /\ kxLates < MaxLate /\ kxLates' = kxLates + 1 /\ KxEnds(c, "none") /\ UNCHANGED <<kxFile, kxGrants, kxBlind>>
  BY DEF KxKilled, kxServer, Keeps
<1>2. KxCounts' /\ kxLates <= kxLates'
  BY <1>t, <1>0, LatesCount
<1>3. Turns(c)
  BY <1>t, <1>0, EndIs
<1>4. kxBroken' \in [Clients -> BOOLEAN] /\ ~kxBroken'[c] /\ \A d \in Clients \ {c} : kxBroken'[d] = kxBroken[d]
  BY <1>t, <1>0, Zenon DEF WireTypes
<1>5. /\ kxFrames' \in [Clients -> Seq(KxFrameSet)]
      /\ \A d \in Clients \ {c} : kxFrames'[d] = kxFrames[d]
      /\ Among(kxFrames'[c]) \subseteq Among(kxFrames[c])
      /\ kxAt'[c] = "idle" \/ kxBroken'[c] => kxFrames'[c] = <<>>
  <2>1. <<>> \in Seq(KxFrameSet) /\ Among(<<>>) \subseteq Among(kxFrames[c])
    BY AmongEmpty
  <2> QED BY <1>t, <1>0, <2>1, DropsIs
<1> QED BY <1>0, <1>2, <1>3, <1>4, <1>5 DEF Turned, WireTypes

-----------------------------------------------------------------------------
(* What a turn leaves true.  First, of the client whose turn it is.        *)
LEMMA TurnKeepsJob ==
    ASSUME KxSound, NEW c \in Clients, Turned(c)
    PROVE  \A d \in Clients : JobFits(d)'
<1>t. ClientTypes /\ ClientTypes' /\ \A d \in Clients : JobFits(d)
  BY KxTypesAre DEF KxSound, ClientFits, Turned, Turns
<1>0. kxLates <= kxLates' /\ kxLates \in Nat /\ kxLates' \in Nat
  BY KxTypesAre, KxBounds DEF Turned, KxSound, KxCounts
<1>1. ASSUME NEW d \in Clients \ {c} PROVE JobFits(d)'
  <2>1. kxJob'[d] = kxJob[d] /\ kxAt'[d] = kxAt[d] /\ kxAsked'[d] = kxAsked[d] /\ kxAssoc'[d] = kxAssoc[d]
        /\ kxFrames'[d] = kxFrames[d] /\ kxBroken'[d] = kxBroken[d]
    BY DEF Turned, Turns, OthersRest
  <2> QED BY <1>t, <1>0, <2>1 DEF JobFits, Storing
<1>2. JobFits(c)'
  <2>0. /\ JobFits(c) /\ kxAt[c] # "idle" /\ (kxAt'[c] = "idle" \/ kxBroken'[c] => kxFrames'[c] = <<>>)
        /\ (kxBroken'[c] => kxLates' > 0)
    BY <1>t DEF Turned
  <2>1. CASE ComesToEnd(c)
    BY <2>0, <2>1 DEF JobFits, ComesToEnd, Storing, KxIdle
  <2>2. CASE ComesToAsk(c)
    <3>1. PICK r \in KxRequests : AsksWith(c, r) /\ (Tests(c, r) \/ AsksLeave(c, r) \/ Gets(c, r) \/ Sets(c, r))
      BY <2>2 DEF ComesToAsk
    <3>2. kxAt'[c] = r.action /\ kxAt'[c] # "idle" /\ kxJob'[c] = kxJob[c]
      BY <3>1 DEF AsksWith, KxRequests, Asking
    <3>3. kxAt'[c] \in {"associate", "set"} => Storing(c)
      BY <3>1, <3>2 DEF AsksLeave, Sets, Tests, Gets
    <3>4. kxAt'[c] \in {"test", "associate"} => kxAssoc'[c] \in Grants
      BY <1>t, <3>1, <3>2, KxBounds DEF AsksLeave, Sets, Tests, Gets, ClientTypes, Grants, NoGrant
    <3>5. kxAt'[c] \notin {"save", "saving"}
      BY <3>2 DEF KxRequests, Asking
    <3> QED BY <2>0, <3>2, <3>3, <3>4, <3>5 DEF JobFits, Storing
  <2>3. CASE ComesToSave(c)
    BY <2>0, <2>3 DEF ComesToSave, JobFits, Storing
  <2>4. CASE Rests(c)
    BY <2>0, <2>4 DEF Rests, JobFits, Storing
  <2> QED BY <2>1, <2>2, <2>3, <2>4 DEF Turned, Turns
<1> QED BY <1>1, <1>2

LEMMA TurnKeepsAsked ==
    ASSUME KxSound, NEW c \in Clients, Turned(c)
    PROVE  (\A d \in Clients : AskedFits(d)') /\ LeftFits'
<1>t. ClientTypes /\ ClientTypes' /\ JobFits(c) /\ AskedFits(c) /\ LeftFits
  BY KxTypesAre DEF KxSound, ClientFits, Turned, Turns
<1>1. ASSUME NEW d \in Clients \ {c} PROVE AskedFits(d)'
  <2>1. kxJob'[d] = kxJob[d] /\ kxAt'[d] = kxAt[d] /\ kxAsked'[d] = kxAsked[d] /\ kxAssoc'[d] = kxAssoc[d]
    BY DEF Turned, Turns, OthersRest
  <2>2. AskedFits(d)
    BY DEF KxSound, ClientFits
  <2> QED BY <2>1, <2>2 DEF AskedFits
<1>2. AskedFits(c)' /\ LeftFits'
  <2>1. CASE ComesToEnd(c)
    <3>1. AskedFits(c)'
      BY <2>1, AmongEmpty DEF ComesToEnd, AskedFits
    <3>2. ASSUME NEW r \in Among(kxAsked[c])
          PROVE  (r.action = "set" => r.login \in Logins /\ r.secret \in Passphrases)
                 /\ (r.action = "associate" => r.grant \in Grants)
      BY <1>t DEF AskedFits, JobFits, Said
    <3> QED BY <1>t, <2>1, <3>1, <3>2 DEF ComesToEnd, LeftFits
  <2>2. CASE ComesToAsk(c)
    <3>1. PICK r \in KxRequests : AsksWith(c, r) /\ (Tests(c, r) \/ AsksLeave(c, r) \/ Gets(c, r) \/ Sets(c, r))
      BY <2>2 DEF ComesToAsk
    <3>2. /\ Among(kxAsked'[c]) = Among(kxAsked[c]) \cup {r} /\ Len(kxAsked[c]) \in Nat
          /\ Len(kxAsked'[c]) = Len(kxAsked[c]) + 1
          /\ kxAsked'[c][Len(kxAsked[c]) + 1] = r
          /\ \A i \in 1..Len(kxAsked[c]) : kxAsked'[c][i] = kxAsked[c][i]
      BY <1>t, <3>1, AmongAppend DEF AsksWith, ClientTypes
    <3>3. kxAt'[c] = r.action /\ kxJob'[c] = kxJob[c] /\ r.login = kxJob[c].login /\ r.secret = kxJob[c].secret
      BY <3>1 DEF AsksWith
    <3>4. kxAt[c] \in {"keys", "test", "saving", "get"} /\ r.action \in {"test", "associate", "get", "set"}
      BY <3>1 DEF Tests, AsksLeave, Gets, Sets
    <3>5. Said(kxAt[c]) \subseteq Said(kxAt'[c]) /\ r.action \in Said(kxAt'[c])
      BY <3>1, <3>3 DEF Said, Tests, AsksLeave, Gets, Sets, Asking
    <3>6. \A q \in Among(kxAsked[c]) : q.action # "associate" /\ q.action # "set" /\ (kxAt'[c] = "test" => q.action # "test")
      BY <1>t, <3>1, <3>3, <3>4 DEF AskedFits, Said, Tests, AsksLeave, Gets, Sets
    <3>7. ASSUME NEW q \in Among(kxAsked'[c])
          PROVE  /\ q.action \in Said(kxAt'[c])
                 /\ q.action = "set" => q.login = kxJob'[c].login /\ q.secret \in Passphrases
                 /\ q.action = "test" /\ kxAt'[c] = "test" => q.grant = kxAssoc'[c]
                 /\ q.action = "associate" => kxAt'[c] = "associate" /\ q.grant = kxAssoc'[c]
      <4>1. CASE q \in Among(kxAsked[c])
        BY <1>t, <3>5, <3>6, <4>1 DEF AskedFits
      <4>2. CASE q = r
        BY <1>t, <3>1, <3>3, <3>5, <4>2 DEF JobFits, Tests, AsksLeave, Gets, Sets
      <4> QED BY <3>2, <4>1, <4>2
    <3>8. \A i \in 1..Len(kxAsked'[c]) : kxAsked'[c][i].action \in {"associate", "set"} => i = Len(kxAsked'[c])
      BY <3>2, <3>6 DEF Among
    <3>9. LeftFits'
      BY <1>t, <3>1 DEF AsksWith, LeftFits
    <3> QED BY <3>7, <3>8, <3>9 DEF AskedFits
  <2>3. CASE ComesToSave(c)
    <3>1. kxJob'[c] = kxJob[c] /\ kxAsked'[c] = kxAsked[c] /\ kxAssoc'[c] = kxAssoc[c] /\ kxLeft' = kxLeft
      BY <2>3 DEF ComesToSave
    <3>2. \A r \in Among(kxAsked[c]) : r.action # "associate"
      BY <1>t, <2>3 DEF ComesToSave, AskedFits, JobFits, Pending
    <3>3. Said(kxAt[c]) = Said(kxAt'[c]) /\ kxAt'[c] # "test"
      BY <2>3 DEF ComesToSave, Said
    <3> QED BY <1>t, <3>1, <3>2, <3>3 DEF AskedFits, LeftFits
  <2>4. CASE Rests(c)
    BY <1>t, <2>4 DEF Rests, AskedFits, LeftFits
  <2> QED BY <2>1, <2>2, <2>3, <2>4 DEF Turned, Turns
<1> QED BY <1>1, <1>2

(* An association becomes pending only as it is asked for, and is new.     *)
LEMMA TurnPends ==
    ASSUME KxSound, NEW c \in Clients, Turned(c), NEW g, Pending(g)'
    PROVE  \/ Pending(g)
           \/ g = kxGrants + 1 /\ kxGrants' = kxGrants + 1 /\ kxAt'[c] = "associate" /\ kxAssoc'[c] = g
<1>t. ClientTypes /\ ClientTypes'
  BY KxTypesAre DEF KxSound, Turned, Turns
<1>o. kxDialogs' = kxDialogs /\ \A d \in Clients \ {c} : kxAsked'[d] = kxAsked[d]
  BY DEF Turned, Turns, OthersRest
<1>1. CASE ComesToEnd(c)
  BY <1>o, <1>1, AmongEmpty DEF ComesToEnd, Pending
<1>2. CASE ComesToAsk(c)
  <2>1. PICK r \in KxRequests : AsksWith(c, r) /\ (Tests(c, r) \/ AsksLeave(c, r) \/ Gets(c, r) \/ Sets(c, r))
    BY <1>2 DEF ComesToAsk
  <2>2. Among(kxAsked'[c]) = Among(kxAsked[c]) \cup {r} /\ kxLeft' = kxLeft /\ kxAt'[c] = r.action
    BY <1>t, <2>1, AmongAppend DEF AsksWith, ClientTypes
  <2>3. r.action = "associate" => r.grant = kxGrants + 1 /\ kxGrants' = kxGrants + 1 /\ kxAssoc'[c] = r.grant
    BY <2>1 DEF Tests, AsksLeave, Gets, Sets
  <2>4. CASE r.action = "associate" /\ r.grant = g
    BY <2>2, <2>3, <2>4
  <2>5. CASE ~(r.action = "associate" /\ r.grant = g)
    BY <1>o, <2>2, <2>5 DEF Pending
  <2> QED BY <2>4, <2>5
<1>3. CASE ComesToSave(c) \/ Rests(c)
  <2>1. kxAsked'[c] = kxAsked[c] /\ kxLeft' = kxLeft
    BY <1>3 DEF ComesToSave, Rests
  <2> QED BY <1>o, <2>1 DEF Pending
<1> QED BY <1>1, <1>2, <1>3 DEF Turned, Turns

LEMMA TurnAsksOnce ==
    ASSUME KxSound, NEW c \in Clients, Turned(c)
    PROVE  Issued' /\ AskedOnce' /\ Granted'
<1>t. /\ ClientTypes /\ ClientTypes' /\ JobFits(c) /\ Issued /\ AskedOnce /\ Granted
      /\ \A d \in Clients : AskedFits(d)
  BY KxTypesAre DEF KxSound, ClientFits, Turned, Turns
<1>n. /\ kxGrants \in Nat /\ kxGrants' \in Nat /\ MaxGrants \in Nat /\ Grants = 1..MaxGrants /\ NoGrant = 0
      /\ KxTorn = MaxGrants + 1 /\ \A d \in Clients : kxAssoc[d] \in Nat
  BY <1>t, KxBounds DEF ClientTypes, Grants, NoGrant, KxTorn
<1>o. /\ kxDialogs' = kxDialogs
      /\ \A d \in Clients \ {c} : kxAsked'[d] = kxAsked[d] /\ kxAssoc'[d] = kxAssoc[d] /\ kxAt'[d] = kxAt[d]
  BY DEF Turned, Turns, OthersRest
<1>p. \A g : Pending(g)' =>
        \/ Pending(g)
        \/ g = kxGrants + 1 /\ kxGrants' = kxGrants + 1 /\ kxAt'[c] = "associate" /\ kxAssoc'[c] = g
  BY TurnPends
<1>1. /\ kxGrants' = kxGrants \/ (kxGrants' = kxGrants + 1 /\ kxAt'[c] = "associate" /\ kxAssoc'[c] = kxGrants + 1)
      /\ \/ kxFile' = kxFile
         \/ kxFile' = KxTorn
         \/ kxAt[c] = "saving" /\ kxFile' = kxAssoc[c]
      /\ kxAssoc'[c] \in {NoGrant, kxFile, kxAssoc[c]} \/ (kxGrants' = kxGrants + 1 /\ kxAssoc'[c] = kxGrants + 1)
  BY DEF Turned, Turns, ComesToEnd, ComesToAsk, ComesToSave, Rests, Tests, AsksLeave, Gets, Sets, AsksWith
<1>2. \A d \in Clients : kxAssoc[d] <= kxGrants
  BY <1>t DEF Issued
<1>3. Issued'
  <2>1. ASSUME NEW g \in Grants, Pending(g)' \/ kxFile' = g PROVE g <= kxGrants'
    <3>1. Pending(g) \/ kxFile = g => g <= kxGrants
      BY <1>t DEF Issued
    <3>2. CASE Pending(g)'
      BY <1>n, <1>p, <1>1, <3>1, <3>2
    <3>3. CASE kxFile' = g
      BY <1>n, <1>1, <1>2, <2>1, <3>1, <3>3
    <3> QED BY <2>1, <3>2, <3>3
  <2>2. ASSUME NEW d \in Clients PROVE kxAssoc'[d] <= kxGrants'
    <3>1. CASE d = c
      <4>1. CASE kxAssoc'[c] = kxFile /\ kxFile # KxTorn
        <5>1. kxFile \in Grants => kxFile <= kxGrants
          BY <1>t DEF Issued
        <5> QED BY <1>t, <1>n, <1>1, <3>1, <4>1, <5>1 DEF ClientTypes
      <4>2. kxAssoc'[c] # KxTorn
        <5>1. kxAssoc'[c] \in Grants \cup {NoGrant}
          BY <1>t DEF ClientTypes
        <5>2. \A g \in Grants : g # KxTorn
          BY <1>n
        <5> QED BY <1>n, <5>1, <5>2
      <4>3. CASE kxAssoc'[c] = NoGrant \/ kxAssoc'[c] = kxAssoc[c]
        BY <1>n, <1>1, <1>2, <3>1, <4>3
      <4> QED BY <1>n, <1>1, <3>1, <4>1, <4>2, <4>3
    <3>2. CASE d # c
      BY <1>n, <1>o, <1>1, <1>2, <3>2
    <3> QED BY <3>1, <3>2
  <2> QED BY <2>1, <2>2 DEF Issued
<1>4. Granted'
  <2>f. kxFile \in Grants => ~Pending(kxFile) /\ kxFile <= kxGrants
    BY <1>t DEF Granted, Issued
  <2>c. \A d \in Clients : kxAt[d] \in {"test", "save", "saving"} => ~Pending(kxAssoc[d])
    BY <1>t DEF Granted
  <2>1. ASSUME kxFile' \in Grants PROVE ~Pending(kxFile)'
    <3>1. ~Pending(kxFile') /\ kxFile' <= kxGrants
      BY <1>n, <1>1, <1>2, <2>f, <2>c, <2>1
    <3> QED BY <1>n, <1>p, <3>1
  <2>2. ASSUME NEW d \in Clients, kxAt'[d] \in {"test", "save", "saving"} PROVE ~Pending(kxAssoc[d])'
    <3>1. CASE d # c
      <4>1. kxAssoc'[d] = kxAssoc[d] /\ ~Pending(kxAssoc[d]) /\ kxAssoc[d] <= kxGrants
        BY <1>o, <1>2, <2>c, <2>2, <3>1
      <4> QED BY <1>n, <1>p, <4>1
    <3>2. CASE d = c
      <4>1. ~Pending(kxAssoc'[c]) /\ kxAt'[c] # "associate"
        BY <2>f, <2>c, <2>2, <3>2 DEF Turned, Turns, ComesToEnd, ComesToAsk, ComesToSave, Rests, Tests, AsksLeave,
           Gets, Sets, AsksWith
      <4> QED BY <1>p, <3>2, <4>1
    <3> QED BY <3>1, <3>2
  <2> QED BY <2>1, <2>2 DEF Granted
<1>5. AskedOnce'
  <2>l. \A d \in Clients : \A i, j \in 1..Len(kxAsked[d]) :
          kxAsked[d][i].action = "associate" /\ kxAsked[d][j].action = "associate" => i = j
    BY <1>t DEF AskedFits
  <2>w. \A d \in Clients : \A q \in Among(kxAsked[d]) : q.action = "associate" =>
          kxAt[d] = "associate" /\ q.grant = kxAssoc[d]
    BY <1>t DEF AskedFits
  <2>1. ASSUME NEW d \in Clients, NEW e \in Clients, kxAt'[d] = "associate", kxAt'[e] = "associate",
               kxAssoc'[d] = kxAssoc'[e]
        PROVE  d = e
    <3>1. ASSUME NEW a \in Clients \ {c}, kxAt'[a] = "associate", kxAt'[c] = "associate" PROVE kxAssoc'[a] # kxAssoc'[c]
      <4>1. kxAt[a] = "associate" /\ kxAssoc'[a] = kxAssoc[a] /\ kxAssoc[a] <= kxGrants
        BY <1>o, <1>2, <3>1
      <4>2. kxAssoc'[c] = kxGrants + 1 \/ (kxAt[c] = "associate" /\ kxAssoc'[c] = kxAssoc[c])
        BY <3>1 DEF Turned, Turns, ComesToEnd, ComesToAsk, ComesToSave, Rests, Tests, AsksLeave,
           Gets, Sets, AsksWith
      <4> QED BY <1>t, <1>n, <4>1, <4>2 DEF AskedOnce
    <3> QED BY <1>t, <1>o, <2>1, <3>1 DEF AskedOnce
  <2>2. CASE ComesToEnd(c)
    <3>1. kxLeft' = kxLeft \cup Among(kxAsked[c]) /\ Among(kxAsked'[c]) = {}
      BY <2>2, AmongEmpty DEF ComesToEnd
    <3>2. \A q, r \in Among(kxAsked[c]) : q.action = "associate" /\ r.action = "associate" => q = r
      BY <2>l DEF Among
    <3>3. ASSUME NEW r \in kxLeft', r.action = "associate"
          PROVE  /\ r.grant \notin kxDialogs
                 /\ \A q \in kxLeft' : q.action = "associate" /\ q.grant = r.grant => q = r
                 /\ \A d \in Clients : \A q \in Among(kxAsked'[d]) : q.action = "associate" => q.grant # r.grant
      <4>1. CASE r \in kxLeft
        BY <1>t, <1>o, <3>1, <3>3, <4>1 DEF AskedOnce
      <4>2. CASE r \in Among(kxAsked[c])
        <5>1. \A q \in kxLeft : q.action = "associate" => q.grant # r.grant
          BY <1>t, <3>3, <4>2 DEF AskedOnce
        <5>2. ASSUME NEW d \in Clients, NEW q \in Among(kxAsked'[d]), q.action = "associate" PROVE q.grant # r.grant
          <6>1. d # c /\ q \in Among(kxAsked[d])
            BY <1>o, <3>1, <5>2
          <6>2. kxAt[d] = "associate" /\ kxAt[c] = "associate" /\ q.grant = kxAssoc[d] /\ r.grant = kxAssoc[c]
            BY <2>w, <3>3, <4>2, <5>2, <6>1
          <6> QED BY <1>t, <6>1, <6>2 DEF AskedOnce
        <5> QED BY <1>t, <3>1, <3>2, <3>3, <4>2, <5>1, <5>2 DEF AskedOnce
      <4> QED BY <3>1, <3>3, <4>1, <4>2
    <3>4. \A d \in Clients : \A r \in Among(kxAsked'[d]) : r.action = "associate" => r.grant \notin kxDialogs
      BY <1>t, <1>o, <3>1 DEF AskedOnce
    <3> QED BY <1>o, <2>1, <3>3, <3>4 DEF AskedOnce
  <2>3. CASE ComesToAsk(c)
    <3>1. PICK r \in KxRequests : AsksWith(c, r) /\ (Tests(c, r) \/ AsksLeave(c, r) \/ Gets(c, r) \/ Sets(c, r))
      BY <2>3 DEF ComesToAsk
    <3>2. Among(kxAsked'[c]) = Among(kxAsked[c]) \cup {r} /\ kxLeft' = kxLeft
      BY <1>t, <3>1, AmongAppend DEF AsksWith, ClientTypes
    <3>3. r.action = "associate" => r.grant = kxGrants + 1 /\ r.grant \in Grants
      <4>1. kxAssoc'[c] \in Grants \cup {NoGrant}
        BY <1>t DEF ClientTypes
      <4> QED BY <1>n, <3>1, <4>1 DEF Tests, AsksLeave, Gets, Sets
    <3>4. r.action = "associate" => ~Pending(r.grant)
      BY <1>t, <1>n, <3>3 DEF Issued
    <3>5. r.action = "associate" => r.grant \notin kxDialogs /\ \A q \in kxLeft : q.action = "associate" => q.grant # r.grant
      BY <3>4 DEF Pending
    <3>6. ASSUME NEW d \in Clients, NEW q \in Among(kxAsked'[d]), q.action = "associate"
          PROVE  q.grant \notin kxDialogs /\ \A s \in kxLeft : s.action = "associate" => q.grant # s.grant
      <4>1. CASE q \in Among(kxAsked[d])
        BY <1>t, <3>6, <4>1 DEF AskedOnce
      <4>2. CASE q = r
        BY <3>5, <3>6, <4>2
      <4> QED BY <1>o, <3>2, <3>6, <4>1, <4>2
    <3>7. \A s \in kxLeft' : s.action = "associate" =>
            /\ s.grant \notin kxDialogs'
            /\ \A q \in kxLeft' : q.action = "associate" /\ q.grant = s.grant => q = s
      BY <1>t, <1>o, <3>2 DEF AskedOnce
    <3> QED BY <1>o, <2>1, <3>2, <3>6, <3>7 DEF AskedOnce
  <2>4. CASE ComesToSave(c) \/ Rests(c)
    <3>1. kxAsked'[c] = kxAsked[c] /\ kxLeft' = kxLeft
      BY <2>4 DEF ComesToSave, Rests
    <3>2. \A d \in Clients : kxAsked'[d] = kxAsked[d]
      BY <1>o, <3>1
    <3> QED BY <1>t, <1>o, <2>1, <3>1, <3>2 DEF AskedOnce
  <2> QED BY <2>2, <2>3, <2>4 DEF Turned, Turns
<1> QED BY <1>3, <1>4, <1>5

(* What was seen stays so where the entries are the same.                  *)
LEMMA TurnKeepsKnown ==
    ASSUME KxSound, NEW c \in Clients, Turned(c), NEW d \in Clients, NEW entries, KnownOf(d, entries),
           kxJob'[d] = kxJob[d], kxSeen'[d] = kxSeen[d], kxAt'[d] = "get" => kxAt[d] = "get"
    PROVE  KnownOf(d, entries)'
<1>1. kxEntries' = kxEntries /\ kxBlind \subseteq kxBlind'
  BY DEF Turned, Turns, ComesToEnd, ComesToAsk, AsksWith, ComesToSave, Rests
<1> QED BY <1>1 DEF KnownOf, SecretsOf, SavesAlone, Storing, Holds, Mine

LEMMA TurnKeepsFrames ==
    ASSUME KxSound, NEW c \in Clients, Turned(c)
    PROVE  \A d \in Clients : FramesFit(d)'
<1>t. /\ ClientTypes /\ ClientTypes' /\ JobFits(c) /\ AskedFits(c) /\ FramesFit(c) /\ Issued
      /\ \A d \in Clients : kxAssoc[d] <= kxGrants
  BY KxTypesAre DEF KxSound, ClientFits, Turned, Turns, Issued
<1>n. /\ kxGrants \in Nat /\ kxLates \in Nat /\ kxLates' \in Nat /\ kxLates <= kxLates' /\ kxKnown' = kxKnown
      /\ \A d \in Clients : kxAssoc[d] \in Nat
  <2>1. KxCounts /\ KxCounts'
    BY KxTypesAre DEF KxSound, Turned
  <2>2. kxGrants \in Nat /\ \A d \in Clients : kxAssoc[d] \in Nat
    BY <1>t, KxBounds DEF ClientTypes, Grants, NoGrant
  <2>3. kxLates \in Nat /\ kxLates' \in Nat
    BY <2>1, KxBounds DEF KxCounts
  <2>4. kxLates <= kxLates' /\ kxKnown' = kxKnown
    BY DEF Turned
  <2> QED BY <2>2, <2>3, <2>4
<1>1. ASSUME NEW d \in Clients \ {c} PROVE FramesFit(d)'
  <2>1. /\ kxJob'[d] = kxJob[d] /\ kxAt'[d] = kxAt[d] /\ kxAsked'[d] = kxAsked[d] /\ kxAssoc'[d] = kxAssoc[d]
        /\ kxSeen'[d] = kxSeen[d] /\ kxFrames'[d] = kxFrames[d]
    BY DEF Turned, Turns, OthersRest
  <2>2. FramesFit(d)
    BY DEF KxSound, ClientFits
  <2>3. ~Pending(kxAssoc[d]) => ~Pending(kxAssoc[d])'
    <3>1. \A g : Pending(g)' => Pending(g) \/ g = kxGrants + 1
      BY TurnPends
    <3> QED BY <1>t, <1>n, <2>1, <3>1
  <2>4. \A entries : KnownOf(d, entries) => KnownOf(d, entries)'
    BY <2>1, TurnKeepsKnown
  <2> QED BY <1>n, <2>1, <2>2, <2>3, <2>4 DEF FramesFit
<1>2. FramesFit(c)'
  <2>0. Among(kxFrames'[c]) \subseteq Among(kxFrames[c])
    BY DEF Turned
  <2>1. CASE ComesToEnd(c)
    <3>1. kxFrames'[c] = <<>>
      BY <2>1 DEF Turned, ComesToEnd
    <3> QED BY <3>1, AmongEmpty DEF FramesFit
  <2>2. CASE ComesToAsk(c) \/ ComesToSave(c)
    <3>1. /\ kxJob'[c] = kxJob[c] /\ kxSeen'[c] = kxSeen[c]
          /\ kxAt'[c] = "get" => kxAt[c] \in {"test", "saving"}
          /\ kxAt'[c] = "test" => kxAt[c] = "keys"
          /\ kxAt'[c] = "associate" => kxAt[c] \in {"keys", "test"}
          /\ Said(kxAt[c]) \subseteq Said(kxAt'[c])
      BY <2>2 DEF ComesToAsk, ComesToSave, AsksWith, Tests, AsksLeave, Gets, Sets, Said, Asking
    <3>2. \A f \in Among(kxFrames[c]) :
            /\ kxAt'[c] = "get" => f.action # "get"
            /\ kxAt'[c] = "test" => f.action # "test"
            /\ kxAt'[c] = "associate" => f.action # "associate"
      BY <1>t, <3>1 DEF FramesFit, Said
    <3>3. ASSUME NEW entries, KnownOf(c, entries), kxAt'[c] # "get" PROVE KnownOf(c, entries)'
      BY <3>1, <3>3, TurnKeepsKnown
    <3> QED BY <1>t, <1>n, <2>0, <3>1, <3>2, <3>3 DEF FramesFit
  <2>3. CASE Rests(c)
    <3>1. UNCHANGED <<kxJob, kxAt, kxAssoc, kxAsked, kxLeft, kxSeen, kxFile, kxGrants, kxBlind>>
      BY <2>3 DEF Rests
    <3>2. Pending(kxAssoc[c])' => Pending(kxAssoc[c])
      BY <3>1 DEF Pending, Turned
    <3>3. \A entries : KnownOf(c, entries) => KnownOf(c, entries)'
      BY <3>1, TurnKeepsKnown
    <3> QED BY <1>t, <1>n, <2>0, <3>1, <3>2, <3>3 DEF FramesFit
  <2> QED BY <2>1, <2>2, <2>3 DEF Turned, Turns
<1> QED BY <1>1, <1>2

LEMMA TurnKeepsCopies ==
    ASSUME KxSound, NEW c \in Clients, Turned(c)
    PROVE  (\A d \in Clients : SavesOver(d)') /\ OneSaves' /\ NoCopies'
<1>t. ClientTypes /\ JobFits(c) /\ AskedFits(c) /\ SavesOver(c) /\ OneSaves /\ NoCopies
  BY KxTypesAre DEF KxSound, ClientFits
<1>1. kxEntries' = kxEntries /\ kxBlind \subseteq kxBlind'
  BY DEF Turned, Turns, ComesToEnd, ComesToAsk, AsksWith, ComesToSave, Rests
<1>2. \A d \in Clients : kxJob'[d] = kxJob[d] \/ kxJob'[d].op = "none"
  BY DEF Turned, Turns, OthersRest, ComesToEnd, ComesToAsk, AsksWith, ComesToSave, Rests, KxIdle
<1>3. OneSaves'
  BY <1>t, <1>1, <1>2 DEF OneSaves, SavesAlone, Storing
<1>4. NoCopies'
  BY <1>t, <1>1 DEF NoCopies
<1>5. ASSUME NEW d \in Clients \ {c} PROVE SavesOver(d)'
  <2>1. kxJob'[d] = kxJob[d] /\ kxAsked'[d] = kxAsked[d]
    BY DEF Turned, Turns, OthersRest
  <2>2. SavesOver(d)
    BY DEF KxSound, ClientFits
  <2> QED BY <1>1, <2>1, <2>2 DEF SavesOver, SavesAlone, Storing, Holds
<1>6. SavesOver(c)'
  <2>1. CASE ComesToEnd(c)
    BY <2>1, AmongEmpty DEF ComesToEnd, SavesOver
  <2>2. CASE ComesToAsk(c)
    <3>1. PICK r \in KxRequests : AsksWith(c, r) /\ (Tests(c, r) \/ AsksLeave(c, r) \/ Gets(c, r) \/ Sets(c, r))
      BY <2>2 DEF ComesToAsk
    <3>2. Among(kxAsked'[c]) = Among(kxAsked[c]) \cup {r} /\ kxJob'[c] = kxJob[c]
      BY <1>t, <3>1, AmongAppend DEF AsksWith, ClientTypes
    <3>3. r.action = "set" /\ kxJob[c].login \notin kxBlind' => Holds(r.uuid) \/ Mine(kxEntries, kxJob[c].login) = {}
      BY <3>1 DEF Tests, AsksLeave, Gets, Sets
    <3> QED BY <1>t, <1>1, <3>2, <3>3 DEF SavesOver, SavesAlone, Storing, Holds
  <2>3. CASE ComesToSave(c) \/ Rests(c)
    <3>1. kxJob'[c] = kxJob[c] /\ kxAsked'[c] = kxAsked[c]
      BY <2>3 DEF ComesToSave, Rests
    <3> QED BY <1>t, <1>1, <3>1 DEF SavesOver, SavesAlone, Storing, Holds
  <2> QED BY <2>1, <2>2, <2>3 DEF Turned, Turns
<1> QED BY <1>3, <1>4, <1>5, <1>6

LEMMA TurnStands ==
    ASSUME KxSound, NEW c \in Clients, Turned(c)
    PROVE  KxSound'
<1>1. KeePassXCTypeOK'
  <2>1. ClientTypes' /\ WireTypes' /\ KxCounts'
    BY DEF Turned, Turns
  <2>2. ServerTypes /\ UNCHANGED <<kxOpen, kxEntries, kxKnown, kxDialogs>>
    BY KxTypesAre DEF KxSound, Turned
  <2>3. ServerTypes'
    BY <2>2 DEF ServerTypes
  <2>4. KeePassXCTypeOK' <=> ClientTypes' /\ WireTypes' /\ ServerTypes' /\ KxCounts'
    BY KxTypesAre, Zenon DEF KeePassXCTypeOK, ClientTypes, WireTypes, ServerTypes, KxCounts, KxJobs, KxFrameSet, KxSteps, KxOutcomes
  <2> QED BY <2>1, <2>3, <2>4
<1>2. IsFiniteSet(kxEntries')
  BY DEF KxSound, Turned
<1> QED BY <1>1, <1>2, TurnKeepsJob, TurnKeepsAsked, TurnAsksOnce, TurnKeepsFrames, TurnKeepsCopies DEF KxSound, ClientFits

-----------------------------------------------------------------------------
(* What a request does to the database: an entry that is there stays, and  *)
(* a key has one more only by a save that names none.                      *)
LEMMA OneIsFree ==
    ASSUME kxEntries \in SUBSET KxEntries, IsFiniteSet(kxEntries), Cardinality(kxEntries) < MaxEntries
    PROVE  FreeUuid \in Uuids
<1> DEFINE used == {e.uuid : e \in kxEntries}
           named == [e \in kxEntries |-> e.uuid]
<1>1. named \in Surjection(kxEntries, used)
  BY DEF Surjection
<1>2. IsFiniteSet(used) /\ Cardinality(used) <= Cardinality(kxEntries) /\ Cardinality(used) \in Nat
      /\ Cardinality(kxEntries) \in Nat
  BY <1>1, FS_Surjection, FS_CardinalityType
<1>3. IsFiniteSet(Uuids) /\ Cardinality(Uuids) = MaxEntries
  BY KxBounds, FS_Interval, 1 \in Int, MaxEntries \in Int DEF Uuids
<1>4. ~(Uuids \subseteq used)
  <2>1. Uuids \subseteq used => Cardinality(Uuids) <= Cardinality(used)
    BY <1>2, FS_Subset
  <2> QED BY <1>2, <1>3, <2>1, KxBounds
<1>5. \E u \in Uuids : \A e \in kxEntries : e.uuid # u
  BY <1>4
<1> QED BY <1>5 DEF FreeUuid

HasMade(r) == SetsLogin(r) /\ ~Holds(r.uuid)

LEMMA ServedIs ==
    ASSUME KxSound, NEW r \in KxRequests, r.action = "set" => r.login \in Logins /\ r.secret \in Passphrases,
           Served(r)
    PROVE  /\ kxEntries' \subseteq KxEntries /\ IsFiniteSet(kxEntries')
           /\ \A u : Holds(u) => Holds(u)'
           /\ \A l : Mine(kxEntries, l) = {} => Mine(kxEntries', l) = {} \/ (r.action = "set" /\ r.login = l)
           /\ \A e, f \in kxEntries' : e.login = f.login /\ e.login \notin kxBlind =>
                \/ e = f
                \/ r.action = "set" /\ ~Holds(r.uuid) /\ e.login = r.login /\ Mine(kxEntries, r.login) # {}
<1>t. kxEntries \in SUBSET KxEntries /\ IsFiniteSet(kxEntries) /\ NoCopies
  BY KxTypesAre DEF KxSound, ServerTypes
<1>1. CASE ~SetsLogin(r)
  BY <1>t, <1>1 DEF Served, Holds, NoCopies
<1>2. CASE SetsLogin(r) /\ Holds(r.uuid)
  <2> DEFINE f == [e \in kxEntries |-> IF e.uuid = r.uuid THEN [e EXCEPT !.secret = r.secret] ELSE e]
  <2>0. r.login \in Logins /\ r.secret \in Passphrases
    BY <1>2 DEF SetsLogin
  <2>1. kxEntries' = {f[e] : e \in kxEntries}
    BY <1>2 DEF Served, Updated
  <2>2. \A e \in kxEntries : f[e] \in KxEntries /\ f[e].uuid = e.uuid /\ f[e].login = e.login
    BY <1>t, <2>0 DEF KxEntries
  <2>3. f \in Surjection(kxEntries, kxEntries')
    BY <2>1 DEF Surjection
  <2>4. IsFiniteSet(kxEntries')
    BY <1>t, <2>3, FS_Surjection
  <2> HIDE DEF f
  <2>5. \A u : Holds(u) => Holds(u)'
    BY <2>1, <2>2 DEF Holds
  <2>6. \A l : Mine(kxEntries, l) = {} => Mine(kxEntries', l) = {}
    BY <2>1, <2>2 DEF Mine
  <2>7. \A d, e \in kxEntries' : d.login = e.login /\ d.login \notin kxBlind => d = e
    <3> SUFFICES ASSUME NEW a \in kxEntries, NEW b \in kxEntries, f[a].login = f[b].login, f[a].login \notin kxBlind
                 PROVE  f[a] = f[b]
      BY <2>1
    <3> QED BY <1>t, <2>2 DEF NoCopies
  <2> QED BY <2>1, <2>2, <2>4, <2>5, <2>6, <2>7
<1>3. CASE SetsLogin(r) /\ ~Holds(r.uuid)
  <2>0. r.action = "set" /\ r.login \in Logins /\ r.secret \in Passphrases
    BY <1>3 DEF SetsLogin
  <2>1. Cardinality(kxEntries) < MaxEntries /\ kxEntries' = kxEntries \cup {NewEntry(r)}
    BY <1>3 DEF Served
  <2>2. NewEntry(r) \in KxEntries /\ NewEntry(r).login = r.login
    <3>1. FreeUuid \in Uuids
      BY <1>t, <2>1, OneIsFree
    <3> QED BY <2>0, <3>1 DEF NewEntry, KxEntries
  <2>3. IsFiniteSet(kxEntries')
    BY <1>t, <2>1, FS_AddElement
  <2>4. \A u : Holds(u) => Holds(u)'
    BY <2>1 DEF Holds
  <2>5. \A l : Mine(kxEntries, l) = {} /\ r.login # l => Mine(kxEntries', l) = {}
    BY <2>1, <2>2 DEF Mine
  <2>6. ASSUME NEW d \in kxEntries', NEW e \in kxEntries', d.login = e.login, d.login \notin kxBlind,
               Mine(kxEntries, r.login) = {} \/ d.login # r.login
        PROVE  d = e
    <3>1. CASE d \in kxEntries /\ e \in kxEntries
      BY <1>t, <2>6, <3>1 DEF NoCopies
    <3>2. CASE ~(d \in kxEntries /\ e \in kxEntries)
      BY <2>1, <2>2, <2>6, <3>2 DEF Mine
    <3> QED BY <3>1, <3>2
  <2> QED BY <1>t, <1>3, <2>0, <2>1, <2>2, <2>3, <2>4, <2>5, <2>6
<1> QED BY <1>1, <1>2, <1>3

(* And to what keys are known to have had.                                 *)
LEMMA ServedIsSeen ==
    ASSUME KxSound, NEW r \in KxRequests, kxEntries' \subseteq KxEntries, Served(r)
    PROVE  /\ kxSeen' \in [Clients -> SUBSET (Passphrases \cup {NoPassphrase})]
           /\ \A d \in Clients : kxAt[d] # "idle" =>
                kxSeen[d] \subseteq kxSeen'[d] /\ SecretsOf(kxEntries', kxJob[d].login) \subseteq kxSeen'[d]
<1>t. kxSeen \in [Clients -> SUBSET (Passphrases \cup {NoPassphrase})]
  BY KxTypesAre DEF KxSound, ClientTypes
<1>1. kxSeen' = [c \in Clients |-> IF kxAt[c] = "idle" THEN {}
                                   ELSE kxSeen[c] \cup SecretsOf(kxEntries', kxJob[c].login)]
  BY DEF Served
<1>2. \A l : SecretsOf(kxEntries', l) \subseteq Passphrases \cup {NoPassphrase}
  BY DEF SecretsOf, KxEntries
<1> QED BY <1>t, <1>1, <1>2

(* Who stays where he is.                                                  *)
LEMMA ServedKeepsKnown ==
    ASSUME KxSound, NEW r \in KxRequests, r.action = "set" => r.login \in Logins /\ r.secret \in Passphrases,
           Served(r), UNCHANGED <<kxJob, kxAt>>, kxBlind \subseteq kxBlind',
           NEW d \in Clients, NEW entries, KnownOf(d, entries), kxAt[d] # "idle",
           r.action = "set" /\ SavesAlone(d)' /\ kxAt[d] = "get" => r.login # kxJob[d].login
    PROVE  KnownOf(d, entries)'
<1>1. /\ kxEntries' \subseteq KxEntries
      /\ \A u : Holds(u) => Holds(u)'
      /\ \A l : Mine(kxEntries, l) = {} => Mine(kxEntries', l) = {} \/ (r.action = "set" /\ r.login = l)
  BY ServedIs
<1>2. kxSeen[d] \subseteq kxSeen'[d]
  BY <1>1, ServedIsSeen
<1>3. SecretsOf(entries, kxJob[d].login) \subseteq kxSeen'[d]
  BY <1>2 DEF KnownOf
<1>4. SavesAlone(d)' => SavesAlone(d)
  BY DEF SavesAlone, Storing
<1>5. ASSUME SavesAlone(d)', kxAt[d] = "get"
      PROVE  /\ \A e \in entries : Holds(e.uuid)'
             /\ Mine(entries, kxJob[d].login) = {} => Mine(kxEntries', kxJob[d].login) = {}
  BY <1>1, <1>4, <1>5 DEF KnownOf
<1> QED BY <1>3, <1>5 DEF KnownOf, SecretsOf, Mine

-----------------------------------------------------------------------------
(* A step of KeePassXC or its user: the clients stay where they are, and   *)
(* requests only become fewer.                                             *)
Attended ==
  /\ UNCHANGED <<kxJob, kxAt, kxBroken, kxAssoc, kxFile, kxGrants>>
  /\ kxBlind \subseteq kxBlind' /\ kxLeft' \subseteq kxLeft /\ kxLates <= kxLates'
  /\ \A d \in Clients :
       /\ kxAsked'[d] = kxAsked[d] \/ (kxAsked[d] # <<>> /\ kxAsked'[d] = Tail(kxAsked[d]))
       /\ kxAt[d] = "idle" \/ kxBroken[d] => kxFrames'[d] = <<>>
  /\ \A g : Pending(g)' => Pending(g)
  /\ KeePassXCTypeOK' /\ IsFiniteSet(kxEntries')

LEMMA FewerAsked ==
    ASSUME KxSound, Attended, NEW d \in Clients
    PROVE  Among(kxAsked'[d]) \subseteq Among(kxAsked[d])
<1>1. kxAsked[d] \in Seq(KxRequests)
  BY KxTypesAre DEF KxSound, ClientTypes
<1> QED BY <1>1, AmongTail DEF Attended

LEMMA AttendedStands ==
    ASSUME KxSound, Attended,
           \A d \in Clients : FramesFit(d)' /\ SavesOver(d)', NoCopies', AskedOnce'
    PROVE  KxSound'
<1>0. /\ UNCHANGED <<kxJob, kxAt, kxBroken, kxAssoc, kxFile, kxGrants>>
      /\ kxBlind \subseteq kxBlind' /\ kxLeft' \subseteq kxLeft
  BY DEF Attended
<1>n. kxLates <= kxLates' /\ kxLates \in Nat /\ kxLates' \in Nat
  <2>1. KxCounts
    BY KxTypesAre DEF KxSound
  <2>2. KxCounts'
    BY DEF Attended, KeePassXCTypeOK, KxCounts
  <2> QED BY <2>1, <2>2, KxBounds DEF Attended, KxCounts
<1>1. ASSUME NEW d \in Clients PROVE JobFits(d)'
  <2>1. JobFits(d) /\ kxAsked[d] \in Seq(KxRequests)
    BY KxTypesAre DEF KxSound, ClientFits, ClientTypes
  <2>2. kxAt[d] = "idle" => kxAsked'[d] = <<>>
    BY <2>1 DEF Attended, JobFits
  <2> QED BY <1>0, <1>n, <2>1, <2>2 DEF Attended, JobFits, Storing
<1>2. ASSUME NEW d \in Clients PROVE AskedFits(d)'
  <2>1. AskedFits(d) /\ kxAsked[d] \in Seq(KxRequests)
    BY KxTypesAre DEF KxSound, ClientFits, ClientTypes
  <2>2. CASE kxAsked'[d] = kxAsked[d]
    BY <1>0, <2>1, <2>2 DEF AskedFits
  <2>3. CASE kxAsked[d] # <<>> /\ kxAsked'[d] = Tail(kxAsked[d])
    <3>1. /\ Among(kxAsked'[d]) \subseteq Among(kxAsked[d]) /\ Len(kxAsked[d]) \in Nat
          /\ Len(kxAsked'[d]) = Len(kxAsked[d]) - 1
          /\ \A i \in 1..Len(kxAsked'[d]) : kxAsked'[d][i] = kxAsked[d][i + 1]
      BY <2>1, <2>3, AmongTail
    <3>2. \A i \in 1..Len(kxAsked'[d]) : kxAsked'[d][i].action \in {"associate", "set"} => i = Len(kxAsked'[d])
      BY <2>1, <3>1 DEF AskedFits
    <3> QED BY <1>0, <2>1, <3>1, <3>2 DEF AskedFits
  <2> QED BY <2>2, <2>3 DEF Attended
<1>3. LeftFits'
  BY <1>0 DEF KxSound, LeftFits
<1>4. OneSaves'
  BY <1>0 DEF KxSound, OneSaves, SavesAlone, Storing
<1>5. Issued' /\ Granted'
  <2>1. Issued /\ Granted /\ \A g : Pending(g)' => Pending(g)
    BY DEF KxSound, Attended
  <2>2. \A g \in Grants : Pending(g)' \/ kxFile' = g => g <= kxGrants'
    BY <1>0, <2>1 DEF Issued
  <2>3. kxFile' \in Grants => ~Pending(kxFile)'
    BY <1>0, <2>1 DEF Granted
  <2>4. \A d \in Clients : kxAt'[d] \in {"test", "save", "saving"} => ~Pending(kxAssoc[d])'
    BY <1>0, <2>1 DEF Granted
  <2> QED BY <1>0, <2>1, <2>2, <2>3, <2>4 DEF Issued, Granted
<1> QED BY <1>1, <1>2, <1>3, <1>4, <1>5 DEF KxSound, ClientFits, Attended

(* A frame that was there still says what it said.                         *)
FrameFits(c, f) ==
  /\ f.action \in Said(kxAt[c]) \cup {"announcement"}
  /\ f.code = "failed" => kxLates > 0
  /\ f.code = "no_logins" => f.action = "get" /\ KnownOf(c, {})
  /\ f.action = "get" /\ f.code = "ok" => KnownOf(c, f.entries)
  /\ f.action = "test" /\ f.code = "refused" /\ kxAt[c] = "test" => kxAssoc[c] \notin kxKnown
  /\ f.action = "associate" /\ kxAt[c] = "associate" =>
       /\ f.code = "ok" => ~Pending(kxAssoc[c])
       /\ \A r \in Among(kxAsked[c]) : r.action # "associate"

LEMMA FramesAre == ASSUME NEW c PROVE FramesFit(c) <=> \A f \in Among(kxFrames[c]) : FrameFits(c, f)
BY Zenon DEF FramesFit, FrameFits

LEMMA FrameStays ==
    ASSUME KxSound, Attended, NEW d \in Clients, NEW f \in Among(kxFrames[d]),
           \A entries : KnownOf(d, entries) => KnownOf(d, entries)',
           kxAt[d] = "test" /\ kxAssoc[d] \notin kxKnown => kxAssoc[d] \notin kxKnown'
    PROVE  FrameFits(d, f)'
<1>1. FrameFits(d, f)
  BY FramesAre DEF KxSound, ClientFits
<1>2. UNCHANGED <<kxAt, kxAssoc>> /\ \A g : Pending(g)' => Pending(g)
  BY DEF Attended
<1>n. kxLates <= kxLates' /\ kxLates \in Nat /\ kxLates' \in Nat
  <2>1. KxCounts
    BY KxTypesAre DEF KxSound
  <2>2. KxCounts'
    BY DEF Attended, KeePassXCTypeOK, KxCounts
  <2> QED BY <2>1, <2>2, KxBounds DEF Attended, KxCounts
<1>3. ~Pending(kxAssoc[d]) => ~Pending(kxAssoc[d])'
  BY <1>2
<1>4. Among(kxAsked'[d]) \subseteq Among(kxAsked[d])
  BY FewerAsked
<1> QED BY <1>1, <1>2, <1>n, <1>3, <1>4 DEF FrameFits

(* Where the entries are as they were, so is what is known of them.        *)
LEMMA SameEntriesKnown ==
    ASSUME UNCHANGED <<kxJob, kxAt, kxEntries, kxSeen>>, kxBlind \subseteq kxBlind', NEW d, NEW entries, KnownOf(d, entries)
    PROVE  KnownOf(d, entries)'
BY DEF KnownOf, SavesAlone, Storing, Mine, Holds, SecretsOf

LEMMA SameEntriesCopies ==
    ASSUME KxSound, Attended, UNCHANGED kxEntries
    PROVE  NoCopies' /\ \A d \in Clients : SavesOver(d)'
<1>1. NoCopies'
  BY DEF KxSound, NoCopies, Attended
<1>2. ASSUME NEW d \in Clients PROVE SavesOver(d)'
  <2>1. SavesOver(d) /\ Among(kxAsked'[d]) \subseteq Among(kxAsked[d])
    BY FewerAsked DEF KxSound, ClientFits
  <2> QED BY <2>1 DEF Attended, SavesOver, SavesAlone, Storing, Holds
<1> QED BY <1>1, <1>2

LEMMA TypesStand ==
    ASSUME ClientTypes', WireTypes', ServerTypes', KxCounts' PROVE KeePassXCTypeOK'
BY Zenon DEF KeePassXCTypeOK, ClientTypes, WireTypes, ServerTypes, KxCounts, KxJobs, KxFrameSet, KxSteps, KxOutcomes

(* What is sent to some of the clients.                                    *)
LEMMA SentFrames ==
    ASSUME KxSound, NEW to \in SUBSET Clients, \A d \in to : kxAt[d] # "idle" /\ ~kxBroken[d],
           NEW f \in KxFrameSet,
           kxFrames' = [d \in Clients |-> IF d \in to THEN Append(kxFrames[d], f) ELSE kxFrames[d]]
    PROVE  /\ kxFrames' \in [Clients -> Seq(KxFrameSet)]
           /\ \A d \in Clients : kxAt[d] = "idle" \/ kxBroken[d] => kxFrames'[d] = <<>>
           /\ \A d \in Clients : Among(kxFrames'[d]) = IF d \in to THEN Among(kxFrames[d]) \cup {f} ELSE Among(kxFrames[d])
<1>1. kxFrames \in [Clients -> Seq(KxFrameSet)]
  BY KxTypesAre DEF KxSound, WireTypes
<1>2. \A d \in Clients : /\ Append(kxFrames[d], f) \in Seq(KxFrameSet)
                         /\ Among(Append(kxFrames[d], f)) = Among(kxFrames[d]) \cup {f}
  BY <1>1, AmongAppend
<1>3. \A d \in Clients : kxAt[d] = "idle" \/ kxBroken[d] => kxFrames[d] = <<>>
  BY DEF KxSound, ClientFits, JobFits
<1> QED BY <1>1, <1>2, <1>3

LEMMA AnswersDialogStands ==
    ASSUME KxSound, NEW g \in kxDialogs, AnswersDialog(g) PROVE KxSound'
<1>t. ClientTypes /\ WireTypes /\ ServerTypes /\ KxCounts /\ AskedOnce /\ Granted /\ \A d \in Clients : AskedFits(d)
  BY KxTypesAre DEF KxSound, ClientFits
<1>0. /\ kxDialogs' = kxDialogs \ {g}
      /\ UNCHANGED <<kxOpen, kxEntries, kxLeft, kxFile, kxAsked, kxSeen, kxBlind>>
      /\ UNCHANGED <<kxJob, kxAt, kxBroken, kxAssoc, kxOutcome, kxCalls, kxLates, kxMeddled, kxGrants>>
  BY DEF AnswersDialog, kxClient, kxBounds
<1> DEFINE to == {d \in Clients : kxAt[d] = "associate" /\ kxAssoc[d] = g /\ ~kxBroken[d]}
<1>1. PICK code \in {"ok", "refused"} :
        /\ Tells(g, code)
        /\ kxKnown' = kxKnown \cup {g} \/ kxKnown' = kxKnown
  BY DEF AnswersDialog
<1> DEFINE f == Frame("associate", code, {})
<1>2. f \in KxFrameSet /\ f.action = "associate" /\ f.code = code
  BY <1>1 DEF Frame, KxFrameSet, Asking
<1>3. kxFrames' = [d \in Clients |-> IF d \in to THEN Append(kxFrames[d], f) ELSE kxFrames[d]]
  BY <1>1 DEF Tells
<1>4. to \in SUBSET Clients /\ \A d \in to : kxAt[d] = "associate" /\ kxAssoc[d] = g /\ ~kxBroken[d]
  OBVIOUS
<1> HIDE DEF f, to
<1>5. /\ kxFrames' \in [Clients -> Seq(KxFrameSet)]
      /\ \A d \in Clients : kxAt[d] = "idle" \/ kxBroken[d] => kxFrames'[d] = <<>>
      /\ \A d \in Clients : Among(kxFrames'[d]) = IF d \in to THEN Among(kxFrames[d]) \cup {f} ELSE Among(kxFrames[d])
  <2>1. \A d \in to : kxAt[d] # "idle" /\ ~kxBroken[d]
    BY <1>4
  <2> QED BY <1>2, <1>3, <1>4, <2>1, SentFrames
<1>6. KeePassXCTypeOK'
  <2>1. ServerTypes'
    BY <1>t, <1>0, <1>1 DEF ServerTypes
  <2>2. ClientTypes' /\ KxCounts'
    BY <1>t, <1>0 DEF ClientTypes, KxCounts
  <2>3. WireTypes'
    BY <1>t, <1>0, <1>5 DEF WireTypes
  <2> QED BY <2>1, <2>2, <2>3, TypesStand
<1>p. (\A h : Pending(h)' => Pending(h)) /\ Pending(g) /\ ~Pending(g)'
  <2>1. \A h : Pending(h)' => Pending(h)
    BY <1>0 DEF Pending
  <2>2. Pending(g)
    BY DEF Pending
  <2>3. ~Pending(g)'
    BY <1>t, <1>0 DEF Pending, AskedOnce
  <2> QED BY <2>1, <2>2, <2>3
<1>7. Attended
  <2>1. kxLates <= kxLates'
    BY <1>t, <1>0, KxBounds DEF KxCounts
  <2> QED BY <1>0, <1>5, <1>6, <1>p, <2>1 DEF Attended, KxSound
<1>8. ASSUME NEW d \in Clients PROVE FramesFit(d)'
  <2>1. \A entries : KnownOf(d, entries) => KnownOf(d, entries)'
    BY <1>0, SameEntriesKnown
  <2>2. kxAt[d] = "test" /\ kxAssoc[d] \notin kxKnown => kxAssoc[d] \notin kxKnown'
    BY <1>t, <1>1, <1>p DEF Granted
  <2>3. \A h \in Among(kxFrames[d]) : FrameFits(d, h)'
    BY <1>7, <2>1, <2>2, FrameStays
  <2>4. d \in to => FrameFits(d, f)'
    <3>1. ASSUME d \in to PROVE kxAt'[d] = "associate" /\ kxAssoc'[d] = g
      BY <1>0, <1>4, <3>1
    <3>2. ASSUME d \in to, NEW r \in Among(kxAsked'[d]) PROVE r.action # "associate"
      BY <1>t, <1>0, <1>4, <3>2 DEF AskedFits, AskedOnce
    <3>3. ~Pending(kxAssoc[d])' \/ d \notin to
      BY <1>p, <3>1
    <3> QED BY <1>1, <1>2, <3>1, <3>2, <3>3 DEF FrameFits, Said
  <2>5. \A h \in Among(kxFrames'[d]) : FrameFits(d, h)'
    BY <1>5, <2>3, <2>4
  <2> QED BY <2>5, FramesAre DEF FramesFit, FrameFits
<1>9. AskedOnce'
  BY <1>t, <1>0 DEF AskedOnce
<1> QED BY <1>0, <1>7, <1>8, <1>9, SameEntriesCopies, AttendedStands

LEMMA MeddlesStands ==
    ASSUME KxSound, LocksOrOpens \/ Revokes PROVE KxSound'
<1>t. ClientTypes /\ WireTypes /\ ServerTypes /\ KxCounts /\ AskedOnce
  BY KxTypesAre DEF KxSound
<1>0. /\ UNCHANGED <<kxEntries, kxDialogs, kxLeft, kxFile, kxAsked, kxSeen, kxBlind>>
      /\ UNCHANGED <<kxJob, kxAt, kxBroken, kxAssoc, kxOutcome, kxCalls, kxLates, kxGrants>>
      /\ kxMeddled < MaxMeddling /\ kxMeddled' = kxMeddled + 1
      /\ kxKnown' \subseteq kxKnown
  BY DEF LocksOrOpens, Revokes, kxClient, Meddles
<1> DEFINE f == Frame("announcement", "ok", {})
           to == IF LocksOrOpens THEN {d \in Clients : kxAt[d] # "idle" /\ ~kxBroken[d]} ELSE {}
<1>2. f \in KxFrameSet /\ f.action = "announcement" /\ f.code = "ok"
  BY DEF Frame, KxFrameSet
<1>3. kxFrames' = [d \in Clients |-> IF d \in to THEN Append(kxFrames[d], f) ELSE kxFrames[d]]
  <2>1. CASE LocksOrOpens
    BY <2>1 DEF LocksOrOpens
  <2>2. CASE ~LocksOrOpens
    BY <1>t, <2>2 DEF Revokes, WireTypes
  <2> QED BY <2>1, <2>2
<1>4. to \in SUBSET Clients /\ \A d \in to : kxAt[d] # "idle" /\ ~kxBroken[d]
  OBVIOUS
<1> HIDE DEF f, to
<1>5. /\ kxFrames' \in [Clients -> Seq(KxFrameSet)]
      /\ \A d \in Clients : kxAt[d] = "idle" \/ kxBroken[d] => kxFrames'[d] = <<>>
      /\ \A d \in Clients : Among(kxFrames'[d]) = IF d \in to THEN Among(kxFrames[d]) \cup {f} ELSE Among(kxFrames[d])
  BY <1>2, <1>3, <1>4, SentFrames
<1>6. KeePassXCTypeOK'
  <2>1. ServerTypes'
    BY <1>t, <1>0 DEF ServerTypes, LocksOrOpens, Revokes
  <2>2. ClientTypes' /\ KxCounts'
    BY <1>t, <1>0, KxBounds DEF ClientTypes, KxCounts
  <2>3. WireTypes'
    BY <1>t, <1>0, <1>5 DEF WireTypes
  <2> QED BY <2>1, <2>2, <2>3, TypesStand
<1>7. Attended
  <2>1. kxLates <= kxLates'
    BY <1>t, <1>0, KxBounds DEF KxCounts
  <2>2. \A h : Pending(h)' => Pending(h)
    BY <1>0 DEF Pending
  <2> QED BY <1>0, <1>5, <1>6, <2>1, <2>2 DEF Attended, KxSound
<1>8. ASSUME NEW d \in Clients PROVE FramesFit(d)'
  <2>1. \A entries : KnownOf(d, entries) => KnownOf(d, entries)'
    BY <1>0, SameEntriesKnown
  <2>2. kxAssoc[d] \notin kxKnown => kxAssoc[d] \notin kxKnown'
    BY <1>0
  <2>3. \A h \in Among(kxFrames[d]) : FrameFits(d, h)'
    BY <1>7, <2>1, <2>2, FrameStays
  <2>4. FrameFits(d, f)'
    BY <1>2 DEF FrameFits
  <2>5. \A h \in Among(kxFrames'[d]) : FrameFits(d, h)'
    BY <1>5, <2>3, <2>4
  <2> QED BY <2>5, FramesAre DEF FramesFit, FrameFits
<1>9. AskedOnce'
  BY <1>t, <1>0 DEF AskedOnce
<1> QED BY <1>0, <1>7, <1>8, <1>9, SameEntriesCopies, AttendedStands

(* The request that was answered is gone.                                  *)
LEMMA HeadGone ==
    ASSUME KxSound, NEW c \in Clients, kxAsked[c] # <<>>, kxAsked' = [kxAsked EXCEPT ![c] = Tail(@)]
    PROVE  /\ Head(kxAsked[c]) \in Among(kxAsked[c]) /\ Head(kxAsked[c]) \in KxRequests
           /\ kxAsked' \in [Clients -> Seq(KxRequests)]
           /\ kxAsked'[c] = Tail(kxAsked[c])
           /\ \A d \in Clients \ {c} : kxAsked'[d] = kxAsked[d]
           /\ \A d \in Clients : Among(kxAsked'[d]) \subseteq Among(kxAsked[d])
           /\ Head(kxAsked[c]).action \in {"associate", "set"} => Among(kxAsked'[c]) = {}
<1>t. kxAsked \in [Clients -> Seq(KxRequests)] /\ kxAsked[c] \in Seq(KxRequests) /\ AskedFits(c)
  BY KxTypesAre DEF KxSound, ClientTypes, ClientFits
<1>1. /\ Tail(kxAsked[c]) \in Seq(KxRequests) /\ Head(kxAsked[c]) \in KxRequests
      /\ Head(kxAsked[c]) \in Among(kxAsked[c]) /\ Among(Tail(kxAsked[c])) \subseteq Among(kxAsked[c])
      /\ Len(kxAsked[c]) \in Nat /\ Len(kxAsked[c]) > 0 /\ Head(kxAsked[c]) = kxAsked[c][1]
      /\ Len(Tail(kxAsked[c])) = Len(kxAsked[c]) - 1
  BY <1>t, AmongTail
<1>2. Head(kxAsked[c]).action \in {"associate", "set"} => Len(Tail(kxAsked[c])) = 0
  <2>1. \A i \in 1..Len(kxAsked[c]) : kxAsked[c][i].action \in {"associate", "set"} => i = Len(kxAsked[c])
    BY <1>t DEF AskedFits
  <2>2. 1 \in 1..Len(kxAsked[c])
    BY <1>1
  <2>3. Head(kxAsked[c]).action \in {"associate", "set"} => 1 = Len(kxAsked[c])
    BY <1>1, <2>1, <2>2
  <2> QED BY <1>1, <2>3
<1>3. Head(kxAsked[c]).action \in {"associate", "set"} => Among(Tail(kxAsked[c])) = {}
  BY <1>1, <1>2 DEF Among
<1> QED BY <1>t, <1>1, <1>3

(* What is sent to one client, if it reads still.                          *)
LEMMA AnsweredFrames ==
    ASSUME KxSound, NEW c \in Clients, NEW f \in KxFrameSet, UNCHANGED <<kxAt, kxBroken>>,
           kxAt[c] # "idle", Drops(c, Append(kxFrames[c], f))
    PROVE  /\ kxFrames' \in [Clients -> Seq(KxFrameSet)]
           /\ \A d \in Clients : kxAt[d] = "idle" \/ kxBroken[d] => kxFrames'[d] = <<>>
           /\ \A d \in Clients \ {c} : kxFrames'[d] = kxFrames[d]
           /\ Among(kxFrames'[c]) \subseteq Among(kxFrames[c]) \cup {f}
<1>1. kxFrames \in [Clients -> Seq(KxFrameSet)]
  BY KxTypesAre DEF KxSound, WireTypes
<1>2. Append(kxFrames[c], f) \in Seq(KxFrameSet) /\ Among(Append(kxFrames[c], f)) = Among(kxFrames[c]) \cup {f}
  BY <1>1, AmongAppend
<1>3. \A d \in Clients : kxAt[d] = "idle" \/ kxBroken[d] => kxFrames[d] = <<>>
  BY DEF KxSound, ClientFits, JobFits
<1> DEFINE after == IF kxAt[c] = "idle" \/ kxBroken[c] THEN <<>> ELSE Append(kxFrames[c], f)
<1>4. kxFrames' = [kxFrames EXCEPT ![c] = after]
  BY DEF Drops
<1>5. after \in Seq(KxFrameSet) /\ Among(after) \subseteq Among(kxFrames[c]) \cup {f} /\ (kxBroken[c] => after = <<>>)
  BY <1>2, AmongEmpty
<1> HIDE DEF after
<1>6. kxFrames' \in [Clients -> Seq(KxFrameSet)] /\ kxFrames'[c] = after
      /\ \A d \in Clients \ {c} : kxFrames'[d] = kxFrames[d]
  BY <1>1, <1>4, <1>5
<1> QED BY <1>3, <1>5, <1>6

LEMMA DeclinesStands ==
    ASSUME KxSound, NEW c \in Clients, Declines(c) PROVE KxSound'
<1>t. ClientTypes /\ WireTypes /\ ServerTypes /\ KxCounts /\ AskedOnce /\ JobFits(c) /\ AskedFits(c)
  BY KxTypesAre DEF KxSound, ClientFits
<1>0. /\ UNCHANGED <<kxOpen, kxEntries, kxKnown, kxDialogs, kxLeft, kxFile, kxSeen, kxBlind>>
      /\ UNCHANGED <<kxJob, kxAt, kxBroken, kxAssoc, kxOutcome, kxCalls, kxMeddled, kxGrants>>
      /\ kxLates < MaxLate /\ kxLates' = kxLates + 1
      /\ kxAsked[c] # <<>> /\ kxAsked' = [kxAsked EXCEPT ![c] = Tail(@)]
  BY DEF Declines, kxServer, kxClient
<1>r. PICK r : r = Head(kxAsked[c])
  OBVIOUS
<1>f. PICK f : f = Frame(r.action, "failed", {})
  OBVIOUS
<1>1. /\ r \in Among(kxAsked[c]) /\ r \in KxRequests
      /\ kxAsked' \in [Clients -> Seq(KxRequests)]
      /\ kxAsked'[c] = Tail(kxAsked[c])
      /\ \A d \in Clients \ {c} : kxAsked'[d] = kxAsked[d]
      /\ \A d \in Clients : Among(kxAsked'[d]) \subseteq Among(kxAsked[d])
      /\ r.action \in {"associate", "set"} => Among(kxAsked'[c]) = {}
  BY <1>0, <1>r, HeadGone
<1>2. f \in KxFrameSet /\ f.action = r.action /\ f.code = "failed" /\ Drops(c, Append(kxFrames[c], f))
  BY <1>1, <1>r, <1>f DEF Frame, KxFrameSet, KxRequests, Declines
<1>3. kxAt[c] # "idle"
  BY <1>t, <1>0 DEF JobFits
<1>5. /\ kxFrames' \in [Clients -> Seq(KxFrameSet)]
      /\ \A d \in Clients : kxAt[d] = "idle" \/ kxBroken[d] => kxFrames'[d] = <<>>
      /\ \A d \in Clients \ {c} : kxFrames'[d] = kxFrames[d]
      /\ Among(kxFrames'[c]) \subseteq Among(kxFrames[c]) \cup {f}
  BY <1>0, <1>2, <1>3, AnsweredFrames
<1>n. kxLates' > 0 /\ kxLates <= kxLates' /\ KxCounts'
  BY <1>t, <1>0, KxBounds DEF KxCounts
<1>6. KeePassXCTypeOK'
  <2>1. ServerTypes' /\ ClientTypes'
    BY <1>t, <1>0, <1>1 DEF ServerTypes, ClientTypes
  <2>2. WireTypes'
    BY <1>t, <1>0, <1>5 DEF WireTypes
  <2> QED BY <1>n, <2>1, <2>2, TypesStand
<1>7. Attended
  <2>1. \A h : Pending(h)' => Pending(h)
    BY <1>0, <1>1 DEF Pending
  <2> QED BY <1>0, <1>1, <1>5, <1>6, <1>n, <2>1 DEF Attended, KxSound
<1>8. ASSUME NEW d \in Clients PROVE FramesFit(d)'
  <2>1. \A entries : KnownOf(d, entries) => KnownOf(d, entries)'
    BY <1>0, SameEntriesKnown
  <2>3. \A h \in Among(kxFrames[d]) : FrameFits(d, h)'
    BY <1>0, <1>7, <2>1, FrameStays
  <2>4. FrameFits(c, f)'
    <3>1. f.action \in Said(kxAt[c])
      BY <1>t, <1>1, <1>2 DEF AskedFits
    <3> QED BY <1>0, <1>1, <1>2, <1>n, <3>1 DEF FrameFits
  <2>5. \A h \in Among(kxFrames'[d]) : FrameFits(d, h)'
    <3>1. CASE d = c
      BY <1>5, <2>3, <2>4, <3>1
    <3>2. CASE d # c
      <4>1. kxFrames'[d] = kxFrames[d]
        BY <1>5, <3>2
      <4> QED BY <2>3, <4>1
    <3> QED BY <3>1, <3>2
  <2> QED BY <2>5, FramesAre DEF FramesFit, FrameFits
<1>9. AskedOnce'
  BY <1>t, <1>0, <1>1 DEF AskedOnce
<1> QED BY <1>0, <1>7, <1>8, <1>9, SameEntriesCopies, AttendedStands

LEMMA AnswersNobodyStands ==
    ASSUME KxSound, NEW r \in kxLeft, AnswersNobody(r) PROVE KxSound'
<1>t. ClientTypes /\ WireTypes /\ ServerTypes /\ KxCounts /\ AskedOnce /\ LeftFits /\ r \in KxRequests
  BY KxTypesAre DEF KxSound, ClientTypes
<1>0. /\ UNCHANGED <<kxOpen, kxKnown, kxFile, kxAsked, kxFrames>>
      /\ UNCHANGED <<kxJob, kxAt, kxBroken, kxAssoc, kxOutcome, kxCalls, kxMeddled, kxGrants, kxLates>>
      /\ kxLeft' = kxLeft \ {r}
      /\ Served(r) \/ UNCHANGED <<kxEntries, kxDialogs, kxSeen>>
      /\ kxBlind' = IF r.action = "set" THEN kxBlind \cup {r.login} ELSE kxBlind
  BY DEF AnswersNobody, kxBounds, kxClient
<1>1. /\ r.action = "set" => r.login \in Logins /\ r.secret \in Passphrases
      /\ r.action = "associate" => r.grant \in Grants
  BY <1>t DEF LeftFits
<1>2. /\ kxEntries' \subseteq KxEntries /\ IsFiniteSet(kxEntries')
      /\ \A u : Holds(u) => Holds(u)'
      /\ \A l : Mine(kxEntries, l) = {} => Mine(kxEntries', l) = {} \/ (r.action = "set" /\ r.login = l)
      /\ \A e, f \in kxEntries' : e.login = f.login /\ e.login \notin kxBlind => e = f \/ e.login \in kxBlind'
      /\ kxSeen' \in [Clients -> SUBSET (Passphrases \cup {NoPassphrase})]
      /\ kxDialogs' = kxDialogs \/ (r.action = "associate" /\ kxDialogs' = kxDialogs \cup {r.grant})
  <2>1. CASE Served(r)
    <3>1. kxDialogs' = kxDialogs \/ (r.action = "associate" /\ kxDialogs' = kxDialogs \cup {r.grant})
      BY <2>1 DEF Served, Raises
    <3> QED BY <1>t, <1>0, <1>1, <2>1, <3>1, ServedIs, ServedIsSeen
  <2>2. CASE UNCHANGED <<kxEntries, kxDialogs, kxSeen>>
    BY <1>t, <2>2 DEF KxSound, NoCopies, Holds, ServerTypes, ClientTypes
  <2> QED BY <1>0, <2>1, <2>2
<1>6. KeePassXCTypeOK'
  <2>1. ServerTypes'
    BY <1>t, <1>0, <1>1, <1>2 DEF ServerTypes
  <2>2. ClientTypes'
    BY <1>t, <1>0, <1>1, <1>2 DEF ClientTypes
  <2>3. WireTypes' /\ KxCounts'
    BY <1>t, <1>0 DEF WireTypes, KxCounts
  <2> QED BY <2>1, <2>2, <2>3, TypesStand
<1>7. Attended
  <2>1. \A h : Pending(h)' => Pending(h)
    BY <1>0, <1>2 DEF Pending
  <2>2. kxLates <= kxLates'
    BY <1>t, <1>0, KxBounds DEF KxCounts
  <2>3. \A d \in Clients : kxAt[d] = "idle" \/ kxBroken[d] => kxFrames'[d] = <<>>
    BY <1>0 DEF KxSound, ClientFits, JobFits
  <2> QED BY <1>0, <1>2, <1>6, <2>1, <2>2, <2>3 DEF Attended
<1>k. \A d \in Clients : r.action = "set" /\ SavesAlone(d)' => r.login # kxJob[d].login
  BY <1>0 DEF SavesAlone
<1>8. ASSUME NEW d \in Clients PROVE FramesFit(d)'
  <2>1. CASE Served(r) /\ kxAt[d] # "idle"
    <3>1. \A entries : KnownOf(d, entries) => KnownOf(d, entries)'
      BY <1>t, <1>0, <1>1, <1>k, <2>1, ServedKeepsKnown
    <3>2. \A h \in Among(kxFrames[d]) : FrameFits(d, h)'
      BY <1>0, <1>7, <3>1, FrameStays
    <3> QED BY <1>0, <3>2, FramesAre DEF FramesFit, FrameFits
  <2>2. CASE kxAt[d] = "idle"
    <3>1. kxFrames'[d] = <<>>
      BY <1>7, <2>2 DEF Attended
    <3> QED BY <3>1, AmongEmpty DEF FramesFit
  <2>3. CASE UNCHANGED <<kxEntries, kxDialogs, kxSeen>>
    <3>1. \A entries : KnownOf(d, entries) => KnownOf(d, entries)'
      BY <1>0, <2>3, SameEntriesKnown
    <3>2. \A h \in Among(kxFrames[d]) : FrameFits(d, h)'
      BY <1>0, <1>7, <3>1, FrameStays
    <3> QED BY <1>0, <3>2, FramesAre DEF FramesFit, FrameFits
  <2> QED BY <1>0, <2>1, <2>2, <2>3
<1>9. AskedOnce'
  <2>1. kxLeft' \subseteq kxLeft /\ kxAsked' = kxAsked /\ r \notin kxLeft'
    BY <1>0
  <2>2. ASSUME NEW s \in kxLeft', s.action = "associate" PROVE s.grant \notin kxDialogs'
    BY <1>t, <1>2, <2>1, <2>2 DEF AskedOnce
  <2>3. ASSUME NEW d \in Clients, NEW s \in Among(kxAsked[d]), s.action = "associate" PROVE s.grant \notin kxDialogs'
    BY <1>t, <1>2, <2>3 DEF AskedOnce
  <2> QED BY <1>t, <1>0, <2>1, <2>2, <2>3 DEF AskedOnce
<1>10. NoCopies'
  BY <1>0, <1>2 DEF NoCopies
<1>11. ASSUME NEW d \in Clients PROVE SavesOver(d)'
  <2>1. SavesOver(d)
    BY DEF KxSound, ClientFits
  <2>2. ASSUME SavesAlone(d)', NEW q \in Among(kxAsked[d]), q.action = "set"
        PROVE  Holds(q.uuid)' \/ Mine(kxEntries', kxJob[d].login) = {}
    <3>1. SavesAlone(d)
      BY <1>0, <2>2 DEF SavesAlone, Storing
    <3>2. Holds(q.uuid) \/ Mine(kxEntries, kxJob[d].login) = {}
      BY <2>1, <2>2, <3>1 DEF SavesOver
    <3> QED BY <1>2, <1>k, <2>2, <3>2
  <2> QED BY <1>0, <2>2 DEF SavesOver, Mine
<1> QED BY <1>7, <1>8, <1>9, <1>10, <1>11, AttendedStands

LEMMA AnswersStands ==
    ASSUME KxSound, NEW c \in Clients, Answers(c) PROVE KxSound'
<1>t. /\ ClientTypes /\ WireTypes /\ ServerTypes /\ KxCounts /\ AskedOnce /\ OneSaves
      /\ \A d \in Clients : JobFits(d) /\ AskedFits(d) /\ SavesOver(d)
  BY KxTypesAre DEF KxSound, ClientFits
<1>0. /\ UNCHANGED <<kxOpen, kxKnown, kxLeft, kxFile, kxBlind>>
      /\ UNCHANGED <<kxJob, kxAt, kxBroken, kxAssoc, kxOutcome, kxCalls, kxMeddled, kxGrants, kxLates>>
      /\ kxAsked[c] # <<>> /\ kxAsked' = [kxAsked EXCEPT ![c] = Tail(@)]
  BY DEF Answers, kxClient, kxBounds
<1>r. PICK r : r = Head(kxAsked[c])
  OBVIOUS
<1>1. /\ r \in Among(kxAsked[c]) /\ r \in KxRequests
      /\ kxAsked' \in [Clients -> Seq(KxRequests)]
      /\ kxAsked'[c] = Tail(kxAsked[c])
      /\ \A d \in Clients \ {c} : kxAsked'[d] = kxAsked[d]
      /\ \A d \in Clients : Among(kxAsked'[d]) \subseteq Among(kxAsked[d])
      /\ r.action \in {"associate", "set"} => Among(kxAsked'[c]) = {}
  BY <1>0, <1>r, HeadGone
<1>f. PICK f : f = Frame(r.action, Code(r), IF r.action = "get" THEN kxEntries ELSE {})
  OBVIOUS
<1>2. /\ Served(r)
      /\ \/ Raises(r) /\ UNCHANGED kxFrames
         \/ ~Raises(r) /\ Drops(c, Append(kxFrames[c], f))
  BY <1>r, <1>f DEF Answers
<1>3. kxAt[c] # "idle" /\ r.action \in Said(kxAt[c]) /\ kxJob[c].login \in Logins
  BY <1>t, <1>0, <1>1 DEF JobFits, AskedFits
<1>4. /\ r.action = "set" => /\ r.login = kxJob[c].login /\ r.login \in Logins /\ r.secret \in Passphrases
                             /\ kxAt[c] = "set" /\ Storing(c)
      /\ r.action = "associate" => kxAt[c] = "associate" /\ r.grant = kxAssoc[c] /\ r.grant \in Grants
  <2>1. /\ r.action = "set" => r.login = kxJob[c].login /\ r.secret \in Passphrases
        /\ r.action = "associate" => kxAt[c] = "associate" /\ r.grant = kxAssoc[c]
    BY <1>t, <1>1 DEF AskedFits
  <2>2. JobFits(c) /\ kxAt[c] \in KxSteps
    BY <1>t DEF ClientTypes
  <2>3. r.action = "set" => kxAt[c] = "set"
    BY <1>3, <2>2 DEF Said, KxSteps, Asking
  <2> QED BY <1>3, <2>1, <2>2, <2>3 DEF JobFits
<1>5. /\ kxEntries' \subseteq KxEntries /\ IsFiniteSet(kxEntries')
      /\ \A u : Holds(u) => Holds(u)'
      /\ \A l : Mine(kxEntries, l) = {} => Mine(kxEntries', l) = {} \/ (r.action = "set" /\ r.login = l)
      /\ \A d, e \in kxEntries' : d.login = e.login /\ d.login \notin kxBlind =>
           \/ d = e
           \/ r.action = "set" /\ ~Holds(r.uuid) /\ d.login = r.login /\ Mine(kxEntries, r.login) # {}
  BY <1>1, <1>2, <1>4, ServedIs
<1>s. /\ kxSeen' \in [Clients -> SUBSET (Passphrases \cup {NoPassphrase})]
      /\ \A d \in Clients : kxAt[d] # "idle" =>
           kxSeen[d] \subseteq kxSeen'[d] /\ SecretsOf(kxEntries', kxJob[d].login) \subseteq kxSeen'[d]
  BY <1>1, <1>2, <1>5, ServedIsSeen
<1>6. kxDialogs' = IF Raises(r) THEN kxDialogs \cup {r.grant} ELSE kxDialogs
  BY <1>2 DEF Served
<1>7. /\ f \in KxFrameSet /\ f.action = r.action /\ f.code = Code(r)
      /\ f.entries = IF r.action = "get" THEN kxEntries ELSE {}
  <2>1. Code(r) \in {"ok", "locked", "refused", "no_logins"}
    BY DEF Code
  <2>2. kxEntries \subseteq KxEntries
    BY <1>t DEF ServerTypes
  <2> QED BY <1>1, <1>f, <2>1, <2>2 DEF Frame, KxFrameSet, KxRequests
<1>8. /\ kxFrames' \in [Clients -> Seq(KxFrameSet)]
      /\ \A d \in Clients : kxAt[d] = "idle" \/ kxBroken[d] => kxFrames'[d] = <<>>
      /\ \A d \in Clients \ {c} : kxFrames'[d] = kxFrames[d]
      /\ Among(kxFrames'[c]) \subseteq IF Raises(r) THEN Among(kxFrames[c]) ELSE Among(kxFrames[c]) \cup {f}
  <2>1. CASE Raises(r) /\ UNCHANGED kxFrames
    BY <1>t, <2>1 DEF WireTypes, JobFits
  <2>2. CASE ~Raises(r) /\ Drops(c, Append(kxFrames[c], f))
    BY <1>0, <1>3, <1>7, <2>2, AnsweredFrames
  <2> QED BY <1>2, <2>1, <2>2
<1>9. KeePassXCTypeOK'
  <2>1. ServerTypes'
    BY <1>t, <1>0, <1>4, <1>5, <1>6 DEF ServerTypes, Raises
  <2>2. ClientTypes'
    BY <1>t, <1>0, <1>1, <1>s DEF ClientTypes
  <2>3. WireTypes' /\ KxCounts'
    BY <1>t, <1>0, <1>8 DEF WireTypes, KxCounts
  <2> QED BY <2>1, <2>2, <2>3, TypesStand
<1>10. Attended
  <2>1. \A h : Pending(h)' => Pending(h)
    BY <1>0, <1>1, <1>6 DEF Pending, Raises
  <2>2. kxLates <= kxLates'
    BY <1>t, <1>0, KxBounds DEF KxCounts
  <2> QED BY <1>0, <1>1, <1>5, <1>8, <1>9, <2>1, <2>2 DEF Attended
<1>k. \A d \in Clients : r.action = "set" /\ SavesAlone(d) /\ r.login = kxJob[d].login => d = c
  BY <1>t, <1>4 DEF OneSaves
<1>11. ASSUME NEW d \in Clients PROVE FramesFit(d)'
  <2>1. CASE kxAt[d] = "idle"
    <3>1. kxFrames'[d] = <<>>
      BY <1>8, <2>1
    <3> QED BY <3>1, AmongEmpty DEF FramesFit
  <2>2. CASE kxAt[d] # "idle"
    <3>1. r.action = "set" /\ SavesAlone(d)' /\ kxAt[d] = "get" => r.login # kxJob[d].login
      BY <1>0, <1>4, <1>k DEF SavesAlone, Storing
    <3>2. \A entries : KnownOf(d, entries) => KnownOf(d, entries)'
      BY <1>0, <1>1, <1>2, <1>4, <2>2, <3>1, ServedKeepsKnown
    <3>3. \A h \in Among(kxFrames[d]) : FrameFits(d, h)'
      BY <1>0, <1>10, <3>2, FrameStays
    <3>4. d = c /\ ~Raises(r) => FrameFits(c, f)'
      <4> SUFFICES ASSUME d = c, ~Raises(r) PROVE FrameFits(c, f)'
        OBVIOUS
      <4>1. r.action \in {"get", "keys", "test", "associate"} => kxEntries' = kxEntries
        BY <1>2 DEF Served, SetsLogin
      <4>2. SecretsOf(kxEntries', kxJob[c].login) \subseteq kxSeen'[c]
        BY <1>s, <1>3
      <4>3. f.code = "no_logins" => f.action = "get" /\ kxEntries = {}
        BY <1>7 DEF Code
      <4>4. f.action = "get" => KnownOf(c, kxEntries)'
        BY <1>0, <1>7, <4>2 DEF KnownOf, Holds
      <4>5. f.code = "no_logins" => KnownOf(c, {})'
        <5>1. ASSUME f.code = "no_logins" PROVE KnownOf(c, {})'
          <6>1. kxEntries' = {}
            BY <1>7, <4>1, <4>3, <5>1
          <6> QED BY <1>0, <4>2, <6>1 DEF KnownOf, Mine
        <5> QED BY <5>1
      <4>6. f.action = "get" => KnownOf(c, f.entries)'
        <5>1. ASSUME f.action = "get" PROVE KnownOf(c, f.entries)'
          <6>1. f.entries = kxEntries'
            BY <1>7, <4>1, <5>1
          <6> QED BY <4>4, <5>1, <6>1 DEF KnownOf
        <5> QED BY <5>1
      <4>7. f.code # "failed"
        BY <1>7 DEF Code
      <4>8. f.action = "test" /\ f.code = "refused" /\ kxAt[c] = "test" => kxAssoc[c] \notin kxKnown
        BY <1>t, <1>1, <1>7 DEF Code, AskedFits
      <4>9. f.action = "associate" => f.code # "ok" /\ \A q \in Among(kxAsked'[c]) : q.action # "associate"
        BY <1>1, <1>7 DEF Code, Raises
      <4> QED BY <1>0, <1>3, <1>7, <4>3, <4>5, <4>6, <4>7, <4>8, <4>9 DEF FrameFits
    <3>5. \A h \in Among(kxFrames'[d]) : FrameFits(d, h)'
      <4>1. CASE d = c
        BY <1>8, <3>3, <3>4, <4>1
      <4>2. CASE d # c
        <5>1. kxFrames'[d] = kxFrames[d]
          BY <1>8, <4>2
        <5> QED BY <3>3, <5>1
      <4> QED BY <4>1, <4>2
    <3> QED BY <3>5, FramesAre DEF FramesFit, FrameFits
  <2> QED BY <2>1, <2>2
<1>12. AskedOnce'
  <2>1. CASE Raises(r)
    <3>1. r.action = "associate" /\ kxDialogs' = kxDialogs \cup {r.grant} /\ Among(kxAsked'[c]) = {}
      BY <1>1, <1>6, <2>1 DEF Raises
    <3>2. ASSUME NEW s \in kxLeft, s.action = "associate" PROVE s.grant \notin kxDialogs'
      BY <1>t, <1>1, <3>1, <3>2 DEF AskedOnce
    <3>3. ASSUME NEW d \in Clients, NEW s \in Among(kxAsked'[d]), s.action = "associate" PROVE s.grant \notin kxDialogs'
      <4>1. d # c /\ s \in Among(kxAsked[d])
        BY <1>1, <3>1
      <4>2. kxAt[d] = "associate" /\ s.grant = kxAssoc[d]
        BY <1>t, <3>3, <4>1 DEF AskedFits
      <4>3. s.grant # r.grant
        BY <1>t, <1>4, <3>1, <4>1, <4>2 DEF AskedOnce
      <4> QED BY <1>t, <3>1, <3>3, <4>1, <4>3 DEF AskedOnce
    <3> QED BY <1>t, <1>0, <1>1, <3>2, <3>3 DEF AskedOnce
  <2>2. CASE ~Raises(r)
    <3>1. kxDialogs' = kxDialogs
      BY <1>6, <2>2
    <3> QED BY <1>t, <1>0, <1>1, <3>1 DEF AskedOnce
  <2> QED BY <2>1, <2>2
<1>13. NoCopies'
  <2>1. ASSUME r.action = "set", r.login \notin kxBlind, ~Holds(r.uuid), Mine(kxEntries, r.login) # {} PROVE FALSE
    <3>1. SavesAlone(c) /\ SavesOver(c)
      BY <1>t, <1>4, <2>1 DEF SavesAlone
    <3> QED BY <1>1, <1>4, <2>1, <3>1 DEF SavesOver
  <2> QED BY <1>0, <1>5, <2>1 DEF NoCopies
<1>14. ASSUME NEW d \in Clients PROVE SavesOver(d)'
  <2>2. ASSUME SavesAlone(d)', NEW q \in Among(kxAsked'[d]), q.action = "set"
        PROVE  Holds(q.uuid)' \/ Mine(kxEntries', kxJob[d].login) = {}
    <3>1. SavesAlone(d) /\ q \in Among(kxAsked[d])
      BY <1>0, <1>1, <2>2 DEF SavesAlone, Storing
    <3>2. Holds(q.uuid) \/ Mine(kxEntries, kxJob[d].login) = {}
      BY <1>t, <2>2, <3>1 DEF SavesOver
    <3>3. ~(r.action = "set" /\ r.login = kxJob[d].login)
      BY <1>1, <1>k, <2>2, <3>1
    <3> QED BY <1>5, <3>2, <3>3
  <2> QED BY <1>0, <2>2 DEF SavesOver, Mine
<1> QED BY <1>10, <1>11, <1>12, <1>13, <1>14, AttendedStands

(* Nothing changed but what a caller was told.                             *)
LEMMA QuietStands ==
    ASSUME KxSound, kxOutcome' \in [Clients -> KxOutcomes],
           UNCHANGED <<kxOpen, kxEntries, kxKnown, kxDialogs, kxLeft, kxFile, kxJob, kxAt, kxBroken, kxAssoc>>,
           UNCHANGED <<kxAsked, kxFrames, kxCalls, kxLates, kxMeddled, kxGrants, kxSeen, kxBlind>>
    PROVE  KxSound'
<1>t. ClientTypes /\ WireTypes /\ ServerTypes /\ KxCounts /\ AskedOnce
  BY KxTypesAre DEF KxSound
<1>0. /\ UNCHANGED <<kxOpen, kxEntries, kxKnown, kxDialogs, kxLeft, kxFile, kxJob, kxAt, kxBroken, kxAssoc>>
      /\ UNCHANGED <<kxAsked, kxFrames, kxCalls, kxLates, kxMeddled, kxGrants, kxSeen, kxBlind>>
  OBVIOUS
<1>6. KeePassXCTypeOK'
  <2>1. ServerTypes' /\ WireTypes' /\ KxCounts'
    BY <1>t, <1>0 DEF ServerTypes, WireTypes, KxCounts
  <2>2. ClientTypes'
    BY <1>t, <1>0 DEF ClientTypes
  <2> QED BY <2>1, <2>2, TypesStand
<1>7. Attended
  <2>1. kxLates <= kxLates'
    BY <1>t, <1>0, KxBounds DEF KxCounts
  <2>2. \A h : Pending(h)' => Pending(h)
    BY <1>0 DEF Pending
  <2>3. \A d \in Clients : kxAt[d] = "idle" \/ kxBroken[d] => kxFrames'[d] = <<>>
    BY <1>0 DEF KxSound, ClientFits, JobFits
  <2> QED BY <1>0, <1>6, <2>1, <2>2, <2>3 DEF Attended, KxSound
<1>8. ASSUME NEW d \in Clients PROVE FramesFit(d)'
  <2>1. \A entries : KnownOf(d, entries) => KnownOf(d, entries)'
    BY <1>0, SameEntriesKnown
  <2>3. \A h \in Among(kxFrames[d]) : FrameFits(d, h)'
    BY <1>0, <1>7, <2>1, FrameStays
  <2> QED BY <1>0, <2>3, FramesAre DEF FramesFit, FrameFits
<1>9. AskedOnce'
  BY <1>t, <1>0 DEF AskedOnce
<1> QED BY <1>0, <1>7, <1>8, <1>9, SameEntriesCopies, AttendedStands

LEMMA NotRunningStands ==
    ASSUME KxSound, NEW c \in Clients, NotRunning(c) PROVE KxSound'
<1>1. kxOutcome \in [Clients -> KxOutcomes]
  BY KxTypesAre DEF KxSound, ClientTypes
<1>2. kxOutcome' \in [Clients -> KxOutcomes]
  BY <1>1 DEF NotRunning, KxOutcomes
<1> QED BY <1>2, QuietStands DEF NotRunning, kxServer, kxBounds

LEMMA RestStands ==
    ASSUME KxSound, UNCHANGED kxVars PROVE KxSound'
<1>1. kxOutcome \in [Clients -> KxOutcomes]
  BY KxTypesAre DEF KxSound, ClientTypes
<1> QED BY <1>1, QuietStands DEF kxVars, kxServer, kxBounds, kxClient

(* One that begins.                                                        *)
LEMMA ConnectsStands ==
    ASSUME KxSound, NEW c \in Clients, NEW login \in Logins, NEW op \in {"lookup", "store"},
           NEW secret \in Passphrases \cup {NoPassphrase}, op = "store" => secret \in Passphrases,
           Connects(c, op, login, secret)
    PROVE  KxSound'
<1>t. /\ ClientTypes /\ WireTypes /\ ServerTypes /\ KxCounts /\ AskedOnce /\ OneSaves /\ Issued /\ Granted
      /\ \A d \in Clients : JobFits(d) /\ AskedFits(d) /\ SavesOver(d) /\ FramesFit(d)
  BY KxTypesAre DEF KxSound, ClientFits
<1>k. PICK r : r = [KxNoRequest EXCEPT !.action = "keys"]
  OBVIOUS
<1>0. /\ UNCHANGED <<kxOpen, kxEntries, kxKnown, kxDialogs, kxLeft, kxFile, kxLates, kxMeddled, kxGrants>>
      /\ kxAt[c] = "idle" /\ kxCalls < MaxCalls /\ kxCalls' = kxCalls + 1
      /\ kxJob' = [kxJob EXCEPT ![c] = [op |-> op, login |-> login, secret |-> secret]]
      /\ kxAt' = [kxAt EXCEPT ![c] = "keys"]
      /\ kxAsked' = [kxAsked EXCEPT ![c] = <<r>>]
      /\ kxFrames' = [kxFrames EXCEPT ![c] = <<>>]
      /\ kxBroken' = [kxBroken EXCEPT ![c] = FALSE]
      /\ kxOutcome' = [kxOutcome EXCEPT ![c] = "none"]
      /\ kxAssoc' = [kxAssoc EXCEPT ![c] = NoGrant]
      /\ kxSeen' = [kxSeen EXCEPT ![c] = SecretsOf(kxEntries, login)]
      /\ kxBlind' = IF op = "store" /\ \E d \in Clients : Storing(d) /\ kxJob[d].login = login
                    THEN kxBlind \cup {login} ELSE kxBlind
  BY <1>k DEF Connects, kxServer
<1>1. r \in KxRequests /\ r.action = "keys"
  BY <1>k DEF KxNoRequest, KxRequests, Asking
<1>2. /\ kxJob'[c] = [op |-> op, login |-> login, secret |-> secret] /\ kxAt'[c] = "keys" /\ kxAsked'[c] = <<r>>
      /\ kxFrames'[c] = <<>> /\ ~kxBroken'[c] /\ kxAssoc'[c] = NoGrant
      /\ Among(kxAsked'[c]) = {r} /\ Among(kxAsked[c]) = {}
      /\ \A d \in Clients \ {c} :
           /\ kxJob'[d] = kxJob[d] /\ kxAt'[d] = kxAt[d] /\ kxAsked'[d] = kxAsked[d] /\ kxFrames'[d] = kxFrames[d]
           /\ kxBroken'[d] = kxBroken[d] /\ kxAssoc'[d] = kxAssoc[d] /\ kxSeen'[d] = kxSeen[d]
  <2>1. kxAsked[c] = <<>>
    BY <1>t, <1>0 DEF JobFits
  <2>2. kxBroken'[c] = FALSE /\ \A d \in Clients \ {c} : kxBroken'[d] = kxBroken[d]
    BY <1>t, <1>0, Zenon DEF WireTypes
  <2> QED BY <1>t, <1>0, <2>1, <2>2, AmongEmpty, AmongOne DEF ClientTypes, WireTypes
<1>3. kxBlind \subseteq kxBlind'
  BY <1>0
<1>4. KeePassXCTypeOK'
  <2>1. ServerTypes' /\ KxCounts'
    BY <1>t, <1>0, KxBounds DEF ServerTypes, KxCounts
  <2>2. kxFrames' \in [Clients -> Seq(KxFrameSet)]
    BY <1>t, <1>0 DEF WireTypes
  <2>3. kxBroken' \in [Clients -> BOOLEAN]
    BY <1>t, <1>0, Zenon DEF WireTypes
  <2>4. <<r>> \in Seq(KxRequests)
    BY <1>1
  <2>5. SecretsOf(kxEntries, login) \subseteq Passphrases \cup {NoPassphrase}
    BY <1>t DEF ServerTypes, SecretsOf, KxEntries
  <2>6. kxJob' \in [Clients -> KxJobs] /\ kxAt' \in [Clients -> KxSteps]
    BY <1>t, <1>0 DEF ClientTypes, KxJobs, KxSteps, Asking
  <2>7. kxAsked' \in [Clients -> Seq(KxRequests)] /\ kxOutcome' \in [Clients -> KxOutcomes]
        /\ kxAssoc' \in [Clients -> Grants \cup {NoGrant}]
    BY <1>t, <1>0, <2>4 DEF ClientTypes, KxOutcomes
  <2>8. kxSeen' \in [Clients -> SUBSET (Passphrases \cup {NoPassphrase})] /\ kxBlind' \subseteq Logins
    BY <1>t, <1>0, <2>5 DEF ClientTypes
  <2>9. ClientTypes'
    BY <1>t, <1>0, <2>6, <2>7, <2>8 DEF ClientTypes
  <2> QED BY <2>1, <2>2, <2>3, <2>9, TypesStand DEF WireTypes
<1>p. \A g : Pending(g)' => Pending(g)
  BY <1>0, <1>1, <1>2 DEF Pending
<1>5. ASSUME NEW d \in Clients PROVE ClientFits(d)'
  <2>1. CASE d = c
    <3>1. JobFits(c)'
      BY <1>2 DEF JobFits, Storing
    <3>2. AskedFits(c)'
      BY <1>1, <1>2 DEF AskedFits, Said
    <3>3. FramesFit(c)'
      BY <1>2, AmongEmpty DEF FramesFit
    <3>4. SavesOver(c)'
      BY <1>1, <1>2 DEF SavesOver
    <3> QED BY <2>1, <3>1, <3>2, <3>3, <3>4 DEF ClientFits
  <2>2. CASE d # c
    <3>1. JobFits(d)'
      BY <1>t, <1>0, <1>2, <2>2 DEF JobFits, Storing
    <3>2. AskedFits(d)'
      BY <1>t, <1>2, <2>2 DEF AskedFits
    <3>3. SavesOver(d)'
      BY <1>t, <1>0, <1>2, <1>3, <2>2 DEF SavesOver, SavesAlone, Storing, Holds, Mine
    <3>4. \A entries : KnownOf(d, entries) => KnownOf(d, entries)'
      BY <1>0, <1>2, <1>3, <2>2 DEF KnownOf, SavesAlone, Storing, Holds, Mine, SecretsOf
    <3>5. ~Pending(kxAssoc[d]) => ~Pending(kxAssoc[d])'
      BY <1>2, <1>p, <2>2
    <3>6. FramesFit(d)'
      BY <1>t, <1>0, <1>2, <2>2, <3>4, <3>5 DEF FramesFit
    <3> QED BY <3>1, <3>2, <3>3, <3>6 DEF ClientFits
  <2> QED BY <2>1, <2>2
<1>6. OneSaves'
  <2>1. ASSUME NEW d \in Clients, NEW e \in Clients, SavesAlone(d)', Storing(e)', kxJob'[d].login = kxJob'[e].login
        PROVE  d = e
    <3>1. ASSUME NEW a \in Clients, Storing(a), kxJob[a].login = login, op = "store" PROVE login \in kxBlind'
      BY <1>0, <3>1
    <3>2. d # c /\ e # c => d = e
      BY <1>t, <1>2, <1>3, <2>1 DEF OneSaves, SavesAlone, Storing
    <3>3. d = c /\ e # c => FALSE
      BY <1>2, <2>1, <3>1 DEF SavesAlone, Storing
    <3>4. d # c /\ e = c => FALSE
      BY <1>2, <2>1, <3>1 DEF SavesAlone, Storing
    <3> QED BY <3>2, <3>3, <3>4
  <2> QED BY <2>1 DEF OneSaves
<1>7. LeftFits' /\ NoCopies' /\ IsFiniteSet(kxEntries')
  BY <1>0, <1>3 DEF KxSound, LeftFits, NoCopies
<1>8. Issued' /\ Granted'
  <2>1. \A g \in Grants : Pending(g)' \/ kxFile' = g => g <= kxGrants'
    BY <1>t, <1>0, <1>p DEF Issued
  <2>2. \A d \in Clients : kxAssoc'[d] <= kxGrants'
    BY <1>t, <1>0, <1>2 DEF Issued, NoGrant, ClientTypes
  <2>3. kxFile' \in Grants => ~Pending(kxFile)'
    BY <1>t, <1>0, <1>p DEF Granted
  <2>4. \A d \in Clients : kxAt'[d] \in {"test", "save", "saving"} => ~Pending(kxAssoc[d])'
    BY <1>t, <1>2, <1>p DEF Granted
  <2> QED BY <2>1, <2>2, <2>3, <2>4 DEF Issued, Granted
<1>9. AskedOnce'
  <2>1. \A d \in Clients : \A q \in Among(kxAsked'[d]) : q.action = "associate" => q \in Among(kxAsked[d])
    BY <1>1, <1>2
  <2>2. \A d \in Clients : kxAt'[d] = "associate" => kxAt[d] = "associate" /\ kxAssoc'[d] = kxAssoc[d]
    BY <1>2
  <2> QED BY <1>t, <1>0, <2>1, <2>2 DEF AskedOnce
<1> QED BY <1>4, <1>5, <1>6, <1>7, <1>8, <1>9 DEF KxSound

-----------------------------------------------------------------------------
LEMMA InitKx == KeePassXCInit => KxSound
<1> SUFFICES ASSUME KeePassXCInit PROVE KxSound
  OBVIOUS
<1>0. /\ kxEntries = {} /\ kxKnown = {} /\ kxDialogs = {} /\ kxLeft = {} /\ kxFile = NoGrant /\ kxBlind = {}
      /\ \A c \in Clients : /\ kxJob[c] = KxIdle /\ kxAt[c] = "idle" /\ kxAsked[c] = <<>> /\ kxFrames[c] = <<>>
                            /\ ~kxBroken[c] /\ kxAssoc[c] = 0
      /\ kxCalls = 0 /\ kxLates = 0 /\ kxMeddled = 0 /\ kxGrants = 0
  BY DEF KeePassXCInit, NoGrant
<1>1. KeePassXCTypeOK
  <2>1. ServerTypes /\ KxCounts
    BY KxBounds DEF KeePassXCInit, ServerTypes, KxCounts
  <2>2. WireTypes
    BY DEF KeePassXCInit, WireTypes
  <2>3. ClientTypes
    <3>1. kxJob \in [Clients -> KxJobs] /\ kxAt \in [Clients -> KxSteps]
      BY DEF KeePassXCInit, KxJobs, KxIdle, KxSteps
    <3>2. kxOutcome \in [Clients -> KxOutcomes] /\ kxGrants \in 0..MaxGrants
      BY KxBounds DEF KeePassXCInit, KxOutcomes
    <3> QED BY <3>1, <3>2 DEF KeePassXCInit, ClientTypes
  <2> QED BY <2>1, <2>2, <2>3, KxTypesAre
<1>2. \A c \in Clients : Among(kxAsked[c]) = {} /\ Among(kxFrames[c]) = {} /\ Len(kxAsked[c]) = 0
  BY <1>0, AmongEmpty
<1>3. \A g : ~Pending(g)
  BY <1>0, <1>2 DEF Pending
<1>4. ASSUME NEW c \in Clients PROVE ClientFits(c)
  <2>1. JobFits(c)
    BY <1>0 DEF JobFits, Storing, KxIdle
  <2>2. AskedFits(c)
    <3>1. \A i \in 1..Len(kxAsked[c]) : FALSE
      BY <1>2
    <3> QED BY <1>2, <3>1 DEF AskedFits
  <2>3. FramesFit(c) /\ SavesOver(c)
    BY <1>2 DEF FramesFit, SavesOver
  <2> QED BY <2>1, <2>2, <2>3 DEF ClientFits
<1>5. LeftFits /\ OneSaves /\ NoCopies
  BY <1>0 DEF LeftFits, OneSaves, NoCopies, SavesAlone, Storing, KxIdle
<1>6. Issued /\ AskedOnce /\ Granted
  BY <1>0, <1>2, <1>3 DEF Issued, AskedOnce, Granted, NoGrant, Grants
<1> QED BY <1>0, <1>1, <1>4, <1>5, <1>6, FS_EmptySet DEF KxSound

(* The two promises that a step of a client is measured by.                *)
ToldTrue ==
  \A c \in Clients :
    kxAt[c] = "get" /\ kxAt'[c] = "idle" /\ kxOutcome'[c] \in Passphrases \cup {NoPassphrase}
      => kxOutcome'[c] \in kxSeen[c]
AskedWithout ==
  \A c \in Clients :
    kxAt[c] # "associate" /\ kxAt'[c] = "associate"
      => kxLates' > 0 \/ kxFile = NoGrant \/ kxAssoc[c] \notin kxKnown

LEMMA TurnKeepsPromises ==
    ASSUME KxSound, NEW c \in Clients, Turned(c) PROVE ToldTrue /\ AskedWithout
<1>1. \A d \in Clients \ {c} : kxAt'[d] = kxAt[d]
  BY DEF Turned, Turns, OthersRest
<1>2. kxAt[c] = "get" /\ kxAt'[c] = "idle" => kxOutcome'[c] \in {"none", "ok", "error"} \cup kxSeen[c]
  BY DEF Turned, Turns, ComesToEnd, ComesToAsk, AsksWith, Tests, AsksLeave, Gets, Sets, ComesToSave, Rests
<1>3. kxAt[c] # "associate" /\ kxAt'[c] = "associate"
        => kxLates' > 0 \/ kxFile = NoGrant \/ kxAssoc[c] \notin kxKnown
  BY DEF Turned, Turns, ComesToEnd, ComesToAsk, AsksWith, Tests, AsksLeave, Gets, Sets, ComesToSave, Rests
<1>4. ToldTrue
  BY <1>1, <1>2, KxBounds DEF ToldTrue
<1>5. AskedWithout
  BY <1>1, <1>3 DEF AskedWithout
<1> QED BY <1>4, <1>5

LEMMA StepKx == KxSound /\ KeePassXCNext => KxSound' /\ ToldTrue /\ AskedWithout
<1> SUFFICES ASSUME KxSound, KeePassXCNext PROVE KxSound' /\ ToldTrue /\ AskedWithout
  OBVIOUS
<1>t. KeePassXCTypeOK /\ kxAt \in [Clients -> KxSteps] /\ \A c \in Clients : JobFits(c) /\ FramesFit(c)
  BY KxTypesAre DEF KxSound, ClientTypes, ClientFits
<1>q. UNCHANGED kxAt => ToldTrue /\ AskedWithout
  BY DEF ToldTrue, AskedWithout
<1>1. ASSUME NEW c \in Clients, \/ \E login \in Logins : Connects(c, "lookup", login, NoPassphrase)
                                \/ \E login \in Logins, secret \in Passphrases : Connects(c, "store", login, secret)
      PROVE  KxSound' /\ ToldTrue /\ AskedWithout
  <2>1. KxSound'
    BY <1>1, ConnectsStands
  <2>2. kxAt[c] = "idle" /\ kxAt' = [kxAt EXCEPT ![c] = "keys"]
    BY <1>1 DEF Connects
  <2> QED BY <1>t, <2>1, <2>2 DEF ToldTrue, AskedWithout
<1>2. ASSUME NEW c \in Clients, Reads(c) \/ TimesOut(c) \/ FailsAtOnce(c) \/ SaveBegins(c) \/ SaveEnds(c) \/ KxKilled(c)
      PROVE  KxSound' /\ ToldTrue /\ AskedWithout
  <2>1. Turned(c)
    BY <1>t, <1>2, ReadsTurns, GivesUpTurns, SavesTurn, KilledTurns
  <2> QED BY <2>1, TurnStands, TurnKeepsPromises
<1>3. ASSUME NEW c \in Clients, NotRunning(c) \/ Answers(c) \/ Declines(c)
      PROVE  KxSound' /\ ToldTrue /\ AskedWithout
  <2>1. KxSound'
    BY <1>3, NotRunningStands, AnswersStands, DeclinesStands
  <2>2. UNCHANGED kxAt
    BY <1>3 DEF NotRunning, Answers, Declines, kxClient
  <2> QED BY <1>q, <2>1, <2>2
<1>4. ASSUME \/ \E r \in kxLeft : AnswersNobody(r)
             \/ \E g \in kxDialogs : AnswersDialog(g)
             \/ LocksOrOpens \/ Revokes
      PROVE  KxSound' /\ ToldTrue /\ AskedWithout
  <2>1. KxSound'
    BY <1>4, AnswersNobodyStands, AnswersDialogStands, MeddlesStands
  <2>2. UNCHANGED kxAt
    BY <1>4 DEF AnswersNobody, AnswersDialog, LocksOrOpens, Revokes, kxClient
  <2> QED BY <1>q, <2>1, <2>2
<1> QED BY <1>1, <1>2, <1>3, <1>4 DEF KeePassXCNext

LEMMA NextKx == KxSound /\ [KeePassXCNext]_kxVars => KxSound'
BY StepKx, RestStands

(* The connection, its frames and the database stay within their types,    *)
(* whatever comes late, is refused or is asked by one who left             *)
(* (wire/client.go, native.go and association.go of                        *)
(* internal/keys/wallet/keepassxc).                                        *)
THEOREM KeePassXCTypes == KeePassXCSpec => []KeePassXCTypeOK
<1>1. KxSound => KeePassXCTypeOK
  BY DEF KxSound
<1> QED BY <1>1, InitKx, NextKx, PTL DEF KeePassXCSpec

(* OneEntryEach: a key that is saved by one that sees what is there, and   *)
(* alone, has one entry in the database, for any number of clients and     *)
(* whatever was locked, revoked or answered to somebody else meanwhile     *)
(* (Store of native.go).                                                   *)
THEOREM EachHasOneEntry == KeePassXCSpec => []OneEntryEach
<1>1. KxSound => OneEntryEach
  <2> SUFFICES ASSUME KxSound, NEW login \in Logins \ kxBlind
               PROVE  Cardinality({e \in kxEntries : e.login = login}) <= 1
    BY DEF OneEntryEach
  <2> DEFINE mine == {e \in kxEntries : e.login = login}
  <2>1. \A e, f \in mine : e = f
    BY DEF KxSound, NoCopies
  <2>2. CASE mine = {}
    BY <2>2, FS_EmptySet
  <2>3. CASE mine # {}
    <3>1. PICK e : e \in mine
      BY <2>3
    <3>2. mine = {e}
      BY <2>1, <3>1
    <3>3. Cardinality({e}) = 1
      BY FS_Singleton
    <3>4. Cardinality(mine) = 1
      BY <3>2, <3>3, Zenon
    <3> QED BY <3>4
  <2> QED BY <2>2, <2>3
<1> QED BY <1>1, InitKx, NextKx, PTL DEF KeePassXCSpec

(* LookupTellsTheTruth: a lookup answers with what its own key had while   *)
(* it was asked, whatever else came down the connection and whatever keys  *)
(* share the URL (Lookup of native.go and read of wire/client.go).         *)
THEOREM LookupsTellTheTruth == KeePassXCSpec => LookupTellsTheTruth
<1> DEFINE Told == \A c \in Clients :
             kxAt[c] = "get" /\ kxAt'[c] = "idle" /\ kxOutcome'[c] \in Passphrases \cup {NoPassphrase}
               => kxOutcome'[c] \in kxSeen[c]
<1>1. KxSound /\ [KeePassXCNext]_kxVars => [Told]_kxVars
  BY StepKx DEF ToldTrue
<1> QED BY <1>1, InitKx, NextKx, PTL DEF KeePassXCSpec, LookupTellsTheTruth

(* AskedOnlyWithout: nobody is asked to approve an association while       *)
(* KeePassXC honours the one on file, where nothing came late or failed    *)
(* (association of native.go, TestAssociate of wire/client.go).  It rests  *)
(* on an association being asked for once: one that was answered is not    *)
(* asked of the user again, and one that was revoked stays so.             *)
THEOREM AskedOnlyAsNeeded == KeePassXCSpec => AskedOnlyWithout
<1> DEFINE Asked == \A c \in Clients :
             kxAt[c] # "associate" /\ kxAt'[c] = "associate"
               => kxLates' > 0 \/ kxFile = NoGrant \/ kxAssoc[c] \notin kxKnown
<1>1. KxSound /\ [KeePassXCNext]_kxVars => [Asked]_kxVars
  BY StepKx DEF AskedWithout
<1> QED BY <1>1, InitKx, NextKx, PTL DEF KeePassXCSpec, AskedOnlyWithout

(* The lifetimes, the conversation and the installer keep their types in   *)
(* one instance, as TLC runs them: no part disturbs another.               *)
THEOREM TypesOfEach == OneSpec => []OneTypeOK
<1> DEFINE Sound == TypeOK /\ KxSound /\ InstallerTypeOK /\ RunsWell /\ InstallerSound
<1>1. OneInit => Sound
  <2>1. Init => TypeOK
    BY InitTypes
  <2> QED BY <2>1, InitKx, InitInstaller DEF OneInit
<1>2. Sound /\ [OneNext]_oneVars => Sound'
  <2> SUFFICES ASSUME Sound, [OneNext]_oneVars PROVE Sound'
    OBVIOUS
  <2>1. [Next]_vars /\ [KeePassXCNext]_kxVars /\ [InstallerNext]_inVars
    BY DEF OneNext, oneVars
  <2> QED BY <2>1, NextKx, TypeStep, NextInstaller
<1>3. Sound => OneTypeOK
  BY DEF OneTypeOK, KxSound
<1> QED BY <1>1, <1>2, <1>3, PTL DEF OneSpec
=============================================================================
