------------------------------- MODULE Wallets -------------------------------
(***************************************************************************)
(* The stores a passphrase can be kept in, beside the Secret Service (see  *)
(* KeyLoading and SecretService) and KeePassXC's own protocol (KeePassXC): *)
(* secret-tool, 1Password's op, Bitwarden's bw, Windows' Credential        *)
(* Manager, the macOS keychain and keepassxc-cli.  They stand behind one   *)
(* interface, wallet.Backend, with four operations.                        *)
(*                                                                         *)
(* A step is one command, or one call into a system library: everything    *)
(* between two of them touches only what the shell itself keeps.  A        *)
(* command that outlasts its budget is killed, and its exit is one that is *)
(* not zero, like that of a command that found nothing (run.go).  Any      *)
(* number of shells use one store, and so does the user, whose own items   *)
(* are in it too (F27).                                                    *)
(***************************************************************************)
EXTENDS Naturals, FiniteSets

CONSTANTS
  Kinds,        \* the stores looked at
  Shells,       \* processes that use the store
  Services,     \* the names sshakku gives its items
  Foreign,      \* a name sshakku would not give one
  Longer,       \* per name of Services: the names that it is a part of
  Secrets,      \* passphrases
  None,         \* no passphrase
  Untold,       \* a passphrase that is lost and nobody was told
  MaxItems,     \* how many items there may be
  MaxFailures,  \* how many commands fail, time out or are killed
  MaxOutside    \* how often the user changes the store by hand

AllKinds == {"secret-tool", "1password", "bitwarden", "credman", "keychain", "keepassxc-cli"}

ASSUME WalletsAssumption ==
  /\ Kinds \subseteq AllKinds /\ Foreign \notin Services
  /\ None \notin Secrets /\ Untold \notin Secrets \cup {None}
  /\ Longer \in [Services -> SUBSET (Services \cup {Foreign})]
  /\ {MaxItems, MaxFailures, MaxOutside} \subseteq Nat

VARIABLES
  kind,      \* the store that is configured
  items,     \* what is in it
  call,      \* per shell: the operation asked for, its service and passphrase
  at,        \* per shell: the command it is about to run
  found,     \* per shell: the items its own look came back with
  answer,    \* per shell: how the operation ended
  shown,     \* per shell: the items whose secret or name the operation gave out
  session,   \* per shell: it has a Bitwarden session (Bitwarden.Session)
  held,      \* per shell: that session is held over several calls (Bitwarden.held)
  dbpass,    \* per shell: the database password it was given (CLI.password)
  late,      \* calls into a system library that were given up on and go on
  walletFailures, walletOutside,
  \* History.
  before,    \* per shell: the items there were when its operation began
  blind,     \* per shell: it took an item to be missing, or one of another name for its own
  kept,      \* per service: what a store said it saved and nothing undid since
  crowded    \* services that were stored while another was at them, or by one that was blind,
             \* and those the user put another item under

job == <<call, at, found, answer, shown>>
own == <<session, held, dbpass>>
history == <<before, blind, kept, crowded>>
walletVars == <<kind, items, job, own, late, walletFailures, walletOutside, history>>

Ops == {"lookup", "store", "delete", "list"}
Ids == 1..MaxItems
(* "vault" is where the store keeps what it is asked to keep; KeePassXC has *)
(* the user's other groups and a recycle bin beside it.  "mine" is what the *)
(* store lets sshakku tell for its own: by a tag in 1Password and by a group *)
(* in KeePassXC, and in the others by nothing but the name.                 *)
Item == [id: Ids, svc: Services \cup {Foreign}, secret: Secrets, mine: BOOLEAN,
         place: {"vault", "bin", "elsewhere"}]

Named(s) == {i \in items : i.svc = s}
InVault(s) == {i \in Named(s) : i.place = "vault"}
Svc(p) == call[p].svc
Wants(p, op) == call[p].op = op
Busy(p) == at[p] # "idle"

Taken == {i.id : i \in items} \cup UNION {{i.id : i \in found[p] \cup before[p]} : p \in Shells}
Free == Ids \ Taken
NewItem(s, x) ==
  [id |-> CHOOSE n \in Free : TRUE, svc |-> s, secret |-> x, mine |-> TRUE, place |-> "vault"]
Created(p) == items \cup {NewItem(Svc(p), call[p].secret)}
(* The items with those of `which` holding the passphrase of p's call.      *)
Overwritten(p, which) == (items \ which) \cup {[i EXCEPT !.secret = call[p].secret] : i \in which}

(* Which command each operation of each store runs first.                   *)
OpFirst(op) == IF op = "list" THEN "op_list" ELSE "op_get"
BwFirst(op) == CASE op = "lookup" -> "bw_get" [] op = "list" -> "bw_list" [] OTHER -> "bw_find"
KpFirst(op) == CASE op = "delete" -> "kp_search" [] op = "list" -> "kp_ls" [] OTHER -> "kp_show"
First(p, op) ==
  CASE kind = "1password" -> OpFirst(op)
    [] kind = "bitwarden" -> IF held[p] THEN BwFirst(op) ELSE "bw_unlock"
    [] kind = "keepassxc-cli" -> IF dbpass[p] = "unasked" THEN "kp_unlock" ELSE KpFirst(op)
    [] OTHER -> op

NoCall == [op |-> "list", svc |-> Foreign, secret |-> None]

WalletsInit ==
  /\ kind \in Kinds
  /\ items = {}
  /\ call = [p \in Shells |-> NoCall]
  /\ at = [p \in Shells |-> "idle"]
  /\ found = [p \in Shells |-> {}] /\ shown = [p \in Shells |-> {}]
  /\ answer = [p \in Shells |-> "none"]
  /\ session = [p \in Shells |-> FALSE] /\ held = [p \in Shells |-> FALSE]
  /\ dbpass = [p \in Shells |-> "unasked"]
  /\ late = {} /\ walletFailures = 0 /\ walletOutside = 0
  /\ before = [p \in Shells |-> {}] /\ blind = [p \in Shells |-> FALSE]
  /\ kept = [s \in Services |-> None] /\ crowded = {}
-----------------------------------------------------------------------------
(* How operations begin and end.                                            *)

Works == UNCHANGED walletFailures
Fails == walletFailures < MaxFailures /\ walletFailures' = walletFailures + 1

Goes(p, step) == at' = [at EXCEPT ![p] = step] /\ UNCHANGED <<call, answer, shown, before, kept>>

(* Somebody else is forgetting what p is saving.                            *)
Forgetting(p) == \E q \in Shells \ {p} : Busy(q) /\ Wants(q, "delete") /\ Svc(q) = Svc(p)

(* What is owed when an operation returns.  A store that fails is said to   *)
(* have: what it was to save is no longer owed.                             *)
Owed(p, ans) ==
  IF Wants(p, "store")
    THEN [kept EXCEPT ![Svc(p)] = IF ans = "ok" /\ ~Forgetting(p) THEN call[p].secret ELSE None]
    ELSE kept
(* ... and when a step that nobody is told of leaves these items.           *)
Remains(s, left) ==
  IF kept[s] # None /\ ~\E i \in left : i.mine /\ i.svc = s /\ i.place = "vault" THEN Untold ELSE kept[s]

(* An operation's return, its deferred Lock of a session it opened itself   *)
(* still to come.                                                           *)
Says(p, ans, out) ==
  /\ answer' = [answer EXCEPT ![p] = ans]
  /\ shown' = [shown EXCEPT ![p] = out]
  /\ at' = [at EXCEPT ![p] = IF session[p] /\ ~held[p] THEN "bw_lock" ELSE "idle"]
  /\ call' = [call EXCEPT ![p] = NoCall] /\ before' = [before EXCEPT ![p] = {}]
ReturnWith(p, ans, out) == Says(p, ans, out) /\ kept' = Owed(p, ans)
Return(p, ans) == ReturnWith(p, ans, {})

Looks(p, what) == found' = [found EXCEPT ![p] = what]
NotBlind == UNCHANGED <<blind, crowded>>
(* A command that failed, or looked elsewhere, is taken for one that found  *)
(* nothing to be found.                                                     *)
TakenForMiss(p, missed) ==
  /\ blind' = [blind EXCEPT ![p] = @ \/ missed]
  /\ crowded' = IF missed /\ Wants(p, "store") THEN crowded \cup {Svc(p)} ELSE crowded

Same == UNCHANGED <<kind, walletOutside>>

\* Mutant: a command's exit is not looked at.
ChangesOrSaysSo(p, can, new, next) ==
  /\ \/ Works /\ items' = (IF can THEN new ELSE items) /\ next
     \/ Fails /\ items' \in {items, IF can THEN new ELSE items} /\ next
  /\ UNCHANGED <<own, found, late>> /\ NotBlind /\ Same

(* A command that changes the store from items to new, where it can.  One   *)
(* that is stopped at its time budget may have done it all the same.        *)
Changes(p, can, new, next) ==
  /\ \/ can /\ Works /\ items' = new /\ next
     \/ ~can /\ Works /\ UNCHANGED items /\ Return(p, "error")
     \/ Fails /\ items' \in {items, IF can THEN new ELSE items} /\ Return(p, "error")
  /\ UNCHANGED <<own, found, late>> /\ NotBlind /\ Same

(* A command that reads and answers with out.                               *)
Lists(p, out) ==
  /\ \/ Works /\ ReturnWith(p, "ok", out)
     \/ Fails /\ Return(p, "error")
  /\ UNCHANGED <<items, own, found, late>> /\ NotBlind /\ Same

Calls(p, op, s, x) ==
  /\ ~Busy(p)
  /\ call' = [call EXCEPT ![p] = [op |-> op, svc |-> s, secret |-> x]]
  /\ at' = [at EXCEPT ![p] = First(p, op)]
  /\ found' = [found EXCEPT ![p] = {}] /\ shown' = [shown EXCEPT ![p] = {}]
  /\ answer' = [answer EXCEPT ![p] = "none"]
  /\ before' = [before EXCEPT ![p] = items] /\ blind' = [blind EXCEPT ![p] = FALSE]
  /\ kept' = IF op = "delete" THEN [kept EXCEPT ![s] = None] ELSE kept
  /\ crowded' = IF \E q \in Shells \ {p} :
                         /\ Busy(q) /\ Svc(q) = s
                         /\ "store" \in {op, call[q].op} /\ {op, call[q].op} \subseteq {"store", "delete"}
                  THEN crowded \cup {s} ELSE crowded
  /\ UNCHANGED <<items, own, late, walletFailures>> /\ Same
-----------------------------------------------------------------------------
(* 1Password: op finds an item by its title, so it finds none where two     *)
(* share it, and has no edit: Store deletes and creates.                    *)

\* Mutant: an item found by its title is taken for one of ours.
AnyIsOurs(which) == which # {}

(* SSHakku put the mark it gives its items on one of these.                 *)
Marked(which) == \E i \in which : i.mine

OpGet(p) ==
  /\ at[p] = "op_get"
  /\ LET same == Named(Svc(p))
         theOne == Cardinality(same) = 1
         ours == Marked(same)
     IN \/ Fails /\ Return(p, "error") /\ NotBlind
        \/ /\ IF theOne THEN Fails ELSE Works
           /\ TakenForMiss(p, same # {})
           /\ CASE Wants(p, "lookup") -> Return(p, "miss")
                [] Wants(p, "delete") -> Return(p, "ok")
                [] Wants(p, "store") -> Goes(p, "op_create")
        \/ /\ theOne /\ Works /\ NotBlind
           /\ CASE Wants(p, "lookup") -> IF ours THEN ReturnWith(p, "ok", same) ELSE Return(p, "miss")
                [] Wants(p, "delete") -> IF ours THEN Goes(p, "op_delete") ELSE Return(p, "ok")
                [] Wants(p, "store") -> IF ours THEN Goes(p, "op_delete") ELSE Return(p, "clash")
  /\ UNCHANGED <<items, own, found, late>> /\ Same

OpDelete(p) ==
  /\ at[p] = "op_delete"
  /\ Changes(p, Cardinality(Named(Svc(p))) = 1, items \ Named(Svc(p)),
             IF Wants(p, "store") THEN Goes(p, "op_create") ELSE Return(p, "ok"))

OpCreate(p) == at[p] = "op_create" /\ Free # {} /\ Changes(p, TRUE, Created(p), Return(p, "ok"))

(* op item list --tags sshakku: the store narrows the answer itself.        *)
OpList(p) == at[p] = "op_list" /\ Lists(p, {i \in items : i.mine})
-----------------------------------------------------------------------------
(* Bitwarden: every call unlocks the vault with the master password first,  *)
(* and locks it again, but where a batch holds it open.                     *)

BwUnlock(p) ==
  /\ at[p] = "bw_unlock"
  /\ \/ Works /\ session' = [session EXCEPT ![p] = TRUE] /\ Goes(p, BwFirst(call[p].op))
     \/ Fails /\ Return(p, "error") /\ UNCHANGED session
  /\ UNCHANGED <<items, held, dbpass, found, late>> /\ NotBlind /\ Same

(* The deferred Lock: the session is forgotten whether or not bw lock works. *)
BwLock(p) ==
  /\ at[p] = "bw_lock"
  /\ session' = [session EXCEPT ![p] = FALSE]
  /\ at' = [at EXCEPT ![p] = "idle"]
  /\ UNCHANGED <<items, call, answer, found, shown, held, dbpass, late, walletFailures, history>> /\ Same

(* Session.Unlock and Session.Lock, called around a batch.                  *)
HoldsOpen(p) ==
  /\ kind = "bitwarden" /\ ~Busy(p) /\ ~held[p]
  /\ session' = [session EXCEPT ![p] = TRUE] /\ held' = [held EXCEPT ![p] = TRUE]
  /\ UNCHANGED <<items, job, dbpass, late, walletFailures, history>> /\ Same
LetsGo(p) ==
  /\ ~Busy(p) /\ held[p]
  /\ session' = [session EXCEPT ![p] = FALSE] /\ held' = [held EXCEPT ![p] = FALSE]
  /\ UNCHANGED <<items, job, dbpass, late, walletFailures, history>> /\ Same

(* bw get takes a search term, which an item answers to whose name has it   *)
(* as a part, and finds none where two answer.                              *)
Answering(s) == {i \in items : i.svc \in {s} \cup Longer[s]}
TakenForOwn(p, hits) ==
  /\ blind' = [blind EXCEPT ![p] = @ \/ ~(hits \subseteq Named(Svc(p)))]
  /\ UNCHANGED crowded

(* bw get password.                                                         *)
BwGet(p) ==
  /\ at[p] = "bw_get"
  /\ LET hits == Answering(Svc(p))
         theOne == Cardinality(hits) = 1
     IN \/ Fails /\ Return(p, "error") /\ NotBlind
        \/ /\ IF theOne THEN Fails ELSE Works
           /\ TakenForMiss(p, Named(Svc(p)) # {}) /\ Return(p, "miss")
        \/ theOne /\ Works /\ TakenForOwn(p, hits) /\ ReturnWith(p, "ok", hits)
  /\ UNCHANGED <<items, own, found, late>> /\ Same

(* bw get item: the id an edit or a deletion needs.                         *)
BwFind(p) ==
  /\ at[p] = "bw_find"
  /\ LET hits == Answering(Svc(p))
         theOne == Cardinality(hits) = 1
     IN \/ Fails /\ Return(p, "error") /\ NotBlind /\ UNCHANGED found
        \/ /\ IF theOne THEN Fails ELSE Works
           /\ TakenForMiss(p, Named(Svc(p)) # {}) /\ UNCHANGED found
           /\ IF Wants(p, "store") THEN Goes(p, "bw_create") ELSE Return(p, "ok")
        \/ /\ theOne /\ Works /\ NotBlind /\ Looks(p, hits)
           /\ Goes(p, IF Wants(p, "store") THEN "bw_edit" ELSE "bw_delete")
  /\ UNCHANGED <<items, own, late>> /\ Same

Still(p) == {i \in items : \E j \in found[p] : i.id = j.id}
OfItsName(p) == Still(p) \subseteq Named(Svc(p))
BwEdit(p) ==
  /\ at[p] = "bw_edit" /\ OfItsName(p)
  /\ Changes(p, Still(p) # {}, Overwritten(p, Still(p)), Return(p, "ok"))
BwCreate(p) == at[p] = "bw_create" /\ Free # {} /\ Changes(p, TRUE, Created(p), Return(p, "ok"))
BwDelete(p) ==
  /\ at[p] = "bw_delete" /\ OfItsName(p)
  /\ Changes(p, Still(p) # {}, items \ Still(p), Return(p, "ok"))

(* An edit and a deletion know the item by its id: one of another name that *)
(* answered the search, or was given another since, is overwritten and      *)
(* renamed, or deleted.                                                     *)
Renamed(p, i) == [i EXCEPT !.svc = Svc(p), !.secret = call[p].secret, !.mine = TRUE]
BwTakesAnother(p) ==
  /\ at[p] \in {"bw_edit", "bw_delete"}
  /\ \E i \in Still(p) \ Named(Svc(p)), ans \in {"ok", "error"} :
       LET new == (items \ {i}) \cup (IF at[p] = "bw_edit" THEN {Renamed(p, i)} ELSE {})
       IN /\ \/ ans = "ok" /\ Works /\ items' = new
             \/ ans = "error" /\ Fails /\ items' \in {items, new}
          /\ Says(p, ans, {})
          /\ kept' = [s \in Services |-> IF s = i.svc THEN Remains(s, items') ELSE Owed(p, ans)[s]]
  /\ blind' = [blind EXCEPT ![p] = TRUE] /\ crowded' = crowded \cup {Svc(p)}
  /\ UNCHANGED <<own, found, late>> /\ Same

(* ownServices: a store that answers with everything is narrowed here, by   *)
(* the prefix sshakku gives the names of its own.                           *)
OwnServices(all) == {i \in all : i.svc \in Services}
BwList(p) == at[p] = "bw_list" /\ Lists(p, OwnServices(items))
-----------------------------------------------------------------------------
(* secret-tool: one command each, and no way to list.                       *)

\* Mutant: what is there is not looked for.
SavedAgain(p) == Created(p)

Saved(p) == IF InVault(Svc(p)) = {} THEN Created(p) ELSE Overwritten(p, InVault(Svc(p)))

(* A lookup in one call: what a failure means depends on the store.         *)
LooksUp(p, onFailure) ==
  /\ \/ /\ Works /\ NotBlind
        /\ IF InVault(Svc(p)) = {} THEN Return(p, "miss") ELSE ReturnWith(p, "ok", InVault(Svc(p)))
     \/ Fails /\ NotBlind /\ Return(p, "error")
     \/ /\ onFailure = "miss" /\ Fails
        /\ TakenForMiss(p, InVault(Svc(p)) # {}) /\ Return(p, "miss")
  /\ UNCHANGED <<items, own, found, late>> /\ Same

SecretToolLookup(p) == at[p] = "lookup" /\ kind = "secret-tool" /\ LooksUp(p, "miss")
SecretToolStore(p) ==
  at[p] = "store" /\ kind = "secret-tool" /\ Free # {} /\ Changes(p, TRUE, Saved(p), Return(p, "ok"))
SecretToolDelete(p) ==
  at[p] = "delete" /\ kind = "secret-tool" /\ Changes(p, TRUE, items \ InVault(Svc(p)), Return(p, "ok"))
SecretToolList(p) ==
  /\ at[p] = "list" /\ kind = "secret-tool" /\ Return(p, "unsupported")
  /\ UNCHANGED <<items, own, found, late, walletFailures>> /\ NotBlind /\ Same
-----------------------------------------------------------------------------
(* The system's own stores.  A call that outlasts its budget is given up    *)
(* on (run.WithDeadline) and not ended: what it was to do is done later, or *)
(* never.                                                                   *)

Bounded(p, can, new, effect, next) ==
  /\ \/ can /\ Works /\ items' = new /\ next /\ UNCHANGED late
     \/ ~can /\ Works /\ UNCHANGED <<items, late>> /\ Return(p, "error")
     \/ Fails /\ UNCHANGED items /\ Return(p, "error") /\ late' \in {late, late \cup {effect}}
  /\ UNCHANGED <<own, found>> /\ NotBlind /\ Same

Effect(p, does) == [does |-> does, svc |-> Svc(p), secret |-> call[p].secret]
Writes(p) == Bounded(p, TRUE, Saved(p), Effect(p, "write"), Return(p, "ok"))
Erases(p) == Bounded(p, TRUE, items \ InVault(Svc(p)), Effect(p, "delete"), Return(p, "ok"))

CredLookup(p) == at[p] = "lookup" /\ kind = "credman" /\ LooksUp(p, "error")
CredStore(p) == at[p] = "store" /\ kind = "credman" /\ Free # {} /\ Writes(p)
CredDelete(p) == at[p] = "delete" /\ kind = "credman" /\ Erases(p)
(* The prefix is in the question, and the answer is taken whole.            *)
CredList(p) == at[p] = "list" /\ kind = "credman" /\ Lists(p, {i \in items : i.svc \in Services})

KeychainLookup(p) == at[p] = "lookup" /\ kind = "keychain" /\ LooksUp(p, "error")
(* Store looks first, and then adds or updates.                             *)
KeychainFind(p) ==
  /\ at[p] = "store" /\ kind = "keychain"
  /\ \/ Works /\ Goes(p, IF InVault(Svc(p)) = {} THEN "kc_add" ELSE "kc_update")
     \/ Fails /\ Return(p, "error")
  /\ UNCHANGED <<items, own, found, late>> /\ NotBlind /\ Same
KeychainAdd(p) ==
  /\ at[p] = "kc_add" /\ Free # {}
  /\ Bounded(p, InVault(Svc(p)) = {}, Created(p), Effect(p, "add"), Return(p, "ok"))
KeychainUpdate(p) ==
  /\ at[p] = "kc_update"
  /\ Bounded(p, InVault(Svc(p)) # {}, Overwritten(p, InVault(Svc(p))), Effect(p, "update"), Return(p, "ok"))
KeychainDelete(p) == at[p] = "delete" /\ kind = "keychain" /\ Erases(p)
KeychainList(p) == at[p] = "list" /\ kind = "keychain" /\ Lists(p, OwnServices(items))

(* A call that was given up on does what it was to do, if it still can.     *)
Lands(e) ==
  /\ e \in late /\ late' = late \ {e}
  /\ LET there == InVault(e.svc)
         new == [NewItem(e.svc, e.secret) EXCEPT !.secret = e.secret]
         over == (items \ there) \cup {[i EXCEPT !.secret = e.secret] : i \in there}
     IN /\ there = {} => Free # {}
        /\ items' = CASE e.does = "delete" -> items \ there
                      [] e.does = "add" -> IF there = {} THEN items \cup {new} ELSE items
                      [] e.does = "update" -> over
                      [] e.does = "write" -> IF there = {} THEN items \cup {new} ELSE over
  /\ kept' = [kept EXCEPT ![e.svc] = Remains(e.svc, items')]
  /\ crowded' = crowded \cup {e.svc}
  /\ UNCHANGED <<job, own, walletFailures, before, blind>> /\ Same
-----------------------------------------------------------------------------
(* keepassxc-cli works on the database's file, with a password it is given  *)
(* once per process; a wrong one makes every command exit non-zero.         *)

Right(p) == dbpass[p] = "right"

KpUnlock(p) ==
  /\ at[p] = "kp_unlock"
  /\ \/ Works /\ dbpass' = [dbpass EXCEPT ![p] = "right"] /\ Goes(p, KpFirst(call[p].op))
     \/ Fails /\ dbpass' = [dbpass EXCEPT ![p] = "wrong"] /\ Goes(p, KpFirst(call[p].op))
     \/ Fails /\ UNCHANGED dbpass /\ Return(p, "error")
  /\ UNCHANGED <<items, session, held, found, late>> /\ NotBlind /\ Same

(* show: Lookup, and how Store chooses between edit and add.                *)
KpShow(p) ==
  /\ at[p] = "kp_show"
  /\ LET there == InVault(Svc(p))
         seen == Right(p) /\ there # {}
     IN \/ Fails /\ Return(p, "error") /\ NotBlind
        \/ /\ IF seen THEN Fails ELSE Works
           /\ TakenForMiss(p, there # {})
           /\ IF Wants(p, "lookup") THEN Return(p, "miss") ELSE Goes(p, "kp_add")
        \/ /\ seen /\ Works /\ NotBlind
           /\ IF Wants(p, "lookup") THEN ReturnWith(p, "ok", there) ELSE Goes(p, "kp_edit")
  /\ UNCHANGED <<items, own, found, late>> /\ Same

(* mkdir, whose exit is not looked at, and add, which tells.                *)
KpAdd(p) ==
  /\ at[p] = "kp_add" /\ Free # {}
  /\ Changes(p, Right(p) /\ InVault(Svc(p)) = {}, Created(p), Return(p, "ok"))
KpEdit(p) ==
  /\ at[p] = "kp_edit"
  /\ Changes(p, Right(p) /\ InVault(Svc(p)) # {}, Overwritten(p, InVault(Svc(p))), Return(p, "ok"))

(* Delete: where the name is before, rm, where it is after; what rm moved to *)
(* a recycle bin, under whatever name that has, is removed again.           *)
KpSearch(p) ==
  /\ at[p] = "kp_search"
  /\ \/ Fails /\ Return(p, "error") /\ UNCHANGED found /\ NotBlind
     \/ Works /\ Looks(p, IF Right(p) THEN Named(Svc(p)) ELSE {}) /\ NotBlind /\ Goes(p, "kp_rm")
     \/ Right(p) /\ Fails /\ Looks(p, {}) /\ TakenForMiss(p, Named(Svc(p)) # {}) /\ Goes(p, "kp_rm")
  /\ UNCHANGED <<items, own, late>> /\ Same

\* Mutant: the recycle bin has another name.
ToTrash(which) == (items \ which) \cup {[i EXCEPT !.place = "trash"] : i \in which}

ToBin(which) == (items \ which) \cup {[i EXCEPT !.place = "bin"] : i \in which}
KpRm(p) ==
  /\ at[p] = "kp_rm"
  /\ LET there == InVault(Svc(p))
         can == Right(p) /\ there # {}
         either == items' \in {items, IF can THEN ToBin(there) ELSE items}
     IN \/ can /\ Works /\ items' = ToBin(there) /\ Goes(p, "kp_search_again") /\ NotBlind
        \/ /\ IF can THEN Fails /\ either ELSE Works /\ UNCHANGED items
           /\ TakenForMiss(p, \E i \in Named(Svc(p)) : i.mine) /\ Return(p, "ok")
        \/ Fails /\ either /\ Return(p, "error") /\ NotBlind
  /\ UNCHANGED <<own, found, late>> /\ Same

Places(which) == {i.place : i \in which}
\* Mutant: the paths that were there before are removed and not the new ones.
WereThere(p) == Places(Named(Svc(p))) \cap Places(found[p])

Moved(p) == Places(Named(Svc(p))) \ Places(found[p])
KpSearchAgain(p) ==
  /\ at[p] = "kp_search_again"
  /\ \/ Fails /\ Return(p, "error") /\ UNCHANGED found /\ NotBlind
     \/ Fails /\ TakenForMiss(p, Named(Svc(p)) # {}) /\ Return(p, "ok") /\ UNCHANGED found
     \/ /\ Works /\ NotBlind
        /\ Looks(p, {i \in Named(Svc(p)) : i.place \in Moved(p)})
        /\ Goes(p, "kp_purge")
  /\ UNCHANGED <<items, own, late>> /\ Same

(* rm at one of those paths deletes in the bin and moves there from anywhere *)
(* else; its exit is not looked at.                                         *)
KpPurge(p) ==
  /\ at[p] = "kp_purge"
  /\ \/ /\ found[p] = {} /\ Works /\ Return(p, "ok")
        /\ UNCHANGED <<items, found>> /\ NotBlind
     \/ \E i \in found[p] :
          LET still == {j \in items : j.id = i.id}
              gone == IF i.place = "bin" THEN items \ still ELSE ToBin(still)
          IN /\ found' = [found EXCEPT ![p] = @ \ {i}]
             /\ \/ Works /\ items' = gone /\ Goes(p, "kp_purge") /\ NotBlind
                \/ Fails /\ items' \in {items, gone} /\ TakenForMiss(p, TRUE) /\ Goes(p, "kp_purge")
                \/ Fails /\ items' \in {items, gone} /\ Return(p, "error") /\ NotBlind
  /\ UNCHANGED <<own, late>> /\ Same

KpList(p) ==
  /\ at[p] = "kp_ls"
  /\ IF Right(p) THEN Lists(p, {i \in items : i.place = "vault"}) ELSE Lists(p, {})
-----------------------------------------------------------------------------
(* The user, and what may happen to a shell.                                *)

Outside == walletOutside < MaxOutside /\ walletOutside' = walletOutside + 1

(* An item of the user's own, under any name.  1Password's lacks the tag,   *)
(* KeePassXC's is in another group; in the other stores nothing tells one   *)
(* under a name of ours from ours.  Bitwarden takes a second of a name.     *)
Marks == kind \in {"1password", "keepassxc-cli"}
UserAdds(s, x) ==
  /\ Outside /\ Free # {}
  /\ Marks \/ kind = "bitwarden" \/ InVault(s) = {}
  /\ items' = items \cup {[NewItem(s, x) EXCEPT !.mine = s \in Services /\ ~Marks,
                             !.place = IF kind = "keepassxc-cli" THEN "elsewhere" ELSE "vault"]}
  /\ crowded' = IF s \in Services /\ ~Marks /\ (InVault(s) # {} \/ \E p \in Shells : Svc(p) = s)
                  THEN crowded \cup {s} ELSE crowded
  /\ UNCHANGED <<kind, job, own, late, walletFailures, before, blind, kept>>

(* The user takes an item out, in KeePassXC into the bin.                   *)
UserRemoves(i) ==
  /\ Outside /\ i \in items
  /\ items' = IF kind = "keepassxc-cli" /\ i.place = "vault" THEN ToBin({i}) ELSE items \ {i}
  /\ kept' = IF i.svc \in Services THEN [kept EXCEPT ![i.svc] = None] ELSE kept
  /\ UNCHANGED <<kind, job, own, late, walletFailures, before, blind, crowded>>

(* A kill before a command; one after an operation's last is that of a shell *)
(* whose operation is over.  Between 1Password's delete and create it takes *)
(* with it what was to be put back.                                         *)
WalletKilled(p) ==
  /\ Busy(p) /\ Fails
  /\ at' = [at EXCEPT ![p] = "idle"]
  /\ session' = [session EXCEPT ![p] = FALSE] /\ held' = [held EXCEPT ![p] = FALSE]
  /\ dbpass' = [dbpass EXCEPT ![p] = "unasked"]
  /\ kept' = IF at[p] = "op_create" THEN [kept EXCEPT ![Svc(p)] = Remains(Svc(p), items)] ELSE kept
  /\ call' = [call EXCEPT ![p] = NoCall] /\ before' = [before EXCEPT ![p] = {}]
  /\ found' = [found EXCEPT ![p] = {}] /\ shown' = [shown EXCEPT ![p] = {}]
  /\ blind' = [blind EXCEPT ![p] = FALSE]
  /\ UNCHANGED <<items, answer, late, crowded>> /\ Same

OnePassword(p) == OpGet(p) \/ OpDelete(p) \/ OpCreate(p) \/ OpList(p)
Bitwarden(p) ==
  \/ BwUnlock(p) \/ BwLock(p) \/ HoldsOpen(p) \/ LetsGo(p) \/ BwGet(p)
  \/ BwFind(p) \/ BwEdit(p) \/ BwCreate(p) \/ BwDelete(p) \/ BwTakesAnother(p) \/ BwList(p)
SecretTool(p) ==
  SecretToolLookup(p) \/ SecretToolStore(p) \/ SecretToolDelete(p) \/ SecretToolList(p)
CredentialManager(p) == CredLookup(p) \/ CredStore(p) \/ CredDelete(p) \/ CredList(p)
Keychain(p) ==
  \/ KeychainLookup(p) \/ KeychainFind(p) \/ KeychainAdd(p) \/ KeychainUpdate(p)
  \/ KeychainDelete(p) \/ KeychainList(p)
KeePassXCCLI(p) ==
  \/ KpUnlock(p) \/ KpShow(p) \/ KpAdd(p) \/ KpEdit(p) \/ KpSearch(p)
  \/ KpRm(p) \/ KpSearchAgain(p) \/ KpPurge(p) \/ KpList(p)

WalletsNext ==
  \/ \E p \in Shells :
       \/ \E s \in Services : Calls(p, "lookup", s, None) \/ Calls(p, "delete", s, None)
       \/ \E s \in Services, x \in Secrets : Calls(p, "store", s, x)
       \/ Calls(p, "list", Foreign, None)
       \/ OnePassword(p) \/ Bitwarden(p) \/ SecretTool(p) \/ CredentialManager(p)
       \/ Keychain(p) \/ KeePassXCCLI(p) \/ WalletKilled(p)
  \/ \E e \in late : Lands(e)
  \/ \E s \in Services \cup {Foreign}, x \in Secrets : UserAdds(s, x)
  \/ \E i \in items : UserRemoves(i)

WalletsSpec == WalletsInit /\ [][WalletsNext]_walletVars
-----------------------------------------------------------------------------
Steps ==
  {"idle", "op_get", "op_delete", "op_create", "op_list", "bw_unlock", "bw_lock", "bw_get", "bw_find",
   "bw_edit", "bw_create", "bw_delete", "bw_list", "kc_add", "kc_update", "kp_unlock", "kp_show",
   "kp_add", "kp_edit", "kp_search", "kp_rm", "kp_search_again", "kp_purge", "kp_ls"} \cup Ops

(* The types of the variables.                                              *)
WalletsTypeOK ==
  /\ kind \in Kinds /\ items \subseteq Item
  /\ call \in [Shells -> [op: Ops, svc: Services \cup {Foreign}, secret: Secrets \cup {None}]]
  /\ at \in [Shells -> Steps]
  /\ found \in [Shells -> SUBSET Item] /\ before \in [Shells -> SUBSET Item]
  /\ shown \in [Shells -> SUBSET Item]
  /\ answer \in [Shells -> {"none", "ok", "miss", "error", "clash", "unsupported"}]
  /\ {session, held, blind} \subseteq [Shells -> BOOLEAN]
  /\ dbpass \in [Shells -> {"unasked", "right", "wrong"}]
  /\ late \subseteq [does: {"write", "add", "update", "delete"}, svc: Services, secret: Secrets \cup {None}]
  /\ walletFailures \in 0..MaxFailures /\ walletOutside \in 0..MaxOutside
  /\ kept \in [Services -> Secrets \cup {None, Untold}] /\ crowded \subseteq Services

(* F27, and onepassword.go on OnePassword: what sshakku can tell for the    *)
(* user's is not read, not listed, not removed and not written over.  Two   *)
(* things it cannot tell: an item that appears under the same name between  *)
(* an operation's look and its deed, and which items were there when a      *)
(* search of a KeePassXC database failed or Bitwarden's came back with one  *)
(* of another name (blind).  An item of the user's under a name of ours is  *)
(* told by the tag or the group alone: Bitwarden, secret-tool, Credential   *)
(* Manager and the keychain have neither, and there it counts as ours.      *)
OthersLeftAlone ==
  [][/\ \A p \in Shells : \A i \in shown'[p] : i.mine \/ blind'[p]
     /\ \A i \in items : ~i.mine /\ i \notin items' =>
          walletOutside' # walletOutside
          \/ \E p \in Shells : Busy(p) /\ (blind[p] \/ blind'[p] \/ i \notin before[p])]_walletVars

Ends(p, op, ans) == answer[p] = "none" /\ answer'[p] = ans /\ Wants(p, op)

(* cli.go:246 and the contract of Backend.Delete: an operation that says a  *)
(* passphrase is forgotten leaves no copy of it that was there when it was  *)
(* asked.  Excused are commands whose failure is taken for a miss (blind),  *)
(* a recycle bin that already held an entry of that name, and a name that   *)
(* is stored while it is being forgotten.                                   *)
BinHeldOne(p) == \E i \in before[p] : i.place = "bin" /\ i.svc = Svc(p)
Left(p) == {i \in items' : i.mine /\ i.svc = Svc(p) /\ \E j \in before[p] : j.id = i.id}
ForgottenIsGone ==
  [][\A p \in Shells :
       Ends(p, "delete", "ok") /\ ~blind'[p] /\ ~BinHeldOne(p) /\ Svc(p) \notin crowded
         => Left(p) = {}]_walletVars

(* The same with no excuse: what keepassxc-cli's Delete says of itself.     *)
ForgottenFromTheFile ==
  [][\A p \in Shells : Ends(p, "delete", "ok") => Left(p) = {}]_walletVars

(* A passphrase a store said it saved is there, and is the one last saved   *)
(* but where two were at it, until somebody is told that it was forgotten   *)
(* or that replacing it failed, or is in the middle of replacing it.  It    *)
(* goes with nobody told (Untold) in three ways: a kill between op delete   *)
(* and op create, a deletion that was given up on and lands late, and an    *)
(* edit or deletion of another name in Bitwarden that takes its item.       *)
LossIsReported ==
  \A s \in Services : kept[s] \notin {None, Untold} =>
    \/ \E i \in InVault(s) : i.mine /\ (s \in crowded \/ i.secret = kept[s])
    \/ \E p \in Shells : at[p] = "op_create" /\ Svc(p) = s

(* A passphrase that is stored again replaces the one before: there is one  *)
(* item of a name, unless two stored it at once, a failed look was taken    *)
(* for a miss, Bitwarden's search came back with an item of another name,   *)
(* a call given up on landed late, or the user put one there by hand.       *)
OneCopy ==
  \A s \in Services : s \in crowded \/ Cardinality({i \in InVault(s) : i.mine}) <= 1
=============================================================================
