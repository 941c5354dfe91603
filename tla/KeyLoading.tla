----------------------------- MODULE KeyLoading -----------------------------
(***************************************************************************)
(* Loading keys: Loader.LoadKeys (internal/keys/load.go), run by every     *)
(* login shell, and Broker.Answer (internal/keys/askpass.go), run by every *)
(* ssh that meets a key the agent does not hold. They share the agent, the *)
(* give-up records (internal/giveup) and the wallet, here the Secret       *)
(* Service collection (wallet/secretservice_linux.go), which one process   *)
(* may lock under another.                                                 *)
(*                                                                         *)
(* A key is its place in the directory, a passphrase a name; a step is one *)
(* call on the agent, the wallet, the user or the give-up store.           *)
(***************************************************************************)
EXTENDS Integers, FiniteSets

CONSTANTS
    NumKeys,      \* key files, in the order KeyLister lists them
    Loaders,      \* runs of load-keys
    Brokers,      \* runs of the askpass helper
    Passes,       \* passphrases somebody may type
    NoPass,       \* no wallet entry; an empty answer
    MaxAttempts,  \* Config.MaxAttempts
    AutoLoad,     \* keys the auto-load policy lets in
    WalletStore,  \* keys the wallet-store policy lets in
    Readable,     \* keys passphraseOpens can try a passphrase on
    MaxMishaps    \* bound: how often something fails or changes from outside

Keys == 1..NumKeys
Procs == Loaders \cup Brokers

ASSUME KeysAssumption ==
    /\ NumKeys \in Nat
    /\ AutoLoad \subseteq Keys /\ WalletStore \subseteq Keys /\ Readable \subseteq Keys

ASSUME ProcsAssumption == Loaders \cap Brokers = {}

ASSUME SettingsAssumption ==
    /\ NoPass \notin Passes
    /\ MaxAttempts \in Nat \ {0}
    /\ MaxMishaps \in Nat

VARIABLES
    agent,      \* the keys the agent holds
    opens,      \* the passphrase each key file has
    past,       \* history: every passphrase each key file has had
    wallet,     \* the passphrase stored for each key
    collection, \* the collection: locked, open, or left open by a process
                \* that was killed or could not lock it
    giveup,     \* the give-up record of each key, within its TTL or past it
    pc,         \* where each process is
    call,       \* the wallet call it is in
    held,       \* sessionBackend.unlocked and SecretService.held
    key,        \* the key it is at
    snap,       \* the fingerprints the agent held when a loader began
    pass,       \* the passphrase in its hands
    attempt,    \* which attempt at this key this is
    asks,       \* history: how often it has asked about each key
    dismissed,  \* history: the keys it was turned down for
    quiet,      \* history: keys given up on since before it began
    onDismiss,  \* Config.OnDismiss
    mishaps     \* how often something failed or changed

world == <<agent, opens, past, wallet, collection, giveup, quiet>>
mine  == <<call, held, key, snap, pass, attempt, asks, dismissed>>
vars  == <<world, mine, pc, onDismiss, mishaps>>

WalletSteps == {"unlock", "bracket", "io", "relock"}
LoaderSteps == {"next", "try", "ask", "add", "loaded", "exhausted", "lock"}
BrokerSteps == {"verify", "ask", "check"}
Working == WalletSteps \cup LoaderSteps \cup BrokerSteps

Init ==
    /\ agent = {}
    /\ opens \in [Keys -> Passes]
    /\ past = [k \in Keys |-> {opens[k]}]
    /\ wallet \in [Keys -> Passes \cup {NoPass}]
    /\ \A k \in Keys : wallet[k] \in {opens[k], NoPass}
    /\ collection = "locked"
    /\ giveup = [k \in Keys |-> "none"]
    /\ pc = [p \in Procs |-> "idle"]
    /\ call = [p \in Procs |-> "lookup"]
    /\ held = [p \in Procs |-> FALSE]
    /\ key = [p \in Procs |-> 0]
    /\ snap = [p \in Procs |-> {}]
    /\ pass = [p \in Procs |-> NoPass]
    /\ attempt = [p \in Procs |-> 0]
    /\ asks = [p \in Procs |-> [k \in Keys |-> 0]]
    /\ dismissed = [p \in Procs |-> {}]
    /\ quiet = [p \in Procs |-> {}]
    /\ onDismiss \in {"stop", "skip", "retry"}
    /\ mishaps = 0

At(p, steps) == p \in Procs /\ pc[p] \in steps
Goto(p, step) == pc' = [pc EXCEPT ![p] = step]
Mishap == mishaps < MaxMishaps /\ mishaps' = mishaps + 1 /\ UNCHANGED onDismiss
Fine == UNCHANGED <<mishaps, onDismiss>>

LeftOpen == collection' = IF collection = "locked" THEN "locked" ELSE "ajar"

\* A give-up record that goes, or ages, silences nobody any longer.
SetGiveup(k, record) ==
    /\ giveup' = [giveup EXCEPT ![k] = record]
    /\ quiet' = IF record = "fresh" THEN quiet
                ELSE [p \in Procs |-> quiet[p] \ {k}]

-----------------------------------------------------------------------------
(* LoadKeys and loadOne: what is done before any passphrase is needed.      *)

(* The agent's fingerprints are read once, for the whole batch; an agent    *)
(* that does not answer looks empty, and a batch that cannot be enumerated  *)
(* or has no helper to ask with ends here.                                  *)
LoadBegins(s) ==
    /\ At(s, {"idle"})
    /\ \/ snap' = [snap EXCEPT ![s] = agent] /\ Goto(s, "next") /\ Fine
       \/ snap' = snap /\ pc' \in {[pc EXCEPT ![s] = e] : e \in {"next", "done"}} /\ Mishap
    /\ key' = [key EXCEPT ![s] = 1]
    /\ quiet' = [quiet EXCEPT ![s] = {k \in Keys : giveup[k] = "fresh"}]
    /\ UNCHANGED <<agent, opens, past, wallet, collection, giveup,
                   call, held, pass, attempt, asks, dismissed>>

NextKey(s) == key' = [key EXCEPT ![s] = @ + 1] /\ Goto(s, "next")

(* Mutant: the record is not read.                                          *)
NeverGivenUp(k) == FALSE
GivenUp(k) == giveup[k] = "fresh"

Skipped(s) == \/ key[s] \notin AutoLoad
              \/ key[s] \in snap[s]
              \/ GivenUp(key[s])

Skip(s) ==
    /\ At(s, {"next"}) /\ key[s] <= NumKeys
    /\ Skipped(s)
    /\ NextKey(s)
    /\ Fine
    /\ UNCHANGED <<world, call, held, snap, pass, attempt, asks, dismissed>>

\* sessionBackend: a call opens the wallet for the batch unless it is open,
\* and leaves the backend to bracket the call itself where that fails.
WalletCall(p, what) ==
    /\ call' = [call EXCEPT ![p] = what]
    /\ Goto(p, IF p \in Brokers THEN "bracket" ELSE IF held[p] THEN "io" ELSE "unlock")

(* GivenUp removes a record past its TTL on the way.                        *)
Consider(s) ==
    /\ At(s, {"next"}) /\ key[s] <= NumKeys
    /\ ~Skipped(s)
    /\ SetGiveup(key[s], IF giveup[key[s]] = "stale" THEN "none" ELSE giveup[key[s]])
    /\ attempt' = [attempt EXCEPT ![s] = 1]
    /\ WalletCall(s, "lookup")
    /\ Fine
    /\ UNCHANGED <<agent, opens, past, wallet, collection, held, key, snap, pass, asks, dismissed>>

BatchEnds(s) ==
    /\ At(s, {"next"}) /\ key[s] > NumKeys
    /\ Goto(s, IF held[s] THEN "lock" ELSE "done")
    /\ Fine
    /\ UNCHANGED <<world, mine>>

(* LoadKeys' deferred Lock, best-effort.                                    *)
LockUp(s) ==
    /\ At(s, {"lock"})
    /\ \/ collection' = "locked" /\ Fine
       \/ LeftOpen /\ Mishap
    /\ held' = [held EXCEPT ![s] = FALSE]
    /\ Goto(s, "done")
    /\ UNCHANGED <<agent, opens, past, wallet, giveup, quiet,
                   call, key, snap, pass, attempt, asks, dismissed>>

-----------------------------------------------------------------------------
(* The wallet: sessionBackend over SecretService.                           *)

AfterLookup(p) == IF pass'[p] = NoPass THEN "ask"
                  ELSE IF p \in Brokers THEN "verify" ELSE "try"
AfterStore(p) == IF p \in Brokers THEN "done" ELSE "loaded"
After(p) == IF call[p] = "lookup" THEN AfterLookup(p) ELSE AfterStore(p)

WalletOnly == UNCHANGED <<agent, opens, past, giveup, quiet,
                          call, key, snap, attempt, asks, dismissed>>

EnsureUnlocked(s) ==
    /\ At(s, {"unlock"})
    /\ \/ /\ collection' = "open"
          /\ held' = [held EXCEPT ![s] = TRUE]
          /\ Goto(s, "io") /\ Fine
       \/ UNCHANGED <<collection, held>> /\ Goto(s, "bracket") /\ Mishap
    /\ UNCHANGED <<wallet, pass>>
    /\ WalletOnly

\* A call that fails is a miss to a lookup, and nothing stored to a store.
Missed(p) == pass' = IF call[p] = "lookup" THEN [pass EXCEPT ![p] = NoPass] ELSE pass

Bracket(p) ==
    /\ At(p, {"bracket"})
    /\ \/ collection' = "open" /\ pass' = pass /\ Goto(p, "io") /\ Fine
       \/ collection' = collection /\ Missed(p) /\ Goto(p, After(p)) /\ Mishap
    /\ UNCHANGED <<wallet, held>>
    /\ WalletOnly

(* A locked collection gives up no secret and takes none.                   *)
WalletAnswers(p) ==
    /\ At(p, {"io"})
    /\ pass' = IF call[p] # "lookup" THEN pass
               ELSE [pass EXCEPT ![p] = IF collection # "locked" THEN wallet[key[p]] ELSE NoPass]
    /\ wallet' = IF call[p] = "store" /\ collection # "locked"
                 THEN [wallet EXCEPT ![key[p]] = pass[p]] ELSE wallet
    /\ Goto(p, IF held[p] THEN After(p) ELSE "relock")
    /\ Fine
    /\ UNCHANGED <<collection, held>>
    /\ WalletOnly

(* Mutant: a lookup that misses returns before it locks.                    *)
RelockAfterHit(p) ==
    /\ At(p, {"relock"})
    /\ collection' = IF pass[p] = NoPass THEN collection ELSE "locked"
    /\ pass' = pass
    /\ Goto(p, After(p))
    /\ Fine
    /\ UNCHANGED <<wallet, held>>
    /\ WalletOnly

Relock(p) ==
    /\ At(p, {"relock"})
    /\ \/ collection' = "locked" /\ Fine
       \/ LeftOpen /\ Mishap
    /\ pass' = pass
    /\ Goto(p, After(p))
    /\ UNCHANGED <<wallet, held>>
    /\ WalletOnly

-----------------------------------------------------------------------------
(* One key of a batch: loadViaVaultThenPrompt and what comes of it.         *)

\* ssh-add's exit code: a wrong passphrase, and whatever else it refuses.
Added(k) == agent' = agent \cup {k}
Opens(s) == pass[s] = opens[key[s]]

(* Mutant: whatever did not open is given up on.                            *)
AbandonGivesUp(s) == key' = key /\ Goto(s, "exhausted")

(* keyAbandoned: on to the next key, with nothing recorded against this one. *)
Abandon(s) == /\ key' = [key EXCEPT ![s] = @ + 1]
              /\ Goto(s, "next")

(* tryStoredPassphrase: a stored passphrase ssh-add rejects is stale.       *)
TryStored(s) ==
    /\ At(s, {"try"})
    /\ \/ Opens(s) /\ Added(key[s]) /\ Goto(s, "loaded") /\ key' = key /\ Fine
       \/ ~Opens(s) /\ agent' = agent /\ Goto(s, "ask") /\ key' = key /\ Fine
       \/ agent' = agent /\ Goto(s, "ask") /\ key' = key /\ Mishap
       \/ agent' = agent /\ Abandon(s) /\ Mishap
    /\ UNCHANGED <<opens, past, wallet, collection, giveup, quiet,
                   call, held, snap, pass, attempt, asks, dismissed>>

(* Mutant: an answer that costs no attempt.                                 *)
FreeAttempt(s) == attempt' = attempt /\ Goto(s, "ask")

\* The next turn of the attempt loop, and the end of it.
NextAttempt(s) ==
    IF attempt[s] < MaxAttempts
    THEN attempt' = [attempt EXCEPT ![s] = @ + 1] /\ Goto(s, "ask")
    ELSE attempt' = attempt /\ Goto(s, "exhausted")

\* Counted no further than one past what is allowed.
Asked(p) == asks' = [asks EXCEPT ![p][key[p]] = IF @ > MaxAttempts THEN @ ELSE @ + 1]

Typed(s, p) ==
    /\ pass' = [pass EXCEPT ![s] = p]
    /\ Goto(s, "add")
    /\ UNCHANGED <<key, attempt, dismissed>>

\* promptFailureOutcome: a blank answer and, under retry, a dismissal cost
\* an attempt; otherwise a dismissal turns this key down, or every key left.
Blank(s) == NextAttempt(s) /\ UNCHANGED <<key, pass, dismissed>>

(* Mutant: "stop" as "skip".                                                *)
DismissedGoesOn(s) ==
    /\ dismissed' = [dismissed EXCEPT ![s] = @ \cup {key[s]}]
    /\ pass' = pass
    /\ \/ onDismiss = "retry" /\ NextAttempt(s) /\ key' = key
       \/ onDismiss # "retry" /\ Abandon(s) /\ attempt' = attempt

Dismissed(s) ==
    /\ dismissed' = [dismissed EXCEPT ![s] = @ \cup {key[s]}]
    /\ pass' = pass
    /\ \/ onDismiss = "retry" /\ NextAttempt(s) /\ key' = key
       \/ onDismiss = "skip" /\ Abandon(s) /\ attempt' = attempt
       \/ /\ onDismiss = "stop"
          /\ Goto(s, IF held[s] THEN "lock" ELSE "done")
          /\ UNCHANGED <<key, attempt>>

Ask(s) ==
    /\ At(s, {"ask"}) /\ s \in Loaders
    /\ \/ (\E p \in Passes : Typed(s, p)) /\ Asked(s) /\ Fine
       \/ Blank(s) /\ Asked(s) /\ Fine
       \/ Dismissed(s) /\ Asked(s) /\ Fine
       \/ Abandon(s) /\ Mishap /\ UNCHANGED <<pass, attempt, asks, dismissed>>
    /\ UNCHANGED <<world, call, held, snap>>

(* The passphrase typed is stored only once it has opened the key.          *)
AddTyped(s) ==
    /\ At(s, {"add"})
    /\ \/ /\ Opens(s) /\ Added(key[s]) /\ Fine
          /\ IF key[s] \in WalletStore THEN WalletCall(s, "store")
             ELSE call' = call /\ Goto(s, "loaded")
          /\ UNCHANGED <<key, attempt>>
       \/ /\ ~Opens(s) /\ NextAttempt(s) /\ Fine
          /\ UNCHANGED <<agent, call, key>>
       \/ /\ NextAttempt(s) /\ Mishap
          /\ UNCHANGED <<agent, call, key>>
       \/ /\ Abandon(s) /\ Mishap
          /\ UNCHANGED <<agent, call, attempt>>
    /\ UNCHANGED <<opens, past, wallet, collection, giveup, quiet,
                   held, snap, pass, asks, dismissed>>

(* addWithRetries: a key that opened is given up on no longer.              *)
Loaded(s) ==
    /\ At(s, {"loaded"})
    /\ SetGiveup(key[s], "none")
    /\ NextKey(s)
    /\ Fine
    /\ UNCHANGED <<agent, opens, past, wallet, collection,
                   call, held, snap, pass, attempt, asks, dismissed>>

Exhausted(s) ==
    /\ At(s, {"exhausted"})
    /\ SetGiveup(key[s], "fresh")
    /\ NextKey(s)
    /\ Fine
    /\ UNCHANGED <<agent, opens, past, wallet, collection,
                   call, held, snap, pass, attempt, asks, dismissed>>

LoadStep(s) ==
    \/ Skip(s) \/ Consider(s) \/ BatchEnds(s) \/ LockUp(s) \/ EnsureUnlocked(s)
    \/ TryStored(s) \/ Ask(s) \/ AddTyped(s) \/ Loaded(s) \/ Exhausted(s)

-----------------------------------------------------------------------------
(* Broker.Answer for a key passphrase.                                      *)

BrokerBegins(b, k) ==
    /\ At(b, {"idle"})
    /\ key' = [key EXCEPT ![b] = k]
    /\ WalletCall(b, "lookup")
    /\ Fine
    /\ UNCHANGED <<world, held, snap, pass, attempt, asks, dismissed>>

\* passphraseOpens = verdictWrong; where it cannot tell, nothing is refused.
(* Mutant: the passphrase is not tried.                                     *)
NeverWrong(b) == FALSE
Wrong(b) == key[b] \in Readable /\ ~Opens(b)

BrokerVerifies(b) ==
    /\ At(b, {"verify"})
    /\ Goto(b, IF Wrong(b) THEN "ask" ELSE "done")
    /\ Fine
    /\ UNCHANGED <<world, mine>>

BrokerAsks(b) ==
    /\ At(b, {"ask"}) /\ b \in Brokers
    /\ Asked(b)
    /\ \/ \E p \in Passes : /\ pass' = [pass EXCEPT ![b] = p]
                            /\ Goto(b, IF key[b] \in WalletStore THEN "check" ELSE "done")
                            /\ Fine
       \/ pass' = [pass EXCEPT ![b] = NoPass] /\ Goto(b, "done") /\ Fine
    /\ UNCHANGED <<world, call, held, key, snap, attempt, dismissed>>

\* storePassphrase
BrokerChecks(b) ==
    /\ At(b, {"check"})
    /\ IF Wrong(b) THEN call' = call /\ Goto(b, "done") ELSE WalletCall(b, "store")
    /\ Fine
    /\ UNCHANGED <<world, held, key, snap, pass, attempt, asks, dismissed>>

BrokerStep(b) == BrokerVerifies(b) \/ BrokerAsks(b) \/ BrokerChecks(b)
WalletStep(p) == Bracket(p) \/ WalletAnswers(p) \/ Relock(p)

-----------------------------------------------------------------------------
(* Around them.                                                             *)

Killed(p) ==
    /\ At(p, Working)
    /\ Goto(p, "killed")
    /\ IF held[p] \/ pc[p] \in {"io", "relock"} THEN LeftOpen ELSE collection' = collection
    /\ Mishap
    /\ UNCHANGED <<agent, opens, past, wallet, giveup, quiet, mine>>

(* ssh-keygen -p                                                            *)
KeyReencrypted(k, p) ==
    /\ p # opens[k]
    /\ opens' = [opens EXCEPT ![k] = p]
    /\ past' = [past EXCEPT ![k] = @ \cup {p}]
    /\ Mishap
    /\ UNCHANGED <<agent, wallet, collection, giveup, quiet, mine, pc>>

(* ssh-add -d, or the lifetime the agent was given.                         *)
KeyLeavesAgent(k) ==
    /\ k \in agent
    /\ agent' = agent \ {k}
    /\ Mishap
    /\ UNCHANGED <<opens, past, wallet, collection, giveup, quiet, mine, pc>>

RetryWindowPasses(k) ==
    /\ giveup[k] = "fresh"
    /\ SetGiveup(k, "stale")
    /\ Mishap
    /\ UNCHANGED <<agent, opens, past, wallet, collection, mine, pc>>

Outside ==
    \/ \E p \in Procs : Killed(p)
    \/ \E k \in Keys : \/ KeyLeavesAgent(k) \/ RetryWindowPasses(k)
                       \/ \E p \in Passes : KeyReencrypted(k, p)

Next ==
    \/ \E s \in Loaders : LoadBegins(s) \/ LoadStep(s)
    \/ \E b \in Brokers : BrokerStep(b) \/ \E k \in Keys : BrokerBegins(b, k)
    \/ \E p \in Procs : WalletStep(p)
    \/ Outside

Spec == Init /\ [][Next]_vars

(* What a process does by itself, and the answer of a user or a wallet,     *)
(* each of which is waited for no longer than its time budget.              *)
Fairness == \A p \in Procs : WF_vars(LoadStep(p) \/ BrokerStep(p) \/ WalletStep(p))

-----------------------------------------------------------------------------
(* The properties.                                                          *)

TypeOK ==
    /\ agent \subseteq Keys
    /\ opens \in [Keys -> Passes]
    /\ past \in [Keys -> SUBSET Passes]
    /\ wallet \in [Keys -> Passes \cup {NoPass}]
    /\ collection \in {"locked", "open", "ajar"}
    /\ giveup \in [Keys -> {"none", "fresh", "stale"}]
    /\ pc \in [Procs -> Working \cup {"idle", "done", "killed"}]
    /\ call \in [Procs -> {"lookup", "store"}]
    /\ held \in [Procs -> BOOLEAN]
    /\ key \in [Procs -> 0..NumKeys + 1]
    /\ snap \in [Procs -> SUBSET Keys]
    /\ pass \in [Procs -> Passes \cup {NoPass}]
    /\ attempt \in [Procs -> 0..MaxAttempts]
    /\ asks \in [Procs -> [Keys -> 0..MaxAttempts + 1]]
    /\ dismissed \in [Procs -> SUBSET Keys]
    /\ quiet \in [Procs -> SUBSET Keys]
    /\ onDismiss \in {"stop", "skip", "retry"}
    /\ mishaps \in 0..MaxMishaps

(* What the wallet holds for a key is a passphrase that opened it (F66): no *)
(* typo gets there from load-keys, whose ssh-add tried it, nor from the     *)
(* broker, which tries it itself, whoever re-encrypts the key meanwhile. A  *)
(* key the broker cannot try is the one exception.                          *)
WalletHoldsWhatOpened ==
    \A k \in Readable : wallet[k] \in past[k] \cup {NoPass}

(* No load-keys asks about one key more often than configured (F8), whether *)
(* what it got were wrong answers, blank ones or dismissals to be retried.  *)
AskedAtMost == \A s \in Loaders, k \in Keys : asks[s][k] <= MaxAttempts

AsksAbout(s, k) == asks'[s][k] # asks[s][k]

(* A dismissal is the last question of the batch under "stop", and the last *)
(* about that key under "skip" (F38).                                       *)
TakesNoForAnAnswer == [][\A s \in Loaders, k \in Keys : AsksAbout(s, k) =>
    /\ onDismiss = "stop" => dismissed[s] = {}
    /\ onDismiss = "skip" => k \notin dismissed[s]]_vars

(* A shell asks nothing about a key that was given up on before it opened   *)
(* and has stayed so (F8).                                                  *)
GivenUpStaysQuiet == [][\A s \in Loaders, k \in Keys :
    AsksAbout(s, k) => k \notin quiet[s]]_vars

(* A key is given up on only after one batch asked about it as often as it  *)
(* may: never for a dismissal that turned it down (F38), for a program that *)
(* would not run, or for a wallet that would not open.                      *)
GivenUpOnlyAfterAsking == \A k \in Keys : giveup[k] = "fresh" =>
    \E s \in Loaders : /\ asks[s][k] = MaxAttempts
                       /\ onDismiss = "retry" \/ k \notin dismissed[s]

(* Once every process has ended the collection is locked again, however     *)
(* their calls interleaved, unless one was killed or could not lock it.     *)
LockedAtRest ==
    (\A p \in Procs : pc[p] \in {"idle", "done", "killed"}) => collection # "open"

(* Every batch ends: no sequence of answers keeps a login shell asking.     *)
EveryBatchEnds == \A s \in Loaders : pc[s] = "next" ~> pc[s] \in {"done", "killed"}

(* A lookup with nothing wrong around it finds what the wallet holds, so a  *)
(* key whose passphrase is saved loads with no prompt (F5).                 *)
LookupFindsStored == [][\A p \in Procs :
    /\ At(p, {"io"}) /\ pc'[p] # pc[p]
    /\ call[p] = "lookup" /\ mishaps' = 0
    => pass'[p] = wallet[key[p]]]_vars
=============================================================================
