# Verifying sshakku

sshakku gives every login shell a working `ssh-agent` with the account's keys
in it: it finds or starts one agent per account behind one fixed socket, loads
the keys of the key directory into it with passphrases kept in a wallet, answers
`ssh` when it asks for a passphrase, takes keys out when their time is up, and
moves, protects and configures what it looks after. Nothing of it stays running:
every shell that opens is one more process doing all of it at once with the
others, over state that lives in files, sockets, an agent and a wallet. That is
where it can go wrong, and what these TLA+ modules are about.

Paths below are relative to the repository; `F38` and the like are the entries of
`docs/FEATURES.md` that the source comments refer to.

## 1. Inventory

Each part of the system, what it keeps, what it does, and what would make it
correct. The heading says whether a part is modelled, partly modelled or not;
section 3 names its module and section 6 says what is left out and why.

### 1.1 The agent's lifecycle (`internal/agent`) — modelled

*State.* The directory of the fixed socket (a socket, a symlink to an adopted
agent's socket, a stale file, or nothing; the staging link `.adopt`), the
processes of the machine, `agent.state` (pid and socket of the agent that was
started), the lock file.

*Operations.* `EnsureAgent` (`ensure.go:82`): probe the fixed socket; take the
lock, waiting no longer than `FlockLocker.Wait`, then going on without it; probe
again; `Reap` the dead agents of this account; survey the healthy ones
elsewhere; adopt the one with the lowest pid through a renamed symlink, or clear
the path, start an agent and record it.

*Interaction.* Called by `shell-init` before anything else; it shares all its
state with every other login, and with agents and people that know nothing of
sshakku.

*Hard.* Two logins at once; a login without the lock; probes that are out of date
when they are acted on; agents that handle a signal when the login that sent it is
long past it, and unlink a path by name; a kill between any two steps. *Correct
when* a shell is handed a live socket and no other login takes it away; nobody
else's agent is used; only dead agents of this account are signalled; one agent on
the fixed socket goes on; every login ends.

### 1.2 Loading keys and answering ssh (`internal/keys`: load, askpass, keyadd) — partly modelled

*State.* The agent's keys, the wallet and whether its collection is locked
(shared by every process of the session), the give-up records
(`internal/giveup`), the passphrases of the key files.

*Operations.* `LoadKeys`: for each key not excluded, not in the agent and not
given up on, try the stored passphrase, then ask up to `max_attempts` times; add,
store, and clear or write the give-up record; lock the wallet at the end.
`Broker.Answer`: look up, try, ask, try again, store.

*Interaction.* `LoadKeys` runs `ssh-add`, which runs the askpass helper, which
fetches the passphrase through the handoff (1.5). Any number of shells and
brokers run at the same time.

*Hard.* One process locks the collection under another; keys re-encrypted between
check and store; dismissals that mean three different things; kills that leave
the collection open. *Correct when* only a passphrase that opened its key is
stored, nobody is asked more than configured, a "no" is taken for one, a key is
given up on for the right reason and stays quiet for its time, the collection is
locked at rest, and every batch ends.

### 1.3 Key lifetimes (`internal/keys/expire.go`, `internal/keystate`) — modelled

*State.* One record per key, under its base name: when it was added, for how
long, from which file; the keys in the agent.

*Operations.* `saveKeyState` after an add; `ExpireKeys` at the start of a session
where the agent expires nothing itself (Windows): `ssh-add -d` for every overdue
record, then `Forget`.

*Hard.* Records that are torn, unreadable, or of a key that has been removed,
re-added or moved since; an `ssh-add -d` that fails with the key in place; another
session loading a key again while this one sweeps. *Correct when* no key outlives
its lifetime once a session has swept, none goes early, no record is acted on for
ever, and keys the user added are left alone.

### 1.4 move-keys (`internal/cli/movekeys.go`, `internal/keys/move`, `internal/config/write.go`) — modelled

*State.* Where each key file is, `key_dir` in `config.toml`, and whether a login can
read it there.

*Operations.* Refuse what cannot succeed; prepare the directory; rename and
permit file by file, putting back what was moved when one fails; write the
configuration, and move everything back when that fails.

*Hard.* Any call may fail, the putting back too, and the run may be killed; the
configuration may be one that a new line makes no difference to.
*Correct when* the configuration never runs ahead of the keys, nobody's file is
replaced, and the user is told where the keys are.

### 1.5 Passphrase handoff (`internal/keys/handoff`, `internal/keyring`) — modelled

*State.* Per token, a kernel keyring entry with or without an expiry, or a socket
with one goroutine that accepts and one timer.

*Operations.* `Stash` before an `ssh-add` is run, `Fetch` by the helper it asks.

*Hard.* An accept racing the timer; an `ssh-add` that asks again for as long as it
is told a wrong passphrase; a load-keys that is killed; an expiry that could not be
set. *Correct when* a passphrase is told at most once and does not stay behind.

### 1.6 Session log (`internal/sessionlog`) — modelled

*State.* The log file, its lock. *Operations.* `Log`: wait for the lock, append,
and under the lock trim to the last lines by truncating and writing again. *Hard.*
A writer that gave up waiting appends while the holder trims. *Correct when* a line
written under the lock stays until enough newer ones push it out.

### 1.7 Wallets (`internal/keys/wallet`) — modelled

*State.* The items of a store, SSHakku's and the user's own; a Bitwarden session; a
KeePassXC database password; for KeePassXC's own protocol a connection with frames
in flight and the association file.

*Operations.* Lookup, store, delete, list, each a sequence of commands or system
calls (`secret-tool`, `op`, `bw`, Credential Manager, keychain, `keepassxc-cli`), or
of frames over a socket.

*Hard.* Commands whose failure cannot be told from a miss; stores that delete
before they create; a search term taken for a name; stores with no mark to tell an
item of ours from one of the user's by; a call given up on that lands later
(`run/deadline.go`); two shells at one name; announcements and late answers
between the answers; two keys that share a URL. *Correct when* the user's own
items are left alone, what was forgotten is gone, what was saved is not lost
without a word, a passphrase is there once, a lookup answers for its own key, and
nobody is asked to approve what was approved.

### 1.8 Secret Service client (`internal/secretservice`) — modelled

*State.* Collections known by alias or label, unlocked or not; dialogs; a signal in
a channel. *Operations.* Find or create the collection, unlock, the four operations,
lock; raise a dialog, wait for its signal, dismiss it. *Hard.* Any call may want a
dialog first; the wait may end while the user answers. *Correct when* no dialog is
left that nobody waits for, and there is one collection.

### 1.9 Prompts (`internal/keys/prompt`, `internal/cli/dialog`) — modelled

*State.* The chain of dialogs of this session; the terminal's echo. *Operations.*
Try one after another, end at the terminal. *Hard.* Errors in the middle of a read,
two askers on one terminal. *Correct when* the terminal shows what is typed again
however the question ended.

### 1.10 Installer (`internal/install`) — partly modelled

*State.* Hooks, blocks in startup files, drop-in directories beside them, the
stored search list and the record of what it was. *Operations.* `Install`,
`Uninstall`, for an account or the machine. *Hard.* Stopping anywhere; the user
changing the same files; where a wiring belongs being asked of a disk that has
changed since; two shells that run one hook. *Correct when* no startup file runs a
hook that is gone, the record is of the list as it was before, and an uninstall
leaves nothing wired.

### 1.11 protect-keys (`internal/keys/protect`) — modelled

*State.* Which files are covered. *Operations.* Survey, confirm, cover, read back.
*Hard.* A call that reports success and does nothing, files that come and go.
*Correct when* a run that ended well covered what it set out to.

### 1.12 Configuration (`internal/config`) — modelled

*State.* What `config.toml`, the drop-ins and the environment state of a setting.
*Operations.* `Resolve`, `Explain`, `config --edit`. *Hard.* Blank, refused and
unknown values; the value and the report of its origin are computed apart. *Correct
when* the reported origin is what decides.

### 1.13 The agent as a Windows service (`internal/agent/service*.go`) — modelled

*State.* What the service manager says of the service, and whether its endpoint
listens. *Operations.* Probe, ask, start once, poll within a budget, probe again.
*Hard.* Several logins, a service on its way up or down, stopped or disabled
meanwhile. *Correct when* every login ends, and is refused only for a cause.

### 1.14 Parts not modelled, or only where they are used

| Part | Why |
|---|---|
| doctor and diagnosis (`internal/diagnose`, `cli/doctor.go`) | reads what the other parts keep and changes nothing |
| command line (`internal/cli`) | chooses a command and wires the parts; the order `shell-init` calls them in is modelled where they are |
| paths, platform, sshtools | names and lookups with no state |
| running programs (`internal/run`) | partly: a command stopped at its budget, and the call `WithDeadline` stopped waiting for, are in `Wallets`; pipes, process groups and output limits are left out |
| test helpers, `tools/` | no part of the program |

`PROJECT.json` lists the same parts, and under `hazards` each thing that is hard
to test, at the line where it bites, with the property that would catch it.

### 1.15 How the parts meet

The hook in the shell's startup file runs `shell-init`, which calls `EnsureAgent`
(1.1) and then `ExpireKeys` (1.3), and after it `load-keys` (1.2); `move-keys`
(1.4) is run by hand. What passes between them is small, and is the seam the
modules are cut along:

- 1.1 hands 1.2 a socket that answers: KeyLoading and KeyExpiry start from an
  agent that is there;
- 1.2 writes the records 1.3 goes by, through `saveKeyState`: KeyExpiry has
  `ListsAgent`, `Adds`, `SavesState` for that part of `LoadKeys` and leaves the
  asking to KeyLoading;
- 1.4 changes the paths those records name: `MovesKeys` in KeyExpiry is the net
  effect of a run of MoveKeys that ended in `moved`;
- 1.2 takes the handoff (1.5), the prompt (1.9) and a store (1.7, 1.8) as calls that
  answer or fail. What those calls do to each other's state is in the modules of
  the parts; that a passphrase is told once, and that a call ends within its budget
  whatever it did, is what KeyLoading's single step for each of them rests on.

## 2. The modules, and what is left

| Module | Abstract specification | Runs | Proofs |
|---|---|---|---|
| `AgentLifecycle` | `SessionAgent`, as the property `KeepsPromise` | agent_logins, agent_worst, agent_slow | `AgentLifecycleProofs` |
| `AgentService`, `Handoff`, `SessionLog` | — | parts | `SessionProofs` |
| `KeyLoading` | — | keys_together, keys_batch, keys_silent | `KeyLoadingProofs` |
| `KeyExpiry` | — | expiry | `KeyExpiryProofs` |
| `MoveKeys` | — | parts, move_back | `MoveKeysProofs` |
| `Installer` | — | expiry, left_wired | `SetupProofs` |
| `ProtectKeys`, `Configuration` | — | parts | `SetupProofs` |
| `Wallets` | — | wallets, wallet_forget | `StoresProofs` |
| `SecretService`, `Prompts` | — | wallets | `StoresProofs` |
| `KeePassXC` | — | expiry | `KeePassXCProofs` |

`MCAgentLifecycle`, `MCKeyLoading`, `MCKeyExpiry`, `MCParts` and `MCWallets` are the
instances for TLC. The last three hold several parts that share no state; section
4.2 says how and why that is sound.

Every invariant and action property of the passing runs is a theorem (section 5).
Worth doing next: an abstract store that says what each of the six of `Wallets`
promises, with the refinement of one by the other; the reading and removing of a
give-up record as steps of their own, with the time its quiet is to last; and
`KeyLoading` over `Handoff` and `Wallets` as a composition, which is beyond what
TLC enumerates today and may be within the prover's reach.

## 3. The modules and the code

### 3.1 AgentLifecycle and SessionAgent

A step is one system call, or one probe, that another process can tell apart: the
code between two of them touches only the login's own variables. `pc` names where
a login is in `EnsureAgent`; the table gives the code of each action.

| Actions | Code |
|---|---|
| `Begin`, `FastProbe` | the probe before the lock |
| `TakeLock`, `LockTimesOut`, `LockFails` | `FlockLocker.Lock`: got it, went on without it, failed |
| `Recheck` | the second probe |
| `ListAgents`, `ListFails` | `Inspector.Agents`, for the reaping and again for the survey |
| `ReapProbe`, `Kill`, `Unlink`, `ReapEnds` | the loop of `Reap`: probe and guards, `Terminate` (the signal is sent and not waited for), `removeSocket` |
| `Survey`, `SurveyEnds` | `healthyForeign` |
| `Unstage`, `Stage`, `Swap` | `adoptOne`: remove `.adopt`, `Symlink`, `Rename` |
| `Clear`, `Start`, `Unbind`, `Spawn`, `SpawnFails`, `Record`, `RecordFails` | `startOurOwn` and `Manager.Start` |
| `Leave` | the shell is killed, or has its answer and ends |
| `AgentStarts`, `AgentHangs`, `AgentResumes`, `AgentHandlesTerm`, `AgentDies`, `AgentStops`, `SocketVanishes` | the rest of the machine; external |

A socket node carries the pid that bound it, so that binding a path again is
another socket and a client of the old one is not a client of the new. `ssh-agent`'s
own clean-up unlinks its path by name whatever is there by then (`Exits`). Nobody
waits for it: `Kill` leaves the SIGTERM pending in `sig`, and an agent that runs
gets to it at any time after (`AgentHandlesTerm`), when the login may have started
another on that path. Taking that one's socket (`Overtaken`) counts for `met` like a
move of the outside.

`met` is history: `nothing` while neither the outside has moved nor a login gone
on without the lock nor a late clean-up overtaken another's socket since this
login began, `outside` or `race` afterwards. The promise to a login holds while
`met` is `nothing`; a login that begins while another is racing begins in `race`.

`SessionAgent` is the promise on its own: three variables, `up`, `phase`,
`promised`. A login that is promised an agent is told of a live one, and keeps it
until the promise is broken from outside. `KeepsPromise` states that
`AgentLifecycle` implements it, with `up` the reachability of the fixed socket.

### 3.2 KeyLoading

A key is its place in the directory, a passphrase a name. A step is one call on
the agent, the wallet, the user or the give-up store.

| Actions | Code |
|---|---|
| `LoadBegins`, `Skip`, `Consider`, `BatchEnds`, `LockUp` | `LoadKeys` and `loadOne`: fingerprints once, exclusion, give-up, deferred `Lock` |
| `EnsureUnlocked`, `Bracket`, `WalletAnswers`, `Relock` | `sessionBackend` over `SecretService`: unlock for the batch, or unlock, call, lock around one call |
| `TryStored`, `Ask`, `AddTyped`, `Loaded`, `Exhausted` | `tryStoredPassphrase`, the attempt loop, `promptFailureOutcome`, `addWithRetries` |
| `BrokerBegins`, `BrokerVerifies`, `BrokerAsks`, `BrokerChecks` | `Broker.Answer`, `storePassphrase` |
| `Killed`, `KeyReencrypted`, `KeyLeavesAgent`, `RetryWindowPasses` | outside |

`collection` has a third value, `ajar`, beside locked and open: open because a
process was killed or could not lock it. It behaves as open and tells
`LockedAtRest` who is to blame. `past`, `asks`, `dismissed` and `quiet` are
history. Finding an item and reading its secret are one step: both are reads
under the same lock state but for a lock in between, which gives the same miss.

### 3.3 KeyExpiry

| Actions | Code |
|---|---|
| `Opens`, `Removes`, `RemovalRefused`, `CannotRemove`, `Forgets`, `Swept` | `ExpireKeys` and `remove`: `Records` and the clock once; `ssh-add -d` that works or has nothing to take out, exits non-zero with key and file in place, or cannot be run to its end; `Forget` |
| `ListsAgent`, `Adds`, `SavesState`, `Closes` | `LoadKeys`, as far as records go |
| `Killed` | a session ends anywhere, and a record it was writing is torn or not |
| `UserAdds`, `UserRemoves`, `MovesKeys`, `Tick` | the user, `move-keys`, the clock |

Expiry on the agent's side is absent because the sweep runs only where the agent
has none. Any number of sessions open at once and go by one set of records.
`added`, `unrecorded`, `displaced`, `renewed`, `forgotten` and `spared` are history:
they say which keys the sweep has no way to know of, or drops the record of, and so
are the excuses the properties grant, by name.

### 3.4 MoveKeys

| Actions | Code |
|---|---|
| `Refused`, `Accepted`, `Prepare` | `moveKeysRefusal`, `prepareKeyDir` |
| `MoveOne`, `PermitOne`, `PutBack`, `PutBackEnds` | `Apply` and `putBack` |
| `WriteConfig`, `AllBack` | `SetKeyDir`, and the second `Apply` that brings everything back |
| `Killed`, `Intrudes` | outside |

`way` is the direction `Apply` is going; the way back is the same code over the
reversed plan, with permissions kept. Its order does not matter to any property
and the model goes by number both ways. A plan onto the same directory is not a
move and is left out; what decides `key_dir` is the user's own file or one read
later (`decides`). The user's own file may be plain, may not parse, or may end in
a table that an appended line falls into (`form`); `SetKeyDir` edits all three
alike, and where logins look afterwards is `ReadFrom`, from `Load`.

### 3.5 Handoff

A step is one system call of load-keys, of the `ssh-add` it runs, of the helper, or
of the goroutine behind the socket. `hoPlace` is where a token's passphrase is: a
keyring entry, a socket that listens, in the listener's hands, or nowhere.

| Actions | Code |
|---|---|
| `Stashes`, `CannotStash`, `SetsExpiry` | `Stash` on the keyring, `socketHandoffStash` |
| `Accepts`, `Serves`, `GivesUp`, `Closes`, `Elapses` | `serveSocketHandoffOnce`; `GivesUp` is the other case of its `select`, ready at the same time or not |
| `Dials`, `ReadsEntry`, `Unlinks`, `GetsNothing`, `FindsNothing`, `FetchTimesOut` | `Fetch` of either kind |
| `AsksHelper`, `HearsHelper`, `Exits`, `AddTimesOut` | `ssh-add`, and `ExecKeyAdder`'s budget on it |
| `LoaderKilled`, `HelperKilled` | outside |

### 3.6 AgentService

`LogsIn`, `Probes`, `AsksState`, `StartsService`, `WaitsAgain`, `ProbesAgain` are
`ServiceAgent.EnsureAgent` and the loop of `ensureServiceRunning`; the rest is the
service manager and whoever administers it. A start that finds the service started
by another login meanwhile is no error (`StartedBySomebody`, `service_windows.go`).

### 3.7 SessionLog

`Logs`, `Locks`, `GivesUpLock`, `Appends` are `Log` and `lock`; `ReadsBack`,
`Truncates`, `WritesBack` are `trim`, whose `os.WriteFile` is two steps. A line is
the number it was appended as.

### 3.8 Wallets and KeePassXC

`Wallets` has one store configured (`kind`) and one action per command of each
store's client, named after it: `OpGet`, `OpDelete`, `OpCreate`, `OpList`;
`BwUnlock`, `BwFind`, `BwGet`, `BwEdit`, `BwCreate`, `BwDelete`, `BwList`,
`BwLock`; `KpUnlock`, `KpShow`, `KpAdd`, `KpEdit`, `KpSearch`, `KpRm`, `KpPurge`,
`KpList`; and the calls of secret-tool, Credential Manager and keychain. A command
that is stopped at its budget, or fails, may have done what it was for
(`Changes`). The calls into a system library go through `Bounded`: given up on,
they stay in `late` and land whenever they like, which is `WithDeadline`. `bw get`
takes a search term: items whose name contains ours answer it too (`Answering`),
and an edit or a deletion then takes another's item (`BwTakesAnother`). The user
adds and removes items of any name, ours included. 1Password's tag and KeePassXC's
group tell those from ours (`Marks`); the other four stores have nothing to tell
them by, and there they count as ours. `blind`, `crowded` and the value `Untold`
of `kept` are history, and name the excuses the properties grant: a failed look
taken for a miss or another's item for our own, two at one name, and a loss nobody
is told of.

`KeePassXC` has a step per frame: `Connects`, `Reads`, `TimesOut`, `FailsAtOnce`
are `Connect` and `exchangeWithin` (a decoder keeps the error it got, so after one
timeout every later read of the connection fails at once); `LoadsAssociation`,
`AsksApproval`, `KxFound`, `CouldNotSee` are `association`, `associate`, `Lookup`
and `Store`; `SaveBegins`, `SaveEnds` the association file written in place.
KeePassXC itself answers, declines, announces and raises dialogs as its protocol
has it.

### 3.9 SecretService

A step is one D-Bus call. `SsBegins`, `ReadsAlias`, `Finds`, `SsCalls`, `SsReads`
are the client and the backend over it; `SsCalls` has three outcomes, done, a
prompt, or a failure that may have been done. `RaisesDialog`, `HearsDialog`,
`StopsWaiting` are `completePrompt`. `UserAnswers` is the desktop.

### 3.10 Prompts

`Chooses` is `Graphical` and `chooseDialog`, once per session; `AnswersPrompt`,
`Dismisses` and `DoesNotAsk` what a dialog makes of its question, per program;
`OpensTerminal` to `RestoresEcho` are `ReadTTYLine` and its deferred calls.

### 3.11 Installer

`Renders`, `Wires`, `ReadsPath`, `RecordsPath`, `WritesPath` are an install,
`Unwires`, `RemovesHook` and the same path steps an uninstall; places are worked
out at `Begins`, before any writing, as `resolve` does. `StopsShort` is a failure
or a kill between any two. The user edits files, makes and removes drop-in
directories and changes the search list, between runs and during them. Bash stands
for the Bourne shells. The two editions of PowerShell have startup files of their
own and, as `hookName` has it, one hook file per scope between them (`HookOf`),
which the uninstall of either removes.

### 3.12 ProtectKeys

`LooksAt`, `Plans`, `Lists`, `AnsweredYes`, `AnsweredOtherwise`, `Protects`,
`ReadsItBack`, `Reports` are a run of `protect-keys`. `pkBeen` is history: the paths
that have been covered at some time since the run began.

### 3.13 Configuration

One setting is followed at a time, of each kind the table in `provenance.go` and
the resolvers in `file.go` know: with a variable or without, refused or defaulted
when unusable, blank meaningful or not. `InForce` is `Resolve`; `StatedBy`,
`IsRefused`, `Overruled` are the report of `Explain` and of `config --edit`,
translated from their own code and not from `InForce`.

## 4. What the runs check

Deadlock is checked in the three lifecycle runs, where a shell can always end and
be opened again. It is not in the others: batches, brokers, installs and bounded
counts do end.

| Run | Instance | Shows |
|---|---|---|
| agent_logins | 2 logins, 3 processes, two paths elsewhere (one another account's), 2 outside moves (1 while logins race), the wait for the lock elapsing or not | for the logins nobody races, `HandedSocketLive`, `OneAgentOnFixed`, `RecordedAgentServes` and the refinement `KeepsPromise`; always `SignalsOnlyOurDead` |
| agent_worst | 2 processes, 1 outside move, agents that answer after missing a probe, and one login stuck for good anywhere | what rests on neither the lock nor on agents answering in time: `FixedOnlyOurs`, `OthersEnd` |
| agent_slow | agents that answer after missing a probe | a finding: `HandedSocketLive` is violated |
| keys_together | 2 load-keys and a broker over one key, two passphrases, 1 mishap | `WalletHoldsWhatOpened`, `GivenUpOnlyAfterAsking`, `LockedAtRest`, `GivenUpStaysQuiet` |
| keys_batch | one load-keys over 3 keys, one excluded, one not stored, 1 mishap; with fairness | `TakesNoForAnAnswer`, `EveryBatchEnds` |
| keys_silent | 2 load-keys and a broker, nothing failing | a finding: `LookupFindsStored` is violated |
| expiry | lifetimes: 1 key, 2 sessions that overlap, lifetime 2, clock to 4, 2 mishaps, the key moved between sessions. KeePassXC: 2 clients, 2 keys of one URL, 2 passphrases, 2 calls, 1 late or refused exchange, 1 lock, unlock or revocation. Installer: 3 runs, 1 edit | `NoneOutlives`, `NoneTakenEarly`; `LookupTellsTheTruth`, `OneEntryEach`, `AskedOnlyWithout`; `NothingRunsWhatIsGone`, `RecordIsOfBefore` |
| wallets | stores: each of the six, 2 shells, 2 passphrases, 2 items, 1 failure, 1 outside change, one name that contains another. Secret Service: 2 clients, 2 operations, 2 collections, 1 failure. Prompts: 2 askers, 2 misfortunes | `OthersLeftAlone`, `ForgottenIsGone`, `LossIsReported`, `OneCopy`; `NoDialogForNobody`, `OneCollection`; `TerminalGivenBack` |
| wallet_forget | keepassxc-cli, 2 shells, 1 failure | a finding: `ForgottenFromTheFile` is violated |
| parts | move-keys: 4 files, 3 failures, 1 other file. Handoff: 2 keys, 2 misfortunes. Service: 2 logins, 2 polls, 2 troubles. Log: 3 writers, 2 lines kept, 4 written, 2 misfortunes. protect-keys: 2 keys, 2 runs, 2 changes by others, 1 failure. Configuration: every kind of setting, 4 changes | `SaysWhatIsSo`, `ConfigNeverAhead`, `NothingOverwritten`; `ToldOnce`, `NoneLingers`; `RefusedForCause`, `LoginsEnd`; `HeldLinesStay`; `SuccessIsReal`; `ReportsAreTrue` |
| move_back | 4 files, 2 failures | a finding: `SaysOfTheWayBack` is violated |
| left_wired | 2 runs, 1 edit | a finding: `NothingLeftWired` is violated |

Each property of a passing run has a mutant of the code it is about under which
TLC finds it violated (`PROJECT.json`, `mutants`); the mutated operators are in
the modules next to the ones they change, marked as such. `OneTypeOK`,
`StoresTypeOK` and `PartsTypeOK` are the type invariants of the parts of a run
together. All three are proved as well, and so are those of `AgentLifecycle` and
`KeyLoading`, which no run checks (section 5).

### 4.1 Findings

- **agent_slow** — one unanswered two-second probe is taken for death
  (`agent/manage.go:94`). An agent waiting for its user answers nobody meanwhile;
  it is signalled and its socket unlinked after a second login has been told it
  is healthy. `ensure.go:78` promises a shell is never left at a dead socket.
- **keys_silent** — `SecretService.Lock` (`secretservice_linux.go:89`) locks the
  collection for every process: a load-keys that holds it open for its batch
  misses a passphrase that is saved, and asks. `wallet.go:95` says it stays
  unlocked until `Lock` is called; F5 says the key loads silently.
- **move_back** — when the configuration cannot be written, the error of the way
  back is dropped (`movekeys.go:74`). A rename that fails there makes that `Apply`
  put back forward what it had moved; all keys end in the new directory and the
  user reads "Nothing was moved; your keys are where they were."
- **wallet_forget** — `CLI.Delete` takes every exit that is not zero for a missing
  entry (`keepassxc/cli.go:270`): an `rm` that fails, or a search under a mistyped
  password, makes forgetting a success with the entry still in the file.
- **left_wired** — an uninstall asks the disk where a wiring would go
  (`install/apply.go:192`). A `~/.profile.d` made since the install has it look
  there only, remove the hook and leave the block in `~/.profile`.
  `docs/CLI.md:296` says it sweeps every file an install could have chosen.

Disagreements met while modelling that have no run of their own, each visible to
TLC as soon as the excuse is taken out of the property that names it:

- `Terminate` returns when the signal is sent (`manage.go:100`). An agent whose
  socket file has vanished is signalled, the login starts its own on the fixed
  path, and the old one's handler then unlinks that by name: `AgentHandlesTerm`
  with `Overtaken`, excused through `met` in `HandedSocketLive`,
  `RecordedAgentServes` and `KeepsPromise`, and through `sig` in
  `OneAgentOnFixed`; against `ensure.go:78`;
- a `config.toml` that does not parse, or that ends in a table, is edited all the
  same and "moved" is said, while every login falls back to the default directory:
  `KeyDirDecidedElsewhere` (`config/write.go:152`), whose comment is about that
  very outcome, looks at no file's error, and `Load` (`file.go:413`) returns the
  zero `File` (`form` in `SaysWhatIsSo`);
- an `ssh-add -d` that exits non-zero with the key in the agent and its file in
  place loses the record (`expire.go:119-127`; `forgotten` in `NoneOutlives`),
  against F53; the comment at `expire.go:92` knows two reasons for such an exit,
  and this is a third;
- a sweep forgets by base name the record another session has written since the
  sweep read it (`expire.go:125`; `forgotten` in `NoneOutlives`), or takes out the
  key it was written for (`renewed` in `NoneTakenEarly`);
- a kill between 1Password's delete and create (`onepassword.go:201-219`), a
  deletion that was given up on and lands late (`deadline.go:39`), and an edit or
  deletion of another name's item in Bitwarden lose a saved passphrase with nobody
  told (`Untold` in `LossIsReported`);
- `bw get` takes a search term (`bitwarden.go:66-68`), so an item whose name
  contains ours is read, overwritten and renamed, or deleted (`blind` in
  `OthersLeftAlone`), and in Bitwarden, secret-tool, Credential Manager and the
  keychain the user's own item under our name is taken for ours (`Marks` in
  `UserAdds`), against F27 and `bitwarden.go:79-82`;
- uninstalling one edition of PowerShell removes the hook that the other's profile
  runs (`apply.go:205`, `hookName` at `apply.go:522`; `inBereft` in
  `NothingRunsWhatIsGone`), against F19;
- a record names the path a key was added from, and after `move-keys` the removal
  is refused and the record dropped (`expire.go:125`; `displaced` in
  `NoneOutlives`), so the key outlives its lifetime, against F53;
- a record outlives its key: one the user removed and added by hand is taken out by
  the next sweep (`expire.go:80`; `agent` in `NoneTakenEarly`), against
  the comment at `expire.go:47`;
- an editor stated blank in a drop-in is reported as decided there while the file
  before it is in force (`statedEditor`; excluded by `ReportsAreTrue`);
- two askers on one terminal: the second finds the echo off and puts that back
  (`tty_unix.go:93`; `prShared`), and what is typed while the first has already
  restored it is seen, against `tty_unix.go:46`;
- a kill while the association file is written leaves one that cannot be parsed,
  and neither lookup nor save gets past it (`association.go:64`, `KxTorn`);
- kdialog, zenity and osascript that start and then cannot draw are taken for a
  dismissal, and the chain ends there, where pinentry hands the question on.

### 4.2 Bounds, and why they are enough

- *Parts in one run.* `MCParts`, `MCWallets` and `MCKeyExpiry` choose one part at
  the start (`part`) and leave the others as they began. The modules share no
  variable, so a behaviour of a part alone is a behaviour of the run and a
  property of one part is checked in exactly the states it is about. Fairness is
  stated for the steps of the parts that have it, and is vacuous for the others.
- *Two logins, symmetric.* Every race in the lifecycle is between the one that
  holds the lock, or went on without it, and another; `Leave` and `Begin` let the
  second be any number of shells after each other.
- *Pids* are handed out in ascending order and not used twice. Three are enough
  for an agent that was there, one that replaces it and one of somebody else's;
  `agent_worst` has two, its graph being checked for liveness, and what it says of
  safety is also a theorem.
  Reuse of a pid within the milliseconds between a listing and a signal is left
  out; the model does have a process that is gone by then.
- *Elsewhere:* one path of this account's and one of another's. A path there is
  bound at most once: an agent restarted by its user with the `-a` path of one
  that a login is just reaping could have its new socket unlinked
  (`manage.go:103`), and the model leaves that out. `Theirs` are private
  directories: nobody else can bind in them.
- *The process list* is an atomic snapshot; what it lists may be gone, hung or
  silent by the time it is looked at.
- `RacesApart`: in `agent_logins` the outside moves twice, but not a second time
  while a login that went on without the lock is still about, and not at all there
  while an agent that was told to end still runs; it may again once that race is
  over.
- *A view of `agent_logins`.* `Seen` takes for one state those that differ only in
  what nothing can come back to: a pending signal of an agent that hangs (without
  slow agents it never handles it), which login's agent a record names where it
  names none that a login started, and the number of a process that is gone and on
  no login's list, but for the path of `Elsewhere` it has used up. No action's
  guard and none of the run's properties tells such states apart, so what is left
  out is a copy.
- `MaxOutside`, `MaxMishaps`, `MaxFailures`, `MaxIntruders` bound how often the
  world moves, calls fail and others interfere. `move_back` needs two failures;
  the three of `parts` cover a third during the putting back. Two mishaps in the
  `expiry` run cover an add not recorded followed by a removal that was refused or
  could not be asked for.
- `asks` counts one past `MaxAttempts` and no further: enough to see one too many.
- *The agent is empty* when KeyLoading begins: a key that is there already is
  skipped, and keys enter and leave it during the run.
- *KeyExpiry's clock* is coarse: a lifetime is hours and `ssh-add` is bounded by
  seconds, so it does not tick between a key's add and its record, nor does the
  user add the same key there. Four ticks are two lifetimes. One key directory, so
  base names differ. Keys move between sessions. Two sessions overlap at every
  step over one key: a record, a sweep and an add are of one key each, and what
  two keys share is the order a session goes through them, which the theorems
  leave open for any number of both.
- *Four files* in `MoveKeys` are two keys with their public halves; the proofs
  lift this bound and all the others of the module.

- *One service and two passphrases* in `Wallets`: items of other names are the
  user's. Names interact in two places. Bitwarden's search answers with an item
  whose name contains the one asked for: the run has one such name (`Longer`), and
  the theorems any, names of ours among them. KeePassXC's URLs are the other, and
  `KeePassXC` has two keys of one. Two items are one too many, or one of ours and
  one of the user's. The run's `VIEW` leaves out what an operation that is over
  answered and gave out: no action reads either again, and the properties that do
  are about the step that sets them, which TLC checks of every transition.
- *One failure* in `Wallets`, `SecretService` and `KeePassXC` is any one command,
  call or exchange going wrong, with every interleaving around it; several failing
  together are left out there. `Handoff`, `AgentService`, `SessionLog` and `Prompts`
  have two.
- *Three writers and two lines kept* in `SessionLog`: one trims, one holds back and
  one goes on without the lock; four lines push out two.
- *Three runs and one edit* in `Installer`: install and uninstall in any order,
  for any of three shells and either scope, the user acting once anywhere; two
  editions of PowerShell installed and one of them uninstalled take three. Bash
  stands for the Bourne shells: zsh's startup files and hook for a user are bash's.
  Machine-wide on macOS it has a file of its own (`machinewiring_darwin.go:15`) and
  shares the hook, which is the case of PowerShell's two editions over again.
- *One setting at a time* in `Configuration`: settings are resolved independently.

### 4.3 Fairness

`AgentLifecycle`'s `Fairness(stuck)` is weak fairness of `Progress(l)` for every
login that is not stuck: a running process takes its next step. `Progress` leaves
out the errors, so no wait is ended by one, and nothing is assumed of agents or
the rest of the machine. A probe answers or times out, so it is a step; the lock's
wait elapses because `FlockLocker` polls against a deadline. `OthersEnd` lets one
login be stuck anywhere, the lock in its hands included (`StuckSpec`). A login that
is killed or leaves is no longer working, and one that starts again is asked for
afresh. `agent_worst` checks `FixedOnlyOurs` under the same specification: fairness
takes no finite behaviour away.

`KeyLoading`'s `Fairness` is weak fairness of each process's own steps. The user's
answer is one of them because every prompt and every wallet call has a time
budget (`internal/run`) after which it fails, and a failure is an alternative of
the same step. Nothing is assumed of the outside.

`HandoffFairness` is weak fairness of each process's own next step and of the clock
that makes a time to live elapse; that load-keys or a helper survives, or that a
helper ever comes, is not assumed, and `NoneLingers` holds without. Fairness of
`AgentService` is that a login runs; of the service nothing is assumed, so what ends
a login is its budget.

The other modules have no liveness: they are straight lines between calls with a
time budget, or react to a user.


## 5. What is proved

TLAPS checks the theorems below for every value of the constants that satisfies
the named assumptions: any number of logins, shells, clients, processes, paths,
keys, items, lines or files, and any bounds. Every invariant and every action
property the passing runs check is stated by a theorem; liveness is not (5.9).

The assumptions on the constants say that names are distinct (`PathsAssumption`,
`NamesAssumption`, `KeysAssumption`, `ProcsAssumption`, `WritersAssumption`,
`WalletsAssumption`, and `KeePassXCAssumption`, where a passphrase must not be one
of the words an outcome is otherwise), that process ids are naturals, and that
bounds are numbers. One theorem hypothesis goes further, and is needed:
`~AllowSlowAgents`, for all about the lifecycle but its types, `Soundness` and
`FixedIsOurs`. It says that an agent which hangs does not answer again, and nothing
else: an agent that answers and was signalled still handles its SIGTERM at any time
later. Without it these are false: `agent_slow` is the counterexample. Lock timeouts
stay allowed.

What a property itself excuses (a login somebody raced, `crowded`, `blind`, a killed
process) is in the property, where the modules say why, and is not assumed.

### 5.1 AgentLifecycleProofs

- `TypeCorrect`: `TypeOK`, which also says that the lock is held only by a login
  inside the critical section, and that whoever signals has somebody to signal.
- `Soundness`: the inductive invariant `Sound`. `FixedOnlyOurs` alone is not
  inductive: a login adopts what it found several steps ago, through a link that
  was staged by perhaps another. So `Sound` adds, as named conjuncts, that a socket
  node belongs to a process started on that path (`SocketsBelong`), that links
  lead only to paths of this account (`LinksAreOurs`), that `.adopt` is only ever
  a link (`TmpOnlyLinks`), and that what a login has listed, found or is reaping
  was started, and is ours where it must be (`ListedStarted`, `FoundOurs`,
  `CurStarted`).
- `FixedIsOurs`: `FixedOnlyOurs`, with lock timeouts and slow agents.
- `OnlyOurDeadSignalled`: `SignalsOnlyOurDead`. It needs `CurSilent`, that the agent
  about to be signalled is not serving, and that is inductive only because a silent
  agent stays silent (`SilentStays`).
- `LoginsInOrder`: the invariant behind the four below, in three layers.
  `Excluded`: a login that met no race has the lock while it is inside
  (`LockHeld`), and one that races makes all that are at work with it logins that
  were raced (`RacesAreShared`), which is what keeps the excuse in the properties
  as small as the code's own. `Paths`: a pending SIGTERM is with an agent that
  serves no socket, hung or with its file gone, only the fixed path and `.adopt`
  are ever links, and what is linked to was bound, so that nobody can bind it
  again. `Orderly`: past its second look a login works on a dead fixed socket
  (`MutatesTheDead`); what still runs on it is in the list it reaps, and once it
  has reaped there is nothing left (`ReapsThemAll`); what it found answers until
  it adopts it (`FoundAnswers`); what it started is the only agent there that was
  not told to end (`StartedServes`), and the record is not rewritten after
  (`RecordStands`).
- `HandedSocketsLive` (`HandedSocketLive`), `StartedAlone` (`OneAgentOnFixed`) and
  `RecordIsTrue` (`RecordedAgentServes`), each from `Orderly`.
- `KeepsItsPromise` (`KeepsPromise`): `AgentLifecycle` implements `SessionAgent`
  under the mapping of `Up`, `Phase` and `Promised`. Init maps to Init; then each
  step, by the login it is of or the outside it is from, is an action of the
  promise or a stutter. All of a login's work inside is `asking`, and the promise
  binds those that met nothing (`Promised`).

### 5.2 KeyLoadingProofs

All of `KeyLoading`'s safety properties but `LookupFindsStored`, which is false.
A step is one process's and leaves the others' variables alone (`OthersStay`), so
each invariant is one about a process, or about how it and what is shared fit.

- `TypeCorrect`, with `KeysAt`: whoever is at a key is at one of the directory's.
- `OnlyWhatOpened` (`WalletHoldsWhatOpened`): a process on its way to store for a
  readable key has in hand a passphrase its key had (`StoresWhatOpened`).
  Re-encryption meanwhile is harmless because `past` only grows.
- `NothingLeftOpen` (`LockedAtRest`): while the collection is open, some process
  holds it, by its batch or in a bracketed call (`Holders`). Others may lock it
  under that process; none opens it without becoming a holder.
- `NeverAskedTooOften` (`AskedAtMost`): the number of questions is tied to the
  attempt a loader is at (`Here`), and keys still to come have had none (`Ahead`).
- `GivenUpForAReason` (`GivenUpOnlyAfterAsking`): from the same counting; the batch
  that gave up stays a witness because only a question changes its counts.
- `StaysQuiet` (`GivenUpStaysQuiet`): `Quiet` says that what has been quiet since a
  shell began is still given up on and is not the key the shell is at.
- `NoIsTakenForNo` (`TakesNoForAnAnswer`): from the counting, and that under `stop`
  a batch that goes on has been turned down for nothing.

### 5.3 KeyExpiryProofs

- `TypeCorrect`.
- `SweptKeysGo` (`NoneOutlives`), `NothingAskedTwice` (`AskedForOnce`) and
  `LifetimesLast` (`NoneTakenEarly`), for any number of keys, and of sessions that
  overlap in any way; keys may be moved and re-added, and removals refused. The
  invariant `Inv` ties the records to the agent: a record names its key's file where
  it is unless the key was moved since (`RecordsFind`), no session's clock is ahead
  (`ClocksPast`), a key of ours that was recorded, and neither moved nor forgotten
  under it, has its record, to the tick (`RecordsCount`), what a session is about to
  forget is out of the agent, moved, refused or renewed by another, and what it is
  about to record has just been added (`Handling`), what was overdue when a session
  opened is in its hands, renewed since or excused (`SweepingAll`), and once it has
  swept, nothing overdue is left (`SweptClean`).

### 5.4 MoveKeysProofs

- `TypeCorrect`, with the fact that the file at hand is a file of the plan.
- `ConfigFollowsKeys` (`ConfigNeverAhead`), `NobodysFileReplaced`
  (`NothingOverwritten`), `ToldWhatIsSo` (`SaysWhatIsSo`), for plans of any length
  and any number of failures. The invariant says where each file is by which side
  of `next` it is on and what is stranded (`WhereFilesAre`), that the
  configuration is untouched until the last file has arrived (`Unwritten`), and
  that what is in the way appeared after the look (`Checked`). Of the two cases
  the third theorem excludes, the way back failing is the finding of `move_back`,
  and a configuration that logins cannot take `key_dir` from is in 4.1.

### 5.5 SessionProofs: handoff, session log, the agent as a service

- `HandoffTypes`, `SessionLogTypes`, `AgentServiceTypes`, and `PartsTypes`
  (`PartsTypeOK`), of all the parts of `MCParts` together.
- `PassphrasesToldOnce` (`ToldOnce`): a token is counted as what was told of it so
  far, what a helper has just told, and one more while it may still be
  (`Tellings`); that sum never exceeds one and the misfortunes (`FewTellings`),
  although each of its parts goes up and down. A key not begun has nothing
  anywhere (`NotBegun`).
- `HeldLinesAreKept` (`HeldLinesStay`): who trims has the lock (`TrimsUnderLock`);
  of n lines appended, as many came after a line as stand below it
  (`LinesInOrder`, which gaps and late writers do not disturb); so what a trimmer
  read and is about to write back still has each line that may not go
  (`WrittenBackWhole`).
- `OnlyRefusedForCause` (`RefusedForCause`): each state of the service in which a
  login would be refused has had its trouble (`ServiceInTrouble`).

### 5.6 SetupProofs: installer, protect-keys, configuration

- `InstallerTypes`, `ProtectKeysTypes`, `ConfigurationTypes`.
- `HooksOutliveWirings` (`NothingRunsWhatIsGone`), for runs stopped anywhere and a
  user who edits startup files and makes or removes directories. A wiring is where
  it would be looked for, unless the user changed that (`WiringStands`); an
  install is about to wire the place it settled on (`PlaceStands`) to a hook that
  is there (`RunsHookThere`); an uninstall has every wiring of its own still ahead
  of it (`SweepStands`), and removes the hook only after the last. What it removes
  under another edition's wiring is in `inBereft` until a hook is rendered there
  again.
- `ListIsOnRecord` (`RecordIsOfBefore`): by `RecordStands`, a list is only written
  with more in it once one without is on record.
- `SuccessfulRunsCover` (`SuccessIsReal`): what a run saw covered was covered at
  some time since it began (`CoveredSoFar`), and it has settled each of its
  targets, or has it left, or in hand (`Accounted`).
- `TrueReports` (`ReportsAreTrue`): `OriginsDecide` goes through each kind of
  setting and every text its places can have, and shows that the place named
  decides; `LostValuesAreSaid`, that a value saved that does not take effect is
  said to; and `EditStands` keeps what was said true until the next edit.

### 5.7 StoresProofs: wallets, Secret Service, prompts

- `PromptsTypes`, `SecretServiceTypes`, `WalletsTypes`, and `StoresTypes`
  (`StoresTypeOK`) of the three together.
- `TerminalIsGivenBack` (`TerminalGivenBack`): where one asks at a time
  (`OneAtATerminal`), a terminal that hides what is typed has one on it who found
  that it did not (`HiddenByOne`), and that one puts it back.
- `EveryDialogIsWaitedFor` (`NoDialogForNobody`): what a client works on is there,
  what it waits for is about that, and once it is told the dialog is gone
  (`ClientStands`, `DialogsStand`).
- `CollectionIsOne` (`OneCollection`): while clients take turns and nothing failed
  (`Alone`), one client is at work, nothing is astray, and it asks for a new
  collection only where there is none or where the alias will tell (`OnlyOne`).
- `OneCopyIsKept` (`OneCopy`) and `LossesAreReported` (`LossIsReported`), for all
  six stores, from `WalletSound`: each command belongs to its store and its
  operation (`JobsFit`); an id is one item's and what was found keeps what it is
  (`IdsAreOwn`); what is in a vault under a name of ours is ours, but in 1Password
  (`VaultsAreOurs`), the user's own items included where nothing tells them; who
  stores under a name that is not `crowded` is alone with who stores or deletes it
  (`StoresAlone`), creates only where it found none (`CreatesFromNone`), and
  leaves one item of a name (`OneOfAName`); and what is owed is there, or about to
  be put back by one who just took it away, or lost with nobody told in one of the
  three ways the property names (`OwedIsThere`, `DeletedIsNotOwed`). Each command
  of each store, its failing and its landing late included, is shown to be one of
  few shapes (`Worked`), and the invariant is kept by those.
- `OthersAreLeftAlone` (`OthersLeftAlone`), from `Careful`: what is there now and
  was there when an operation began is what it was then (`Since`), and an
  operation about to delete has looked, so that none of the others' items is in
  its way unless its look failed (`LookedFirst`); a list hands out ours only
  (`ShownIsOurs`). Each command is shown to heed that (`Heeds`).
- `ForgottenPassphrasesAreGone` (`ForgottenIsGone`), from `Thorough`: a deletion
  that is about to say it is done knows where every copy is that was there when it
  was asked (`KnowsWhere`): Bitwarden's is the item it found, KeePassXC's are in
  the bin, in items that were not there before (`BinIsAll`, `EmptiesIt`), and
  nothing of ours is outside vault and bin (`OursInPlace`). Each command is shown
  to finish that way (`Finishes`). The excuses stay in the property: a look that
  failed, a bin that already held one of that name (the finding of
  `wallet_forget`), and two that store or delete one name at once.

### 5.8 KeePassXCProofs

- `KeePassXCTypes`, and `TypesOfEach` (`OneTypeOK`) of it, `KeyExpiry` and
  `Installer` together.
- `EachHasOneEntry` (`OneEntryEach`), `LookupsTellTheTruth`
  (`LookupTellsTheTruth`) and `AskedOnlyAsNeeded` (`AskedOnlyWithout`), from one
  invariant, `KxSound`. A client, the requests it has sent and the answers on
  their way to it fit together (`ClientFits`: `JobFits`, `AskedFits`,
  `FramesFit`), and so do the requests of connections that were given up on
  (`LeftFits`). For one entry each: where nobody else saves that key one client
  does (`OneSaves`), it updates the entry it was told of or there is none
  (`SavesOver`), and so there are no copies (`NoCopies`). For true lookups: what a
  frame says of a key, the key had since it was asked for (`KnownOf`). For
  approvals: an association is asked for once (`Issued`, `AskedOnce`), and one
  that is kept or tested is no longer pending (`Granted`). A client's step is
  first shown to be one of few (`Turned`: it ends, asks, saves, rests), and
  KeePassXC's or its user's likewise (`Attended`); each conjunct is then kept by
  those.

### 5.9 What only TLC checks

Liveness (`OthersEnd`, `EveryBatchEnds`, `NoneLingers`, `LoginsEnd`): the prover
has no rule for fairness over `ENABLED`. The findings, since a counterexample is
TLC's to give. And the refinement's and the invariants' freedom from vacuity: the
mutants, each of which breaks its property on a small instance.

`TypeCorrect` of `AgentLifecycle` and `KeyLoading`, `NeverAskedTooOften` and
`NothingAskedTwice` are proved and in no run: the proof says it for every instance.
The inductive invariants are in no run either.

## 6. What is not modelled, and why

Beside the parts of 1.14:

- *KeyLoading:* that an `ssh-add` stopped at its budget may have added the key (it
  is in `Handoff`), and the enumeration of the key directory.
- *Handoff:* the one-shot socket of Windows, which is the same code over another
  address.
- *Wallets:* what else of an item `bw`'s search looks at than its name; spelling
  of queries, JSON, and the sealing of KeePassXC's messages.
- *SecretService:* sessions that hold the collection open over a batch, which are
  `KeyLoading`'s; content of secrets and attributes.
- *Prompts:* drawing, and what is typed. A dialog's window loop that is told to quit
  by the system (`dialog_windows.go:460`) counts as one that could not ask.
- *AgentService:* a start answered with "already running" is taken for a start of
  this login's own, as the code does; reading the service's configuration for the
  doctor (`servicereading.go`).
- *Installer:* a profile named by `--profile`, which no sweep knows; a startup file
  that was empty before an install and is removed by the uninstall; two installs at
  once, where the search list is read, changed and written with no lock.
- *protect-keys:* an `authorized_keys` made between the look and the covering;
  errors of a look other than a missing file are failures like any.
- *Data:* the parsing of what programs print, the encoding of permissions and of
  TOML, log lines and messages, but for what `move-keys`, `config` and
  `protect-keys` tell the user.
- Crashes of the machine are not told apart from kills: nothing here relies on a
  write having reached the disk.

## 7. Running it

    tlc -config AgentLogins.cfg MCAgentLifecycle     # and the other runs
tlapm AgentLifecycleProofs.tla # and the other proofs

`PROJECT.json` lists each run with its module, configuration and properties, and
maps each definition to the lines it models.
