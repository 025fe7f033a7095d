# A formal model of the HispaShield Mobile daemons

HispaShield Mobile is a set of small Rust daemons (`src/services/*-rs`, tokio, one Unix
socket each, JSON lines) that harden an Android build. This directory keeps TLA+
specifications of the daemons whose behaviour is hard to test, the TLC configurations
that check them, and TLAPS proofs of the properties that matter most. Paths below are
relative to the repository, e.g. `services/tor-proxy-rs/src/main.rs`.

## 1. The system

The daemons share one shape: `main` builds the state, wraps it in
`Arc<tokio::sync::Mutex<_>>`, spawns a background task (where there is one) and one
task per connection; a connection task handles its requests one after the other. The
differences that matter are *how long the mutex is held* and *what survives a restart*.

| Daemon | State | Operations | Background | Mutex | Survives a restart |
|---|---|---|---|---|---|
| deadman-switch | stage, last heartbeat, config | heartbeat, configure, status | tick every 60 s, may wipe with `rm -rf` | across the wipe | nothing (config from the environment) |
| vpn-killswitch | active, iface, endpoint, vpn_up, leaked count | enable, disable, vpn_up, vpn_down, status | route check and DNS check every 5 s | **not** across iptables commands | the kernel's OUTPUT chain |
| auto-reboot | pending, countdown, cancelled | status, cancel, trigger_now | sleep until HH:MM, countdown, reboot(2) | per access | the schedule file |
| tor-proxy | Tor child, circuit flag, exit country, bypass list | enable, disable, new_circuit, set_exit_country, add/remove_bypass, status | circuit check every 30 s | across everything, bootstrap included | nat chains, maybe the Tor child |
| pqc-keystore | entries, KEK | generate, sign, encapsulate, decapsulate, list, delete | – | across file I/O | KEK file, one file per entry |
| secure-settings-core | settings, locked keys | get, set, delete, lock_key | – | across file I/O | `settings.json` |
| duress-pin | configured hashes | verify_pin (answers "normal" always) | detached wipe and beacon per duress PIN | not across the wipe | config file |
| baseband-firmware-guard | last results, observation ring | verify, status, signal observation and analysis | integrity check that may notify the duress daemon | not across the check | – |
| esim-manager | profiles, active one, last rotation | status, rotate, configure, add_profile, assess_risk | rotation when due | across the AT exchange | – |
| sensor-guard | permissions, tokens | request, validate, revoke | purge of expired tokens | per request | permissions file |
| media-isolate-coordinator | codec children | spawn, kill, list | restart of dead codecs | per request | – |
| remote-attestation | trusted servers | attest, verify, add server | – | across file I/O | trust store file |
| network-policy | rules | one decision per request | reload of the rules every minute | read/write lock | rules file |
| profile-isolation, gms-compat-proxy, baseband-proxy-hal | rules read once | one decision per request | – | – | rules file |

Interactions between daemons are few: the firmware guard writes a line to the duress
daemon's socket; deadman and duress remove directories other daemons may use; the
keystore and the settings store keep files under `/data/hispashield`; kill-switch and
Tor proxy edit different tables of the same kernel firewall. The UI
(`ui/privacy-dashboard`) only calls the sockets. The rest of the repository is SELinux
policy, build scripts, documents and an integration-test script.

What makes each part hard, and what "correct" means for it:

* **deadman-switch** – ticks that arrive late or in bursts, wipes that fail half-way,
  crashes, a heartbeat next to the deadline. Correct: never wipe before a whole interval
  of silence; always wipe in bounded time after it, with notice first; retry.
* **vpn-killswitch** – commands of several tasks interleave in one kernel chain; stale
  snapshots; failed commands. Correct: traffic is blocked whenever the switch is active,
  unless something explainable opened it; record and chain agree; the monitor repairs.
* **auto-reboot** – cancels at every moment, wall-clock arithmetic over midnight and the
  week, failed reboots. Correct: cancels are honoured, the window is given, the
  wake-up is at the configured time of the clock the code reads (UTC), rounds keep coming.
* **tor-proxy** – two chains built command by command, rollbacks, a Tor that hangs or
  dies, a daemon that dies with rules in the kernel, a monitor that asks under one lock
  and writes under another. Correct: exactly the listed uids bypass Tor, but for
  the rules a failed edit left behind; Tor is never redirected into itself, every leftover
  can be cleaned up, requests end.
* **pqc-keystore, secure-settings-core** – memory and files change in separate steps that
  fail or are cut short. Correct: what was acknowledged lasts, what was deleted stays
  away, locks hold, the store can always be loaded.
* **duress-pin, firmware guard** – a wipe nobody waits for, several at once; results
  computed outside the lock and stored later. Correct: a duress PIN's wipe gets done, a
  tampered file ends up being reported for good.
* **esim-manager** – a rotation taken before the modem confirmed it, two initiators, an
  exchange that never ends. Correct: record and profile agree whenever the last exchange
  succeeded; a due rotation is carried out; a long stay is not forgotten.
* **sensor-guard** – expiry against revocation and purging. Correct: a token is confirmed
  exactly while its grant stands, and identifiers are not reused.
* **media-isolate-coordinator** – dead children that still look alive, pids that are
  reused, a sweep over an old list. Correct: no running codec is lost, no killed one returns.
* **remote-attestation** – a trust store saved in steps, a report over processes that
  change under it and of which any may be unreadable. Correct: stored servers last; a report
  whose reads all worked misses nobody that ran throughout, and none names what never ran.
* **network-policy** – a file edited while it is read in two steps. Correct: an edit takes
  effect, with the last rule of a uid and denials first.
* **AT filter, GMS proxy, IMSI-catcher score** – rules over inputs of many forms. Correct:
  the form of a command does not change its verdict, a body loses exactly its telemetry,
  a known cell stays known for the whole window.

`PROJECT.json` lists every hazard at its line, with the properties that cover it.

## 2. Modules

| Module | Models | Specification |
|---|---|---|
| `DeadmanPromise` | what the owner of a dead-man switch is promised | abstract |
| `DeadmanSwitch` | `deadman-switch-rs` | implements `DeadmanPromise` |
| `KillSwitch` | `vpn-killswitch-rs` and the OUTPUT chain | |
| `AutoReboot` | `auto-reboot-daemon-rs` and the wall clock | |
| `TorProxy` | `tor-proxy-rs`, its nat chains and the Tor child | |
| `PqcKeystore` | `pqc-keystore-rs` and its directory | |
| `SecureSettings` | `secure-settings-core-rs` and its file | |
| `RemoteAttestation` | `remote-attestation-rs`: trust store and reports | |
| `NetworkPolicy` | `network-policy-daemon-rs`: rules, reload and decision | |
| `GrantBook` | what a holder of a sensor token is promised | abstract |
| `SensorGuard` | `sensor-guard-rs` | implements `GrantBook` |
| `MediaCoordinator` | `media-isolate-coordinator-rs` and the process table | |
| `EsimManager` | `esim-manager-rs`: profiles, rotations and AT exchanges | |
| `AntiTriangulation` | `esim-manager-rs/triangulation.rs`: the risk of the record | |
| `DuressPin` | `duress-pin-daemon-rs` and the directory it wipes | |
| `FirmwareGuard` | `baseband-firmware-guard-rs`: checks, results and alerts | |
| `ImsiCatcher` | `baseband-firmware-guard-rs/imsi_catcher.rs`: window and score | |
| `AtProxy` | `baseband-proxy-hal-rs`: parse and verdict of an AT command | |
| `GmsProxy` | `gms-compat-proxy-rs`: verdict and telemetry stripping | |
| `MCDeadmanSwitch`, `MCKillSwitch`, `MCAutoReboot`, `MCTorProxy` | small instances for TLC | |
| `Daemons` | the thirteen other daemons side by side | composition of their modules |
| `MCDaemons` | small instances of the daemons of `Daemons`, followed one at a time | |
| `MCKeystore` | small instance of `PqcKeystore` alone | |
| `*_proofs` | theorems about the module of that name; `Daemons_proofs` about the daemons without one, too | |

Operators called *Faulty* in their comment are wrong variants of the operator that
follows. No specification uses them. Put in place of the right one, each violates the
property it is paired with in `PROJECT.json`, which shows that the property can fail.

### DeadmanSwitch

`state`, `elapsed`, `cfg` are `DeadmanSwitch` of `switch.rs` (only the age of the last
heartbeat is ever read, so the age is the variable). `phase` and `due` are the tokio
interval: a tick that was missed stays due (its default behaviour is to burst). With the
lock free the task is at most `MaxDue` ticks late; while it awaits the `rm` child nothing
takes a tick, and all that come due (up to `MaxBurst`) are delivered in one burst when the
child fails. One
action per handler (`Heartbeat`, `Configure`), `Tick` for one round of `background_tick`
up to the await of the `rm` child, `RmRemoves`/`WipeSucceeds`/`WipeFails` for the child,
`Crash`, `Restart`, and the clock. `NextStage` is `tick()`: one stage per tick, and
`Locked` never waits although a comment (switch.rs:18) calls it "pending confirmation".
`owner`, `checkin`, `notice` are history: what the owner can know. A restart renews the
switch as an accepted heartbeat does, since nothing is stored. `NoticeBeforeWipe` has a
premise, `WarnsAfterBurst`: where the warning starts less than a period after a renewal, the
code promises no notice (see the disagreements).

### KillSwitch

Each request is an action that starts a task's script of commands, then one
`CommandSucceeds`/`CommandFails` per iptables process, then `Finish`, the second lock that
records the outcome. The monitor is one more task with its snapshot. `chain` keeps the
rules that decide packets. History: who flushed last (`flushed`), and whether the last
sequence ran alone (`clean`). `DropIsOnItsWay` speaks of every moment: an open chain under an
active switch is explained, or the task that flushed it is on its way to the DROP.
`StepsToBlock` counts the monitor's own steps to a block (`MonitorHeadsForBlock`).

### AutoReboot

`sched`, `timer`, `remaining` are the scheduler task; `pending`, `countdown`, `cancelled`
the shared `RebootState`; `manual` the tasks of `trigger_now`. `SecondsUntil` translates
`seconds_until_next_reboot` line by line. `now` is the clock the code reads, UTC, over a week
of `DaySecs` seconds per day; the owner's clock is `UtcOffset` ahead of it
(`LocalTimeOfDay`), which no code asks for. A schedule's time and day are read as they are in
the file: an hour of 24 or more is accepted. The clock is never set back. A task whose timer
ran out steps before the clock moves on.
`UntilReboot` is the scheduler's distance from its next reboot(2) (`RebootIsDue`).

### TorProxy

The mutex covers whole handlers, so `lock` is the operation that holds it together with
the commands it has still to run. The scripts are the command sequences of
`iptables.rs`; `Feasible` says what the kernel accepts (a chain that is jumped to cannot
be deleted, a rule that is not there cannot be dropped), `Ignored` which failures the
code swallows. `stray` is history: the rules a failed edit left in a chain, a first half of an
addition or a removal that took nothing out (`LeftBehind`); only the next enable clears it,
since no later edit does. Tor is up, hung, booting or gone, and the daemon does not notice a death.
Not in the model: the exit country (shown by status and written to the next torrc only,
although docs/tor says new connections use it) and the text of torrc. They do not touch
the rules or the lock.

### PqcKeystore, SecureSettings

Both do synchronous I/O under the mutex, so the only interleaving is with death and
failure: each file operation is a step, `Crash` may come between any two.
`std::fs::write` truncates first; the state in between is `Torn`. The keystore writes
KEK and entries in place (keystore.rs:65, 286), the settings store writes a temporary
file and renames it (store.rs:105-107). `FileOf` is `sanitise_key_id` as a function from
ids to file names, which need not be injective; `Bare` is the name ".json" that the empty id
gets, which has no extension and is passed over by every start (keystore.rs:117-119,
`Readable`). `NothingToDelete` is the delete of a key that is not in memory, acknowledged
without a flush; `hollow` is history: the keys for which that happened while the store still
had them. A failed read of an intact file is not modelled.

### RemoteAttestation, NetworkPolicy

The trust store is saved through a temporary file and a rename; a start that cannot read
it takes it for empty (`blind`), and a failed save is only logged. A report lists
`/proc` and reads the link of every process, then takes, for each known daemon, some process
with the daemon's name anywhere in its path (`Fits`, `Found`) and hashes the file of that
path. Any of these reads may fail: the process is passed over (`LinkRead`), the rest of the
listing is lost (`ListingFails`), the daemon is left out (`NotHashed`), and the report is
signed all the same. `exe` is what the system does meanwhile: processes start, end, become
others, and have their file replaced while they run, after which the link names no file.
History: who ran `throughout`, who `ever` ran, which daemons were `stale`, whether a read
`faulted`.
In `NetworkPolicy` the reload reads the file and takes the write lock in two steps;
`Evaluate` is the decision, and `Permits` says the same of the text of a file. A wildcard is
the code's `ends_with` on characters.

### SensorGuard and GrantBook

A token carries the time it has left. A request, a validation, a revocation and the purge
are one step each under the mutex. `GrantBook` has no purge: a grant is gone when its time
is over. The refinement maps the tokens that are still valid to the grants that stand.

### MediaCoordinator

`table` is the kernel's: a pid is free, a stranger's, a codec's or a zombie's. Nobody waits
for a child, so a dead one stays a zombie, for which `kill(pid, 0)` succeeds, and is never
restarted (coordinator.rs:167, 205) unless the daemon inherits an ignored SIGCHLD; `reaping`
is that choice. `SweepBegins`/`SweepChecks` are the monitor, which works on a list of ids
that requests change under it.

### EsimManager and AntiTriangulation

The mutex is held across the AT exchange, whose answer is awaited without a timeout:
`exchange` excludes every request. The next profile is taken before the exchange, the
record is written after it, and every answer, even the end of the stream, counts as
acknowledged. `AntiTriangulation` has the record with how long each entry was the last;
`TooRegular` compares the coefficient of variation without its root and quotient.

### DuressPin

`VerifyPin` answers and starts a task; each task sends its beacon, reads the directory and
removes entry by entry. Two tasks race: one that stumbles over an entry the other removed
skips it or ends (the model allows both). `doomed` is what the owner may count on: after
a death, a failure, or when a wipe was already under way, nothing. `DoomIsPursued` is what
keeps `DuressWipes` from failing: of racing wipes the one that is ahead stumbles over nothing.

### FirmwareGuard and ImsiCatcher

A check holds the mutex while it reads the files and takes it anew to store its results,
so that an older check may overwrite a newer one. The start's and the periodic checks send
an alert to the duress daemon, which has no such request and answers with a parse error
(its `verify_pin` is the only one); the model therefore has no effect of `Alerts`. `steady`
is history: the files tampered with ever since a check began (`TamperIsNotMissed`).
`ImsiCatcher` has the six heuristics over the window; README.md:197 says that a score of
70 alerts the duress daemon, but no code does.

### AtProxy, GmsProxy

Both keep no state between requests, so the models enumerate requests. A command is a
sequence of tokens with upper and lower case; names are compared exactly although a
comment of the filter speaks of prefixes. A body is a tree: `Bodies[d]` has those of depth up
to `d`, and `Strip` and `Ways` are functions over `Bodies[Depth]`, so that the provers can
unfold them. `Ways` gives the ways from the root to each node; stripping must keep exactly
those that meet no telemetry field.

### Daemons

`Daemons` instantiates the modules of all daemons but the four that have instances of their
own: those that keep files, those that keep what they know in memory and the two that keep
nothing. `DaemonsNext` is a step of one of them that leaves the variables
of all others alone: separate processes that share no file and no lock. The properties are
those of the instances, under names of their own.

## 3. What TLC checks

| Run | Instance | Shows |
|---|---|---|
| `deadman` | 4 configurations (2 tokens and paths, warning early, late, from the start, no interval at all), period 2, 1 tick outstanding, bursts to 4, silence to 17 | `KeepsPromise` (refinement of `DeadmanPromise`), `WipeIsTimely`, `NoticeBeforeWipe`, `SilenceLeadsToWipe` |
| `killswitch_races` | 2 clients and the monitor, 1 interface, 1 endpoint | `DropIsOnItsWay`, `RulesMatchRecord` |
| `killswitch_heals` | 1 client and the monitor | `MonitorRestoresBlock` |
| `reboot` | days of 6 s, local time 2 s ahead of UTC, window 2, wait 2, daily (also beyond 24:00), weekly and disabled schedules, 2 manual triggers | `CancelInTimeIsHonoured`, `WholeWindowIsGiven`, `WakesAtTimeOfDay`, `RoundsKeepComing` |
| `tor` | an application and Tor's own uid, chains to 4 rules before an addition | `BypassIsExact`, `TorIsNeverLooped`, `ApplyIsIdempotent`, `DisableRestoresRouting`, `RequestsEnd` |
| `daemons` | the other daemons, one at a time; see below | one or two properties of each |

The components of `daemons` share no state, so their product would only multiply their
state spaces. The variable `daemon` says which one a behaviour follows; the others keep
their initial state, so that every behaviour of the run is one of `DaemonsSpec`, of which
the theorems speak. The run has 101,710 distinct states in all, and takes two to three minutes.

| Component | Instance in `daemons` | Properties |
|---|---|---|
| keystore | 3 key ids on 2 files and the empty one, 2 secrets, 2 KEKs | `KeysLast`, `DeletedStayGone` |
| settings store | 2 settings, one a boot key, 3 initial files | `AcknowledgedIsKept`, `LocksHold`, `ComesBack` |
| attestation | 2 servers, 1 certificate; 2 processes, 2 paths, 1 daemon named in one of them | `ServersLast`, `ReportCovers` |
| network policy | 3 rule files (none, an exception, two rules for one uid), 2 uids, 3 destinations | `EditTakesEffect` |
| sensor guard | 2 uids, 1 sensor, lifetimes to 2, 3 tokens per life | `KeepsTheBook` (refinement of `GrantBook`) |
| media coordinator | 2 pids, 3 ids, 1 restart, with and without reaping | `CodecsAreWanted`, `DeadAreNoticed` |
| eSIM manager | 2 profiles, 3 lists, lists to 3 | `RecordFollows`, `DueIsRotated` |
| risk of the record | 2 prefixes, records to 4 | `LongStayIsRemembered` |
| AT filter | 7 tokens, two of them in lower case, commands to 4 tokens | `FormDoesNotMatter` |
| duress PIN | 2 PINs, one of them a panic PIN, 2 tasks, 3 entries | `DuressWipes` |
| firmware guard | 1 client, 2 files, each good, tampered or missing | `TamperIsReported` |
| IMSI catcher | 6 observations, window of 4 | `KnownWhileInWindow` |
| GMS proxy | 3 endpoints, JSON trees of depth 2 over 3 fields and 1 place | `StripIsComplete` |

Why the bounds are enough: every comparison in the code is between two quantities of the
instance, and each instance has values on both sides of it. In `deadman` the silence bound
lies at the longest interval plus `(MaxDue + 3)` periods, after which nothing changes;
four ticks are a burst that leads a renewed switch through all stages and leaves one over
(the configuration without an interval takes it there), and two tokens are what "the
owner's configuration is not the one in force" needs. In
`killswitch_races` three tasks give every overlap of two sequences plus a third party; the
proofs cover more clients. In `reboot` a six-second day has times before, at and after
HH:MM on every day of the week, and a local clock that shows another hour. In `tor` four rules allow a duplicated bypass and Tor's own
uid in both chains. In `daemons`: three ids on two files are one id with a file of its own
next to two that share one and one whose file no start reads; two processes are one that runs
throughout and one that is taken for the same daemon; one server is stored while another is added; the two rules for
one uid are the case where their order decides; three tokens are one that stands, one that
ended and one to come; two pids let a stranger take a dead codec's; two tasks are a race
over one directory, and three entries leave one for each task and one stored later; two
files are one that stays tampered while the other changes; four observations fill the window
and push the first out; depth two is an array of objects, and an object of either.

Bounded counters are named: `MaxDue`, `MaxBurst`, `MaxSilence`, `MaxLeaked`, `MaxRules`,
`Secrets`, `Keks`, `MaxToken`, `MaxTtl`, `MaxId`, `MaxRestarts`, `MaxProfiles`,
`MaxHistory`, `MaxLength`, `Depth`. `ReportsFirst` (in `MCDaemons`) has attestation reports made
before the first addition of a server only: the two exclude each other and share nothing but
the mutex, and their product would only multiply states. `MaxRestarts` and `MAX_HISTORY`
are limits of the code (coordinator.rs, imsi_catcher.rs), reduced.

### Disagreements between code and comments

Six further runs end in a counterexample. Each checks one statement made by a comment or
document of the repository:

| Run | Statement | What happens |
|---|---|---|
| `killswitch_leak` | README.md:140 "Sin fugas si VPN cae" | the block script flushes first and drops last; the monitor reruns it every pass while the VPN is down, so traffic is open in between |
| `reboot_cancel` | main.rs:255 "reboot cancelled" | a cancel between the last check and reboot(2) is acknowledged and ignored |
| `reboot_weekly` | main.rs:30, the day of a weekly schedule | when today's HH:MM has passed, the reboot comes one day late |
| `tor_hang` | tor_manager.rs:145 "SIGKILL if needed" | the control port is read without a timeout before the kill: a hanging Tor is never killed, and the mutex stays taken |
| `tor_stale` | TOR-INTEGRATION.md:422, no circuit after a disable | the monitor's answer is written after the disable and never corrected |
| `keystore_alias` | keystore.rs:21, `<store_dir>/<key_id>.json` | ids that differ in a replaced character share a file: a start knows only the last |

Further behaviour of the code that the models contain or that was met while writing them,
and that a maintainer should know of:

* A settings delete whose flush failed is acknowledged when retried, without being stored,
  because the key is already gone from memory (store.rs:86-90): the value is back at the next
  start unless some flush comes first. `AcknowledgedIsKept` has this as its one exception,
  exactly (`hollow`).
* A failed removal of a key file is answered as a deletion, and the key returns at the next
  start (keystore.rs:246); `DeletedStayGone` speaks of removals that worked. A key with the
  empty id is stored in ".json", which no start reads (keystore.rs:117-119), though the
  comment above that loop is "Load existing entries from disk" (keystore.rs:111); `KeysLast`
  leaves it out, by `HasFile`. A KEK file cut short stops the keystore for good (keystore.rs:52).
* A dead-man switch whose configuration was changed falls back to the environment's after a
  restart and refuses the owner's token. A restart counts as a renewal, for the abstract
  promise, too.
* The dead-man switch takes all the ticks that came due during a failed wipe in one burst. A
  configuration whose warning starts less than a period after a renewal (an interval shorter
  than warning plus 60 s, which `configure` accepts) may thus go from active to the next
  wipe in an instant, without notice. `NoticeBeforeWipe` holds for all others.
* The schedule's hour is documented as local time (auto-reboot main.rs:26), and computed in UTC
  (main.rs:297-299, where a comment says that production would use local time): the reboot
  comes at another hour of the owner's clock, and for a weekly schedule perhaps on another
  day. `WakesAtTimeOfDay` states both clocks. Hour, minute and day are not validated: an hour
  of 24 or more makes a daily schedule skip days.
* A bypass edit of which one command failed may leave its rule in one chain, and no later edit
  takes it away, not even an addition and a removal of the same uid that both work: until the
  next enable the uid goes direct although it is not on the list. TOR-INTEGRATION.md:60 says
  that no application can opt out "except UIDs in the explicit bypass list".
  `BypassIsExact` names these rules (`stray`) and no others.
* An end of the stream from the control port counts as the answer to the circuit request, and
  sets the circuit flag (tor_manager.rs:243, 257). No property depends on it.
* An attestation report is signed although reads failed while it was made: `/proc` that could
  not be listed, or not to its end, a link or a file that could not be read (attestation.rs:
  129-144, 166-168), each of which leaves daemons out and is at most logged. "Find the first PID
  whose exe basename matches" (attestation.rs:151) is a search for the name in the whole path,
  in no order: a process of another program, with the name of a daemon in its path, may be
  hashed in its stead, and one whose file was replaced keeps a daemon that runs out of it.
* `+COPS` is allowed as "query only" (at_filter.rs:93), but no verdict looks at the form of the
  command: `AT+COPS=...` is allowed as well, which `FormDoesNotMatter` states of every name.
* A wildcard of the network policy is compared by characters (policy.rs:102-105): "*.com"
  covers "xcom", too, while its example (policy.rs:96) is "*.example.com".
* A codec that dies stays a zombie, since nobody waits for it, and a zombie answers
  `kill(pid, 0)`: it counts as alive and is not restarted (coordinator.rs:167, 205, 276).
  `DeadAreNoticed` therefore speaks only of pids that were freed. A kill by a remembered pid
  that now belongs to another entry's codec kills that one; `CodecsAreWanted` does not forbid
  it.
* A save of the trust store that fails is logged and the client told that the server was
  added; a start that cannot read the store begins with an empty one, and the next save
  makes that permanent (`blind` in the premise of `ServersLast`).
* The firmware guard's alert has an action the duress daemon does not know: it is answered
  with a parse error and nothing is wiped. The alert for a high signal score that
  README.md:197 announces is sent by no code.
* An exchange with the modem that fails leaves record and profile apart until the next one
  that succeeds; `RecordFollows` excuses it.
* Sensor tokens count from 1 again after a restart, so that a number somebody kept may be
  confirmed for another's grant; the book's identifiers are those of one life.
* Two duress wipes at once may stumble over each other, and the one that ends early leaves
  what was stored after the other had read the directory.
* at_filter.rs:75 calls the comparison with the allow list a prefix match; it is equality.

### Fairness

Only the program's own progress is assumed, never requests, failures or restarts, except
that init restarts a service where that is said.

* `DeadmanSwitch`: the timer fires, the woken task runs, a child process ends (WF).
* `KillSwitch`: the monitor's loop and every started command go on (WF).
* `AutoReboot`: timers expire and tasks run (WF).
* `TorProxy`: the holder of the mutex, and the monitor, proceed whenever they can again and
  again (SF): a Tor that hangs now and then disables the holder's step in between, and
  tokio's mutex is first-in first-out, so the monitor does get its turn among requests.
* `SecureSettings`, `NetworkPolicy`: init restarts the service, its own steps go on (WF);
  the reload reads and takes the write lock, which is fair among readers.
* `MediaCoordinator`: the monitor's timer fires and its sweep goes on (WF).
* `EsimManager`: the scheduler's timer fires and takes a mutex that is free (WF). Nothing is
  assumed of the AT exchange, which has no timeout.
* `DuressPin`: each task goes on (WF); a beacon is one datagram and a removal one system call.
* `FirmwareGuard`: init restarts the daemon, and the periodic task gets the mutex among
  clients' checks (SF, since the mutex is taken now and then but is first-in first-out);
  whoever holds it reads on and gives it back (WF).

Liveness premises are part of the formulas: `SilenceLeadsToWipe` when nobody renews and
nothing fails any more, `MonitorRestoresBlock` when only the monitor acts, `RequestsEnd`
unless Tor hangs for good, `DueIsRotated` unless an exchange never ends, `ComesBack`,
`EditTakesEffect` and `TamperIsReported` unless the process keeps dying.

## 4. What is proved

TLAPS checks the theorems for every value of the constants. `DeadmanSwitch`, `KillSwitch`,
`AutoReboot`, `TorProxy` and `PqcKeystore` are extended by their instance and state their assumptions
(types of the parameters, names that differ, an interval no longer than the longest silence
told apart) as `ASSUME`s, which TLC evaluates in every run. The others are instantiated by
`Daemons`; their assumptions are the operator `ConstantsOK` of each module, and `Daemons`
assumes it of its instances (`ConstantsAssumption`), which TLC evaluates. Most say of what
type a parameter is: contents of a rules file are lists, a good file is one of the readings,
bodies have some finite depth. Two say more: the two hours after which a stay counts are no
longer than the day after which silence does (`AntiTriangulation`), and upper case is final,
changes neither `AT` nor the marks `=` and `?`, and makes no other character one of them
(`AtProxy`).

* **`DeadmanSwitch_proofs`** – `TypeCorrect`, `CheckInIsRespected`, `WipeComesInTime`
  (= `WipeIsTimely`), `NoticeIsGiven` (= `NoticeBeforeWipe`), `DaemonKeepsPromise`.
  The invariant adds that the owner's clock never runs behind the switch's while the
  owner's configuration is in force, and that a child runs only when the whole interval
  has passed; without it a step of the child could not be matched with the promise's
  `Erase`. The refinement maps `elapsed` to silence and `cfg.interval` to the limit. The
  two bounds follow from `TickTime`, the time the ticks that are due and the stages passed
  stand for: the silence never exceeds the interval by more, and the notice given together
  with what is outstanding always exceeds it. A burst is longer than `MaxDue` only in a wipe or
  before the next tick comes due; until then a renewed switch has not reached its warning,
  which is what `WarnsAfterBurst` buys, so that `NoticeBeforeWipe` holds for any burst.
* **`KillSwitch_proofs`** – `TypeCorrect`, `StaysBlocked` (= `OpenOnlyByDisableOrFailure`),
  `RecordIsTrue` (= `RulesMatchRecord`), for any number of clients. The invariant says of
  each task which suffix of its script is left and what the chain therefore contains:
  whoever flushed last has put, or will put, the DROP back; a task that is still alone
  has left exactly the prefix of its rules. `DropComes` (= `DropIsOnItsWay`) follows from it
  at every moment. `MonitorBlocks` (= `MonitorHeadsForBlock`) is the variant behind
  `MonitorRestoresBlock`: `MonitorKnows` says which snapshot and which suffix of its script
  the monitor has, so that iptables refuses it nothing, and each of its steps shortens the
  distance to the DROP or puts it in.
* **`AutoReboot_proofs`** – `TypeCorrect`, `CancelIsHonoured`, `WindowIsGiven`,
  `PendingIsTrue`, `WakesOnTime`. The invariant ties the acknowledged cancel to the flag
  the next check reads, and announced plus remaining seconds to the window; `WakesOnTime`
  rests on lemmas about division by the day's length, for any time read from the file and any
  distance of the owner's clock from UTC. `RebootComes` (= `RebootIsDue`)
  is the variant behind `RoundsKeepComing`: a distance of at most a day, or eight, and a
  round's time, which a second shortens by one and only a cancel in the countdown, a failed
  reboot(2) or a new start lengthens.
* **`TorProxy_proofs`** – `TypeCorrect`, `TorStaysOutside` (= `TorIsNeverLooped`),
  `BypassStaysExact` (= `BypassIsExact`), `DisableRestores` (= `DisableRestoresRouting`),
  `ApplyMeetsNoRefusal` (= `ApplyIsIdempotent`), for any uids and clients. The invariant
  says where in its script the holder of the mutex is and what the chains hold by then: an
  enable has cleaned the leftovers and built a prefix of the rules, a disable has removed
  its part, an edit has done one chain or both. The rules stay in an order (nothing behind
  the redirection is reached, none stands without Tor's exception), each chain of a running
  daemon exempts exactly the listed uids and those of the rules that failed edits left in that
  very chain since the enable (`stray`), Tor's own twice if it is listed (so that removing
  it from the list leaves the exception), and no uid is listed twice.
* **`SecureSettings_proofs`** – `TypeCorrect`, `WritesAreKept` (= `AcknowledgedIsKept`),
  `LocksAreKept` (= `LocksHold`). The store itself is never half written, the temporary
  file is complete before the rename, and a key of a call under way has no promise; a key
  deleted without a flush is gone from memory and still in the store until one comes; a
  boot key the start has passed is locked in memory, whatever flush failed.
* **`RemoteAttestation_proofs`** – `TypeCorrect`, `ServersAreKept` (= `ServersLast`),
  `ReportIsComplete` (= `ReportCovers`), the former as long as every start could read the
  store, the latter for any processes, paths and names, whatever could not be read. Every link
  that was read is of a file that ran meanwhile; and while nothing faulted, the link of a
  process that ran throughout is either still unread or known and intact, so that its daemon
  is either still to hash, hashed, or one after which a replaced file was named.
* **`SensorGuard_proofs`** – `TypeCorrect`, `DaemonKeepsTheBook` (= `KeepsTheBook`): every
  step is one of the book's, or one the book does not see, like a purge. The lemmas are
  about the tokens still alive before and after a grant, a removal and a second of time.
* **`Daemons_proofs`** – the theorems of `DaemonsSpec`, in which any daemon may take the
  next step. A step of all is a step or a stutter of each (`StepsOrStays`), so a behaviour
  of all is one of each specification, and what is proved of one holds among the others:
  `TypesHold` (= `DaemonsTypeOK`), `SettingsAreKept` (= `AcknowledgedIsKept`),
  `SettingsStayLocked` (= `LocksHold`), `ServersAreKept` (= `ServersLast`),
  `ReportIsComplete` (= `ReportCovers`) and `GrantsAreBooked` (= `KeepsTheBook`) carry over
  the theorems of the three modules above. The others are proved here:
  * keystore – `AcknowledgedKeysLast` (= `KeysLast`), `SecretsUnwrap`, `DeletedKeysStayGone`
    (= `DeletedStayGone`), `UnreadableKekIsUnused`, for any ids and any `FileOf` (a key
    lasts if its file has an extension and is no other id's).
    `KeystoreInv` speaks of the files, not of the map, since the map is lost with each
    crash: an acknowledged key with a file of its own is in that file, all files are wrapped
    with the stored KEK, and an operation under way was never promised anything.
  * media coordinator – `RunningCodecsAreWanted` (= `CodecsAreWanted`), for any pids and
    ids. `MediaInv` adds that no two entries stand for the same codec, that their roots
    were given out in this life and were not killed; without it the kill of one entry could
    make another's codec an unwanted one. A pid may be anybody's by the time it is
    signalled, another entry's codec's, too: the table of processes then loses a codec, but
    gains none, and that is all the invariant says.
  * eSIM manager – `RecordIsCurrent` (= `RecordFollows`), for any lists and failures.
    `EsimInv` adds that there is a profile in use after an exchange that succeeded; without
    it a profile added to an empty list would be in use without ever being recorded.
  * risk of the record – `LongStaysCount` (= `LongStayIsRemembered`), for records of any
    length. A long streak stays one when its entries stay and their times do not shrink,
    since the sum of larger addends is no smaller (`RiskSumGrows`). `SumFunctionOnSet` is a
    fold over sets: `RiskTotalsExist` shows that its recursion has a solution for every
    finite set, and the other lemmas compare solutions, each by descent to the smallest
    set that breaks the claim (`LeastExists`), which needs no induction rule over operators.
    A silence of a day is remembered only because it is longer than two hours: once the
    profile is rotated, the stay counts as a streak.
  * AT filter – `VerdictIsOfTheName` (= `FormDoesNotMatter`), for any tokens and texts of
    any length. The lemmas say that upper case commutes with each part of the parser (the
    rest of the text, the mark of a query, the cut at the first equals mark), that a mark
    behind a text is taken off again, or cuts nothing else off, and that a text cut at an
    equals mark keeps its name, whatever the parameters that follow.
  * IMSI catcher – `ReportedCellsAreKnown` (= `KnownWhileInWindow`), for windows of any
    size: an observation moves by at most one place and leaves only from the front.
  * network policy – `RulesDecideAsWritten`: `Evaluate` over the engine that `LoadFromFile`
    makes of any list of rules allows exactly what `Permits` reads in the list. So
    `DecisionsFollowOneText` (= `DecidesAsOneText`): whatever comes between the steps of a
    reload, all decisions are those of one text; `EditTakesEffect` then depends on nothing
    but the reload's steps.
  * duress PIN – `DoomedKeysArePursued` (= `DoomIsPursued`), for any number of tasks and
    keys. `DuressInv` says that every wipe has all that is doomed on its list, and that
    whoever removed an entry another wipe still lists is further on than it
    (`DuressOvertaken`): the wipe with the fewest entries left therefore stumbles over none.
  * firmware guard – `TamperIsSeen` (= `TamperIsNotMissed`), for any files and clients.
    `FirmwareInv` has the mutex; `FirmwareSeen` adds that a check has found what has been
    tampered with since it began as far as it has read, and has read all when it stores.
  * GMS proxy – `BodiesAreStripped` (= `StripIsComplete`), for bodies of any depth. `Bodies`,
    `Strip` and `Ways` are recursive functions: as for the sums, lemmas show that each
    recursion has a solution (`GmsBodiesUnfold`, `GmsStripUnfold`, `GmsWaysUnfold`), and the
    claim about one depth follows from the one before by descent (`GmsStripKeepsClean`).

Not everything that is proved is also run. Left out of the runs are `CheckInIsRespected`,
`PendingIsTrue`, `SecretsUnwrap`, `UnreadableKekIsUnused`, `StaysBlocked` (which `DropComes` implies, as nobody has a DROP still
to put in when nobody edits the chain) and what stands behind liveness: `MonitorBlocks`,
`RebootComes`, `DoomedKeysArePursued`, `TamperIsSeen` and `DecisionsFollowOneText`. Their
properties can be added to the cfg of the same instance; they hold there, and fail under the
faulty operator named for the liveness they stand behind.

Every invariant and action property of a passing run is stated by a theorem. Model-checked
only is liveness, which is out of the prover's reach (it needs fairness and ENABLED):
`SilenceLeadsToWipe`, `MonitorRestoresBlock`, `RoundsKeepComing`, `RequestsEnd`, `ComesBack`,
`EditTakesEffect`, `DeadAreNoticed`, `DueIsRotated`, `DuressWipes` and `TamperIsReported`. Of
six of them the part that is safety is proved: `WipeIsTimely`, `MonitorHeadsForBlock` and
`RebootIsDue` bound the way that is left or let it shrink, `DoomIsPursued` says that somebody
is on it, `DecidesAsOneText` and `TamperIsNotMissed` that its steps do what they must when
they come.

## 5. Not modelled

* `profile-isolation-rs`: each request is a decision over a table loaded once; nothing
  changes it and nothing is stored.
* In modelled daemons: the list of DNS sockets of the kill-switch beyond its effect on the
  leak count, cgroups of codecs (best effort), the exit country and text of torrc, what
  `last_seen` and signed fields of an attestation hold, the amount of jitter, texts of
  findings, refused requests that change nothing, library cryptography.
* Real time other than as counted seconds, and the order in which the kernel schedules
  tasks beyond the fairness above.
* The firmware guard and the duress daemon are not composed: the one message between them
  is refused by its receiver, so the composition has no behaviour of its own.
* The UI, SELinux policy, build scripts and the shell test script.

Worth doing next: distances like `StepsToBlock` for `RequestsEnd`, `DeadAreNoticed` and
`DueIsRotated`, and the expiry of attestation reports and `profile-isolation-rs`, should
either begin to keep state.

## 6. Running

    tlc -config MCDeadmanSwitch.cfg MCDeadmanSwitch
    tlc -config KillSwitchRaces.cfg MCKillSwitch        # likewise KillSwitchHeals, KillSwitchLeak
    tlc -config MCAutoReboot.cfg MCAutoReboot           # AutoRebootCancel, AutoRebootWeekly
    tlc -config MCTorProxy.cfg MCTorProxy               # TorProxyHang, TorProxyStale
    tlc -config MCDaemons.cfg MCDaemons
    tlc -config KeystoreAlias.cfg MCKeystore
    tlapm DeadmanSwitch_proofs.tla                      # and the other *_proofs
