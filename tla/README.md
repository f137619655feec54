# A verification development of the Aruba network agent

The agent is a single Python process that watches switches. Monitor threads
probe every switch and mail its outages; a scheduler runs jobs (network scan,
configuration backup, SNMP polls, layer-2 discovery, subnet health, threshold
evaluation); a receiver turns SNMP traps into mails; and a Flask web
application, whose server handles requests in parallel threads, lets operators
sign in, add, remove, mute, unmanage and delete switches, push configurations
and edit accounts, tokens, rules and settings. State is kept in memory and
saved in JSON files, in `config.ini` or in MongoDB.

This directory holds TLA+ modules translated from the code under `src/`, TLC
configurations that check them on small instances, and TLAPS proofs that hold
for every value of the constants. `PROJECT.json` maps every definition to the
lines it stands for, and lists the runs, the mutants that show each property
can be broken, the hazards and the theorems.

    tlc  -config core_alerts.cfg MCSwitchMonitoring      # any row of "Runs"
    tlapm SwitchMonitoringProofs.tla                     # any *Proofs module

## 1. Inventory

Locks matter throughout: almost every component is called from several threads
(one per monitored switch, one per scheduled job, Timer threads, web requests).

| component (source) | state it keeps | operations | hard behaviour | what makes it correct |
|---|---|---|---|---|
| Reachability monitors (`monitors/switch_poller.py`) | one thread per host; per thread: name, stop event, dedup timestamps; the manager's pool by host | `_poll` (look up, probe ladder, look up again, update, alert), `add`, `sync`, `remove`, `start_all` | seconds pass between the look-ups and the update; a removed monitor leaves the pool before it is told to stop, and is not interrupted; the pool is keyed by host, the registry by name | every live monitor is in the pool, or about to be stopped; DOWN after `failure_threshold` consecutive failures; alerts alternate and tell the status; the status follows reachability |
| AgentState (`state.py`) | registry of `SwitchState` by name and runtime singletons, under one lock | `register_switch`, `update_switch`, `remove_switch`, mutes, unmanage, `_load`, `_save` | only some changes are saved; a failed save is only logged | the snapshot is what the registry is, in everything an operator set or was told |
| Alert batcher (`alert_batcher.py`) | pending events and Timer per kind | `add`, `_flush`, `flush_all`, `_send` | a Timer past cancelling drops the registration of its successor | no event stranded, none mailed twice, one kind per mail |
| JSON store (`store/json_store.py`) | the snapshot file | `save`, `load` | kill or power failure during a save | replaced as a whole or not at all |
| MongoDB store (`store/mongo_store.py`) | a document per switch, a runtime document; metrics, counters, FDB, neighbours, traps | `save`, `load`, `save_fdb`, `save_neighbors`, counters | several calls, no transaction | after a completed save, exactly its payload; rows of one sweep |
| Scheduler (`scheduler.py`) | last run of each daily and interval task | `_tick`, `trigger_now` | late ticks, midnight, restarts | every day, and once |
| Sweeps (`tasks/interface_poll.py`, `tasks/health_poll.py`, `tasks/l2_discovery.py`, `snmp.py`) | overlap guard; per worker thread an event loop and an engine | `run`, the pool of workers, `get`, `bulk_walk`, clean-up | a sweep fired while the last still runs; engines bound to loops; lost answers | one sweep at a time, each ends, none hangs |
| Interface rates (`tasks/interface_poll.py`, `interfaces.py`) | previous counters in memory and in the store, rates on show | `collect`, `assemble_rows`, `compute_util`, `_load_prev` | counter resets, restarts, names that change their device, columns lost in a walk | a rate is what was carried between two samples |
| Layer-2 discovery (`tasks/l2_discovery.py`, `fdb.py`, `lldp.py`) | FDB and neighbour rows | sweep, `save_fdb`, `save_neighbors` | rows deleted, then inserted | rows of a switch come from one sweep |
| Threshold alerting (`thresholds.py`, `tasks/threshold_eval.py`, `thresholds_store.py`) | per rule and switch: since when, and whether alerted; the rules | `evaluate`, `active_alerts`, `save_rule`, `set_enabled`, `remove` | state outlives the rule it belongs to; readings that are no longer refreshed | mailed iff the breach was sustained |
| Subnet health (`tasks/subnet_health.py`) | nothing between runs | collect over the distros, count, report | clients roam during the run, distros fail | LOW and HIGH are real, or the failure is noted |
| Manual hosts (`manual_hosts.py`, `web/app.py`, `main.py`) | a JSON list, monitors, live modes | add, update, remove, sync, seeding at start | two registries changed in two steps | what was entered is watched, in the mode chosen |
| Scanner (`tasks/scanner.py`) | device CSV, `ip_list.txt` | sweep, diff, mail, write, verify, coverage guard, sync | runs overlap; files are truncated and then written | no device unannounced; the list does not collapse |
| Backup (`tasks/backup.py`) | dated files and `.sha256` sidecars | `run`, `_cleanup`, `verify_backups`, change report | nightly and triggered runs at once; kills; retention bounds | a readable version is there, verified ones can be read, changes are told |
| Trap receiver (`trap_receiver.py`, `traps.py`) | dedup window, learned SNMPv3 engines | `handle_trap`, `_rate_ok`, `_v3_learn` | pruning; an engine is marked as learned before it is registered | one alert per trap and window; one trap lost per engine |
| AOS-CX REST session (`cx_session.py`) | cookie, API version | `login` over versions, renewal, `logout` with retry | lost answers on a switch with few slots | no session left without a cause |
| Configuration push (`tasks/config_push.py`) | outcome per switch | execute, connect, send, save | overlapping pushes, restarts, failing saves | what is reported done is in the startup configuration |
| Firmware (`tasks/firmware.py`) | status read in phase 1 | check, upload | 15 minutes between the two; lost answers | the running image is left alone; results are true |
| Accounts (`local_auth.py`, `web/app.py`) | `users.json`, sessions | login, RADIUS, TOTP, recovery codes, passkeys, password change, user management, bootstrap | requests that call the store twice; saves that raise; restarts | the default password is gated, a code is used once, someone can sign in |
| Login throttle (`web/app.py`) | failures per address and name | check, record | verification takes time | a bounded number of guesses |
| API tokens (`api_tokens.py`, `web/app.py`) | `api_tokens.json` | mint, show, revoke, authenticate | saves that raise | what operators were told holds |
| Configuration editor and secrets (`config_editor.py`, `secrets_store.py`, `web/app.py`) | `config.ini`, `master.key` | the settings pages, `update_section`, bootstrap, migration | read, change and write without a lock | secrets stay encrypted, readable and as typed |
| ARP discovery, web server health, SNMP profiles and vendor detection, drivers, audit, metrics, notifier, templates, help | little or none | | library wrappers, parsing, pages | see section 6 |

How they interact: `main.py` reads the settings, builds the store and the
`AgentState` on it, starts the monitors (`start_all` for `ip_list.txt`, then the
manual hosts), and registers the jobs with the scheduler. Monitors call
`AgentState` (shared, locked) and hand events to the batcher, whose Timer
threads call the notifier. The scanner calls `manager.sync`. Web handlers call
`AgentState`, the manager and the file stores directly. The threshold job reads
`samples()` of the poll jobs, and `ThresholdStore`.

## 2. Modules

| module | stands for | role |
|---|---|---|
| `SwitchMonitoring` | monitors, manager, registry, snapshot, web handlers, scan, restart | the core, composed in one module because its parts meet inside single handlers |
| `AlertDelivery` | what batching promises | abstract specification |
| `AlertBatcher` | the batcher, thread by thread | implements `AlertDelivery` |
| `AlertPipeline` | poll, threshold, dedup, batching in (discrete) time | composition, with probes and mails taking no time |
| `SnapshotStore` | the contract of a store backend (`store/base.py`) as AgentState relies on it | abstract specification |
| `JsonStore` | the JSON backend | implements `SnapshotStore` |
| `MongoStore` | `save` and `load` of the MongoDB backend | implements it where no save is cut short between two documents; what it keeps otherwise |
| `Scheduler` | the daily tasks | |
| `Sweeps` | interval tasks: guard, worker pool, engines and loops | |
| `InterfacePoll`, `L2Discovery` | what the sweeps make of the readings, and leave in the store | |
| `ThresholdAlerting`, `SubnetHealth` | what is told about readings | |
| `TrapReceiver`, `CxSession`, `ConfigPush`, `Firmware` | conversations with switches | |
| `Backup`, `Scanner`, `ManualHosts` | jobs and handlers around files | |
| `Accounts`, `LoginThrottle`, `ApiTokens`, `Settings` | the web application's access control and configuration | |
| `Nothing` | Python's `None` | a constant several modules share |
| `MCSwitchMonitoring`, `MCSwitchSafety`, `MCSchedule`, `MCReadings`, `MCDevices`, `MCFiles`, `MCAccess` | | finite instances |
| `SwitchMonitoringProofs` | | theorems about the core |
| `ReadingsProofs`, `DocumentsProofs`, `ClockProofs`, `DevicesProofs`, `FilesProofs`, `AccountsProofs`, `AccessProofs` | | theorems about the other modules, by what they keep or talk to |

`MCReadings`, `MCDevices`, `MCFiles` and `MCAccess` put components that share
no state into one run: the variable `part` says which of them moves in a
behaviour, and the others keep their initial state. The state space is the sum,
not the product, and says of each component what a run of its own would.
`MCSwitchSafety` bounds one instance of the core to two regions of its states, those
that bear on the pool and those that bear on the records (the state constraint
`PoolOrRecords`); a behaviour may pass from one to the other where they meet, and the
invariants are checked on the states just outside, too.

### State and actions of the core

`switches` is `AgentState.switches`, `disk` what the store last wrote,
`monitors` the manager's pool, `manual` the manual host list and `ipList` the
scanner's file. Per monitor thread, `pc` is where it is in `_poll`:

    idle --Dispatch--> probe --ProbeOk--> okCheck --OkCheck--> idle | alert
                         |----ProbeFail--> fail ----FailWrite--> idle | alert
                         |----ProbeGone--> idle
    alert --DecideAlert--> mail | idle        mail --HandOver--> idle

The split follows what other threads can see: `Dispatch` is the first look-up
(with the `unmanaged` test), then the probe ladder runs, `Probe*` is the second
look-up and what is done at once with it. `newFailures` is a local variable
computed outside the lock and written later by `FailWrite`; `orphan` is the
`SwitchState` object a thread still holds after it left the registry. `Restart`
is the process dying at any moment and starting again from `disk`.

`manager.remove` takes the monitor out of the pool under the manager's lock and
calls its `stop()` after the lock is released: `ManagerPop` and `Stop`, with
`stopping` the monitor a request has in hand in between. The web handler
`api_delete_switch` is four actions: `DeleteBegin` (the look-up and the pop),
`Stop`, `DeleteManual` (the manual entry, for which `hostIp` is kept) and
`DeleteEnd` (the registry entry). The page that removes a manual host is two,
`ManualRemove` (the entry and the pop) and `Stop`. Other requests, scans, polls
and restarts come between any of them.

    DeleteBegin --Stop--> DeleteManual --> DeleteEnd      ManualRemove --Stop-->
      (a host nobody monitors: nothing to stop)

`streak`, `told` and `beside` are ghosts: the failed polls really seen in a row for
a name, the last alert handed over about it, and the threads that were started
in a name while a delete of that name was under way. The first two restart when
the name is registered anew.

What is folded: the ICMP, SSH and REST rungs and monitor modes into the three
outcomes of the ladder (answered by SNMP, answered by its fallback, no answer);
the two `update_switch` calls of the failing branch into `FailWrite`;
vendor and OS version look-ups into a possible extra save; the search for the
manual entry and its removal into `DeleteManual`, and the removal of a manual
entry and the pop after it into `ManualRemove` (`ManualHosts` has them apart).
Not modelled in it:
static `[switch.*]` sections and `[controllers]` (seeded once, never removed),
and the update of a manual host (it changes monitor mode, profile and
description only).

### The other modules

* `AlertBatcher`: every action is one critical section of the batcher's lock,
  or the sending after it. A Timer is free, armed, due (past its wait: `cancel`
  has no effect any more) or sending. `batching` (`alert_batch_seconds > 0`) is
  read once at start, so it is a variable that never changes. Each event is
  reported once; a repeated event is another event.
* `AlertPipeline`: a tick is 15 s, so the defaults of the code are a poll every
  2 ticks, 3 failures, batches of 4. Time does not pass while something is due.
* `JsonStore`: one action per system call of `save`; `entries` are the files
  the directory may name after a power failure, as the directory is not synced.
  Saves do not overlap, since `AgentState` holds its lock around them.
* `MongoStore`: the server applies the documents of a bulk write one by one, in
  any order; the call may fail or the process die after any of them. As `load`
  is only called at start-up, the contract is stated of what a save leaves, not
  of what it goes through. Counters are in `InterfacePoll`, FDB and neighbours
  in `L2Discovery`; metrics and traps are single inserts and not modelled.
* `Scheduler`: a step is 15 s. `ranToday` is the set of tasks whose `_last_run`
  is today, so it is emptied at midnight. A tick compares the clock with the time
  of its own day, so the window of a task (`Begin`, `End`) is cut off at midnight;
  `longest` is the longest time between two ticks of the day so far. Interval tasks
  are in `Sweeps`.
* `ThresholdAlerting`: one reading per switch, which is normal or high. An
  evaluation is atomic (it works on copies). Time is counted in evaluation
  periods, and an evaluation may come late. Scopes of rules and changes of their
  threshold are not modelled. An alert counts as mailed when the notifier is
  called; the notifier logs a failure and does not retry.
* `Sweeps`: the scheduler's threads (`firing`), the `_running` guard (`holder`),
  the queue of a `ThreadPoolExecutor` made anew for each sweep, and per worker
  its thread-local loop and engine. `get` keeps an engine per thread, renews it
  after `_ENGINE_MAX_CALLS` and is bound to the loop it was made on; `bulk_walk`
  makes and drops one. A lost answer is noticed by a timer of the loop, so on a
  closed loop it never is.
* `InterfacePoll`: one interface and direction. A sample is an octet count with
  (ghosts) the octets really carried and whether its column was lost. `prev`,
  `stored` and `rates` are `_prev`, the counters document and `_current`. `UtilIsCarried` excepts
  a rate computed from a sample whose counter column was lost, and a name that
  changed its device.
* `L2Discovery`: a row is known by the sweep it was read in; `call` is, per
  sweep and switch, the next of walk, clear and fill for each table. Each call
  may fail, an insert half way.
* `SubnetHealth`: `failures` are positions in the list of distros, as a switch may
  be listed twice and answer once. Clients move between the ARP tables while the distros are
  asked in turn; `steady` and `seen` are the clients some table held all
  through the run, or at some moment of it.
* `TrapReceiver`: a trap is its name, category and severity. `recent` and
  `pruned` are the windows and the keys still held; `learned` and `users` the
  engines marked as learned and those registered.
* `CxSession`: threads with a session object each, on one switch. `live` are the
  threads whose cookie names a session there, `based` those with a `base_url`, which
  renew after a 401, `orphans` the sessions nobody knows of; sessions age out at any
  time. A version may be refused, a login
  or logout lost before or after the switch acted.
* `ConfigPush`: a configuration is the set of the pushes all of whose commands are
  in it. Saving tries `save_config` and then the vendor's command. What a call
  returns and what the switch has done are chosen apart: the texts a switch answers
  with are looked at by nobody, so a line or a save that it refuses in words counts
  as done, and an exception may come after the switch has acted.
* `Firmware`: `item` is what phase 1 read; `Boot` lets a switch restart from
  either partition at any time.
* `Backup`: one device. A version is named by the second in which its run has the
  configuration, before it is encrypted and opened; `open`, write, sidecar, listing,
  sorting, the removals one by one and the report are separate steps, each may
  fail, and the process may die after any of them. What is old is decided by
  modification time (`later`: the versions modified after this one), what has
  changed by name. A file that vanishes between listing and sorting makes the run
  report a failure, as `getmtime` raises.
* `Scanner`: a list is the set of addresses in it. Opening a file for writing
  empties it, which other threads and a restart may see.
* `ManualHosts`: a handler changes the store under its lock and the monitor and
  the mode after it; two operators, `sync` and restarts come in between, and at a
  restart the file may be unreadable.
* `Accounts`: every method of the store is one critical section that changes the
  accounts in memory and then saves them; the save may raise. Handlers that call
  the store more than once are split there. RADIUS and the verification of a
  WebAuthn assertion are a yes or a no.
* `LoginThrottle`: a deque of time stamps is a sequence of their ages; requests
  are checked, verified for a while, and counted at the end.
* `ApiTokens`: a token is its set of scopes.
* `Settings`: `config.ini` is a function from sections to a value and a secret,
  which is blank, in clear, or encrypted under a key. A form's handler reads the
  file for its checks, `update_section` reads it again, `save` replaces it.
  Sections that no property tells apart share a name in an instance.

## 3. Runs

Every property of a passing run has a mutant in `PROJECT.json`: a plausible bug
in one definition under which the run finds the property violated. A property
that is a conjunction has one for each conjunct.

| run | instance | what it shows |
|---|---|---|
| `core_safety`, pool | one host, the scanner and two operators, two threads at a time, restarts | `ManagerOwnsPollers`: a thread that was not told to stop is the one the pool holds, or one that exactly one request is about to stop, while old threads finish their polls. `PollersHaveAState`: after a delete nothing goes on polling in that name |
| `core_safety`, records | one operator, one thread at a time, no scan; all faults, mutes, unmanage, dedup on, restarts | `SnapshotIsCurrent`: unless the last write failed, a restart brings back every status, mute, flag |
| `core_alerts` | two names of one host, threshold 2, fair threads | `AlertsTellStatus` (alternation, and the last alert tells the status), `DownNeedsConsecutiveFailures`, `StatusFollowsReachability`, `TypeOK` |
| `core_unmanage` | threshold 1 | violated: `UnmanagedIsSilent` |
| `readings`, batcher | three events of two kinds, three Timers, a `flush_all`, two callers, batching on and off | `NothingStranded`, `ImplementsDelivery` (refinement), `EventsGoOut` |
| `readings`, sweeps | three devices, two workers, two firings, all three tasks | `SweepsAreOrderly` (one sweep at a time; no worker waits on a dead loop), `SweepsEnd` |
| `readings`, thresholds | one rule and one switch, every edit, silence and unmanage, evaluations one or two periods apart | `SustainedIffTold`, `AlertsFollowReadings` |
| `readings`, subnets | two distros, four clients, two subnets | `ReportIsHonest`: LOW is real or the unread distro is noted, HIGH was seen, a quiet run hides nothing |
| `devices`, schedule | the scan at 00:00 and two tasks with overlapping windows, ticks up to 75 s late, restarts | `AtMostOncePerDay`, `NoDayIsSkipped` (while the ticks of a day are no further apart than the window of the task is long) |
| `devices`, outages | two switches, defaults for poll and batch, dedup off or 9 ticks | `OutageIsMailedInTime`, `AlertsAreSpaced` |
| `devices`, session | two threads, three slots, two versions, four lost answers | `SessionsAreAccountedFor`: none outside a `with` block, orphans and rejections have their causes |
| `devices`, traps | two senders, the two mailing policies, window of 2 ticks, pruning from 2 keys | `TrapsAreTold`: held back only within a window, mails a window apart, one trap lost per engine |
| `devices`, push / firmware | two requests and two switches of two vendors, texts that refuse / two runs and one switch | `OkIsSaved` / `UpdateIsSafe` (running image untouched, results true) |
| `devices`, layer 2 / counters / documents | two switches, three sweeps / one name, two devices / three names | `RowsOfOneSweep` / `UtilIsCarried` / `DocumentsAreRecent` |
| `files`, JSON | three payloads, kills, power failures, failing steps | `ImplementsStore` (refinement of `SnapshotStore`) |
| `files`, backup | two runs, two configurations, retention 0, 1, 2, three seconds | `BackupsCanBeRestored` (those modified last kept, one readable, verified ones readable), `ChangesAreTold` |
| `files`, scanner | two runs, two addresses, deletions, restarts | `NewDevicesAreTold`, `CoverageDoesNotCollapse` |
| `files`, manual hosts | two names and addresses, one of them listed, two operators, failing saves, restarts, an unreadable file | `ManualHostsAreHonoured` (watched, whatever fails or meets; in the mode chosen) |
| `access`, accounts | two users, two browsers, one enrolment and passkey, saves that raise, restarts | `RecoveryCodeAdmitsOnce`, `DefaultPasswordIsGated`, `SomeoneCanSignIn`, `EnrolmentIsKept`, `TypesOK` |
| `access`, throttle | two addresses, two names, two requests at a time | `GuessesAreBounded` |
| `access`, tokens | two tokens, two scopes | `TokensAreAsTold` |
| `access`, settings | two forms at a time, every section kind, unreadable keys, failing saves, restarts | `SecretsAreSafe` (encrypted, readable, as typed), `TypesOK` |
| `schedule_midnight` | the scan at 00:00, its default, and one task in mid-day | violated: `LateTicksSkipNothing` |
| `pipeline_batch_overtakes` | dedup off | violated: `RestoredFollowsDown` |
| `mongo_contract` | | violated: `ImplementsStore` |
| `interface_failed_walk` | | violated: `FailedWalkIsNoData` |
| `settings_no_backend` | | violated: `SomeBackendIsEnabled` |

### Bounds, and why they are enough

* The pool needs two threads of one host (an old one still in its poll and a new
  one) and two operators, one in the middle of a removal. More add nothing: threads
  of different hosts share no pool entry. In `Pool` saves succeed, the
  host answers every poll and no switch is muted or unmanaged, since the pool depends
  on none of it. In `Records` there is one operator, no scan and one thread, and no
  switch is muted and unmanaged at the same time: the two are fields of their own, set
  by handlers of their own. The theorems `PollersAreOwned`
  and `DeletedStaysUnpolled` cover any number, with all of it at once.
* In both, a name always stands for one host; section 5 tells what happens
  otherwise.
* `core_alerts` has one thread at a time per host (`MaxSlots` is 1): a switch that is
  deleted in the middle of a poll and added again gets its monitor once the old
  thread is done. Two threads polling one name at once, possible for the length of
  a poll, step on each other: a failure counted by the old one lands in the new
  entry, so `DownNeedsConsecutiveFailures` is not true of them, nor are the two
  properties of alerts. Two names are there because the scanner and the operator
  may register one host differently. `MaxFailures = Threshold`: beyond the threshold
  the count makes no difference.
* Batcher: three Timers allow one that is past cancelling, the one it drops
  and a third; two events of one kind and one of another make both batches and
  separate kinds. `CHECK_DEADLOCK FALSE` in `readings`, as the process really
  stops; in `files` and `access` the bounds (seconds, forms) run out.
* Sweeps: three devices and two workers, so that a worker goes on to a second
  device with what the first left of its loop; `MaxCalls` 3 with 2 calls per
  device renews an engine in the middle of one.
* Outages: two switches share a batch; a third would repeat that.
  `OutageIsMailedInTime` is about settings with
  `PollTicks * Threshold > BatchTicks`, as the defaults are.
* Schedule: only the order of ticks and windows and the length of a wait
  matter, so a day has 80 steps rather than 5760. `Wait + MaxDelay` is one step more
  than the two minutes of a whole window, so that windows of 4 and of 8 steps are
  both kept and stepped over. `schedule_midnight` has the same times.
* Thresholds: the duration is three periods and the gaps one or two, so that
  a breach may be sustained by evaluations that step over its start.
* Sessions: three slots for two threads leave one to lose; `MaxLost` 4 fills
  them and goes on. The theorem has no such bound on slots or threads.
* Traps: pruning starts at 2 keys rather than 5000, so that it happens at once.
* Layer 2: three sweeps by two threads let a third begin while the rows of the
  first are half replaced. Counters: two octets and a restart make a counter go
  back, stay and grow.
* Backup: three seconds hold one version more than the largest retention, where it
  is 2, and two do otherwise; two runs suffice, as the nightly one and one triggered
  are those there are.
* Scanner: the guard looks at lists of 2 rather than 10 and a drop of 25 %.
* Manual hosts: between two starts, the changes that fail or meet another are of
  one name and address (`MishapsAreOfOne`, a conjunct of the instance; the theorem
  is about the specification without it).
* Access: the throttle's limit and window are 2 with two requests under way, so
  the bound of `GuessesAreBounded` is reached; `MaxBeside` bounds the forms
  where operators work side by side, and is not used where they take turns.
* Symmetry is used over browsers, over the two runs and configurations of the
  backup, and over the interchangeable threads in `devices`; no liveness
  property is checked in those runs.

### Exceptions the properties state

A property is qualified where the code does not promise more, by a ghost
variable that says when:

* `beside`, and a monitor a request is about to stop: a monitor that was started in
  a name while a delete of that name was under way outlives the entry.
* `alone`: one operator at a time saves settings; a scan met no other.
* `caught`: backups that were opened or written after another run had looked at
  the modification times and chosen to remove them. `shared` and `overlapped`: that
  something can be read is said of runs that do not write in the same second, nor
  clean up side by side. `disturbed`: change reports compare versions, so a failed
  run, one that died or one beside another may shift one.
* `undone`: a restart undid a password change whose save failed, of which the
  operator was told, or found `users.json` unreadable.
* `twice`: an address entered under two names. `crossed`: one entered with a save
  that failed, or while another request was removing it; until the next start its
  monitor may be missing. All other manual hosts are watched, whatever fails
  or meets. Their name and mode are promised unless `excused`: a change of that name or
  address failed or met another. Nor is a mode promised to a name that is itself an
  address of `ip_list.txt`, which the monitors of that list use.
* `refused`: a switch refused a line of a push, or the save, in the text of its
  answer.
* `edits`: rules switched off or deleted keep the evaluator's state.
* `failed`: a registration of SNMPv3 users that raised is not tried again.
* `moved`: a switch restarted between status and upload of the same run.

### Fairness

* Monitor threads (`WF` of a thread's next step): the loop runs for as long as
  the thread lives, probes have timeouts, and locks are held for short sections.
  Nothing is assumed of operators, scans, faults or reachability.
* Timer threads, a `flush_all` under way and a monitor sending its own event
  take their steps; nobody is obliged to call `flush_all`.
* The poll and the evaluation jobs are fired at every interval. Their order, and
  how many evaluations are between two polls, is left open.
* Sweeps: the scheduler goes on firing (`WF`), a worker goes on, be it because
  the answer came or because it was noticed as lost (`WF`); and `eligible()` does
  not raise every time (`SF` of choosing the devices). Any answer may be lost,
  always.

## 4. Proofs

Constants are arbitrary under the assumptions named in each module
(`ConstantsAssumption`, `BatcherAssumption`, ...), which TLC evaluates on every
instance; the assumptions say of which type a constant is, that the model values
standing for `None`, a free slot or no state are not values of another kind, and
that an interval or a limit is positive or a set finite where the code relies on
it; the bounds of the instances are not among them. A theorem that needs more says so:

* in an ASSUME about the constants: `OutagesAreMailed`, `RestoredIsMailedLast`,
  `DeletedStaysUnpolled` (`NamesAreStable`), and the two about one slot;
* in a hypothesis about the behaviour, next to `Spec`: `[]OneThreadPerName`,
  `UnmanagedAtRest`, `CutsAreClean`, `AuthIsSavedWhole`. Each names the steps that the
  code does not exclude and that break the property.

Every safety invariant and action property that a passing run checks is proved.
Of the six that a run finds violated, four are proved under a hypothesis that
excludes what the run shows, so that there is no other way to violate them; for
`LateTicksSkipNothing`, `DailyTasksRunDaily` says how late a tick may really be.
In `Settings` the sections with secrets of their own are constants, and
`SettingsAssumption` says that none of them is `[radius]`, as in the code.

### The core (`SwitchMonitoringProofs`)

* `TypeCorrect`. `PollersAreOwned` is inductive given the types. `add` acts when the
  pool has no entry for the host, and then by the invariant every thread of that
  host that is alive is one a request has in hand, so the new one is the only one
  in the pool. `remove` takes a thread out of the pool into the hands of one request,
  and no other request can take it any more (`PopKeepsOwners`), so `stop()` stops just
  that one (`StopKeepsOwners`).
* `SnapshotStaysCurrent` is inductive given the types: every action that changes
  more than `failures` in an entry also saves, or leaves `dirty` set.
* `NamesAreKept` (a lemma the following rest on): threads, registry, snapshot and
  manual entries know a name for hosts it may stand for only.
* `RestartsBringBack`: an action property of `Restart` itself, of every registered
  switch; `main` seeds the monitors of manual hosts and `ip_list.txt` without
  touching what the snapshot says of them.
* `DeletedStaysUnpolled`, where each name stands for one host (`NamesAreStable`); scans,
  additions and deletes of any name, the same one included, go on at the same time.
  A live thread either has a registered name or is about to be stopped or was started
  beside a delete (`Outlives`). While a name is being deleted, every live thread of
  that name is one of the latter two (`DeletedIsUnpolled`): `DeleteBegin` takes the
  monitor of the host the registry has for the name out of the pool, and since names
  are stable no other live thread has that name, but those that other requests have
  in hand already. So when `DeleteEnd` drops the entry, whoever gets there first,
  nothing is left that goes on.
* `DownIsEarned`, for behaviours in which no two threads poll in one name
  (`[]OneThreadPerName`) and the agent is not restarted. `CountInv`: the failures a
  thread has computed and those stored are at most the streak. A second thread in
  the name would store its count over a reset, and a restart brings back a count
  that was saved before one; both are real, see section 5.
* `AlertsStayTrue`, under `[]OneThreadPerName` and where nothing holds alerts back (no
  dedup window, mute or restart). `StoryInv`: a verdict that a thread is about to
  tell agrees with `isDown` and was not told already, and what nobody is about to
  tell was told. A thread that outlived the entry of its name is, being alone in
  it, gone before the name is registered anew, so nothing it carries gets into a
  new entry.
* `DownIsEarnedInOneSlot` and `AlertsStayTrueInOneSlot`: `[]OneThreadPerName` follows
  (`NamesArePolledAlone`) from stable names and one thread per host at a time, the
  instance of `core_alerts`.
* `UnmanagedStaysSilent`, with `UnmanagedAtRest`: switches are unmanaged only while no
  poll of theirs is in flight. Then what a thread past its first look-up polls is
  managed (`PolledAreManaged`), also after a restart, and after the name was
  deleted and added again.

### Readings (`ReadingsProofs`)

* Batcher: `NoEventStranded` is not inductive by itself. `add` trusts the
  registration of a Timer, so one needs `RegisteredIsComing`: a registered Timer
  is on its way and for that kind. A late Timer may drop the registration of a
  newer one, which keeps both facts, because the newer Timer still comes.
  `BatcherImplementsDelivery` also needs that an event is in one place only (one
  pending list, one thread, one mail) and that a list has events of its own kind.
* `SweepsStayOrderly`: the guard names the one thread in a sweep; a worker's
  engine is never of an older loop where `get` is used (`EngineIsUsable`), since
  the health poll, the only one that asks with `get`, drops engine and loop
  together.
* `BreachesAreTold`: what the evaluator remembers of a breach is no older than
  the breach (`NoOlder`, while the rule was left alone) and no younger than the
  time the rule was in force during it (`NoYounger`).
* `ReportsStayHonest`: the count lies between the clients that some table held all
  through the run and those seen at some time. A steady client was found, or is
  in a table still to be asked or of a distro that failed (`RunSeesAll`).

### Documents (`DocumentsProofs`)

* `MongoDocumentsStayRecent`. During the upserts the documents already written
  are the payload's, during the deletes those not to be deleted are, and so on.
* `CleanCutsKeepTheContract`: where a save that fails or is killed has written
  nothing or all (`CutsAreClean`), every step is a step or a stutter of
  `SnapshotStore`. A save that runs to its end needs no hypothesis: what is there
  is its payload (`CompletedIsExact`, from the invariant above). `SnapshotStore` lets a
  backend promise at once that a committed payload survives a power failure, as
  `MongoStore` does, or later, as a file that is not synced with its directory.
* `RowsStayOfOneSweep`. The overlap guard leaves at most one thread with calls
  to make; a table is filled only after it was cleared by the same sweep, so the
  fill finds no rows, whichever calls failed before (`FillFindsNoRows`).
* `RatesAreCarried`. A stored or remembered sample of a device lies in its past:
  not above the present counter, or from before a restart (`IsPast`); two samples
  that a rate is computed from are in order (`IsBefore`), and if the later count
  is not smaller, the difference of the counts is at most that of the octets
  carried.

### Clocks (`ClockProofs`)

* `DailyTasksRunOnce` for any delays and schedule. `DailyTasksRunDaily` for any
  schedule, tolerance, delays and restarts: a task runs on a day whose ticks, from
  the last one before its first to the first one after its last, are no further apart
  than the window of that task is long. The invariant (`FiredInTime`): once the window
  of a task has begun and the agent has been up since midnight, the task has been
  fired. The window of 00:00 is half as long as the others, one minute, which is
  the wait itself: it is kept by ticks that are not late at all, and by no others.
* `OutagesAreMailed` where `PollTicks * Threshold > BatchTicks`. A potential: the
  ticks of the outage so far and those to the poll that will find the switch down
  (`ToDown`) make up the polls of an outage; then the outage and what is left of
  the batch make up the latency (`DownIsInTime`). The hypothesis is needed for a
  RESTORED still collecting, which must go out before DOWN can be found
  (`UpIsInTime`). `RestoredIsMailedLast` where `PollTicks > BatchTicks`, without dedup:
  an alert that is collecting is the status of its switch and goes out before the
  next poll of it (`KindsTakeTurns`). With intervals that are equal, TLC finds a
  RESTORED mailed before its DOWN. `AlertsStaySpaced`: the window that is left and the time since
  the last alert are together a window at least.

### Devices (`DevicesProofs`)

* `SessionsStayAccountedFor`. The switch never holds more than its slots
  (`SlotsAreKept`), and the orphans are paid for (`OrphansArePaid`): twice the
  orphans and the threads in their second attempt of a logout are at most twice
  the lost logins and the lost logouts. A login that is refused by a full switch
  finds at most the other threads live, so the rest are orphans; the counts only
  grow, so the fact stays true.
* `PushesAreSaved`: commands that were not refused and are about to be saved are in
  the running configuration, as a restart of the switch breaks the session they were
  entered in; what is in the startup configuration is in the running one, so saving
  again, for another push, loses nothing (`SavesWhatWasEntered`).
* `UpdatesAreSafe`: what a run knows of a switch since phase 1 is still the
  partition it runs from, unless it has moved, and an image on it is the one seen
  or the wanted version, which is all that any run writes (`StatusAges`).
* `TrapsStayTold`: what is left of a window and the time since its mail add up to
  the window (`WindowsAddUp`), because pruning takes closed windows only; a loss
  goes with an engine that is learned from then on (`LossesAreLearned`).

### Files (`FilesProofs`)

* `JsonStoreImplementsStore`, each step a step or a stutter of `SnapshotStore`.
  A file that can be renamed was synced and is the payload, and the current file
  is among those the directory may name.
* `NewDevicesStayTold`: whatever a scan carries was told before it got into a file
  or a monitor (`CarriedIsTold`). `CoverageStays`: while a scan is alone, the list
  it replaces is the one its hits were held against (`OneScanHoldsTheList`).
* `ManualHostsStayHonoured` has two invariants. `HostsAreWatched`, of every address but
  those of `twice` and `crossed`, whatever fails or meets: an address with an entry is
  watched or about to be, and a request that is about to stop its monitor leaves no
  entry behind. `HostsAreOK`, where changes were saved and met no other: an address
  at rest is watched as entered, or not at all (`Rests`), and one a request works on is
  as far as that request has come (`IsOnItsWay`). That two requests met on an address or
  two names share it is known (`MeetingsAreExcused`, `NamesakesAreKnown`).
* `BackupsStayRestorable`: what a run has chosen to remove has `retention` later ones
  above it among all versions there ever were, or was modified after the choice
  (`RemovalIsDue`): a larger set has no fewer later ones (`FewerLater`), so what is old
  in a list is old among all, however stale the list (`OldAreOld`). That something is
  readable also needs that the run which cleans up has itself modified the last version
  (`NewestIsOwn`), or that nothing is cleaned up at all (`SomethingIsReadable`).
* `EveryChangeIsTold`, by `TellInv`: undisturbed, versions are modified in the order of
  their names (`InOrder`) and a run opens the last of them (`OwnIsLast`), so that what
  the clean-up takes for the newest is what the report takes for it. The newest is the
  last success's until a run opens its own; then its own is the newest and the last
  success's the one below, and a clean-up that keeps two or all keeps both
  (`OwnIsNext`, `SecondIsNewest`). With a retention of 1 the property is not stated: the
  version to compare with is gone.

### Accounts and access (`AccountsProofs`, `AccessProofs`)

* `AccountsInv` holds of the accounts in memory and of `users.json` alike: there
  is one, the default password is marked to be changed, the promised are enrolled
  (`StoresAreGood`), also after a start that cannot read the file (`FreshStartInv`);
  where nothing is `dirty` they are equal; requests between two
  calls keep to their user (`RequestsAreSound`), nobody who could go on has the
  default password (`NobodyPasses`), a code has one owner, and one that was used
  is nowhere, not even in the file. `RecoveryCodesAdmitOnce`,
  `DefaultPasswordsAreGated`, `SomeoneCanAlwaysSignIn` and `EnrolmentsAreKept`
  follow.
* `TokensStayAsTold` needs that a token never minted is nowhere. `GuessesStayBounded`:
  the limiter's record of a name is the record of its guesses, and record and
  attempts under way together stay below the bound.
* `SecretsStaySafe`: what handlers are about to save is as good as the file
  (`SecretsAreGood`), and while operators take turns the file is what they were
  told and the copy at hand is current (`AloneIsHonest`).
* `BackendsStayEnabled`, while operators take turns and no form of the page ends
  between its two writes (`AuthIsSavedWhole`). `BackendInv`: the file has a backend or
  is about to get RADIUS from a half-saved form, and a form that still writes one
  of the two sections saves one that is on, or finds it in the file.
* `TypesHold`: the types of accounts and settings in one composition, as `access`
  checks them; each part keeps its own whether it moves or not (`PartsStandAlone`).

### Only model-checked

All liveness properties (`EventsGoOut`, `SweepsEnd`, `AlertsFollowReadings`,
`StatusFollowsReachability`), which like ENABLED are out of the prover's reach,
and `FailedWalkIsNoData`, which is violated whenever a counter column is lost:
without such losses it would say nothing. No module uses a recursive operator.

## 5. Where code and documentation disagree

Runs that end in a violation, on purpose:

* `core_unmanage`: a poll in flight when a switch is unmanaged still decides an
  alert (`switch_poller.py:275` is the only test), while the handler promises to
  stop alerting.
* `schedule_midnight`: a tick compares the clock with the time of its own day, so a
  task of 00:00, the default of the scan (`main.py:777`), has no half of its window
  before midnight. Where the first tick of a day comes between 00:01 and 00:02, and
  the one before it was yesterday's, which a delay of some seconds suffices for, the
  scan is skipped for the day; `scheduler.py:7-9` says that the tolerance of a minute
  on either side is there to exclude that.
* `pipeline_batch_overtakes`: DOWN and RESTORED have collection windows of their
  own, so RESTORED may be mailed first and DOWN stays the last word. The defaults
  collect for 60 s and poll every 30 s; with `alert_batch_seconds` below
  `poll_interval` and no dedup it cannot happen.
* `mongo_contract`: an interrupted `save` leaves a mixture of two snapshots,
  while `store/base.py` asks for an atomic one.
* `interface_failed_walk`: `interfaces.py` says that `collect` returns `None` on
  failure, but a counter column that timed out is taken for a counter of 0, and
  the next good sample shows traffic that was never carried.
* `settings_no_backend`: the page refuses a form with neither local accounts nor
  RADIUS, and then saves the two sections one after the other; a kill in
  between leaves neither enabled. Two operators need no kill: one goes over to
  RADIUS and one to local accounts, each saving a section after the other.

Behaviours met while modelling that shape the instances or the assumptions:

* A name whose manual entry is moved to another address keeps its old host in
  the registry, so delete stops the wrong monitor; where names stand for one host,
  that cannot happen, and `PollersHaveAState` is checked and proved there.
* A monitor that is started in a name while a delete of it is under way, by the scan
  or by another operator, keeps running although the delete then drops its entry;
  it polls to no effect until it is removed or the agent restarts (`beside`).
* Between the two halves of `manager.remove` a new monitor of the host may be started,
  so two are alive until `stop()` is called, and poll side by side for the length of
  a poll after it. In that time a failure counted by the old one may land in the new
  entry, and its alerts be told of it: `DownNeedsConsecutiveFailures` and
  `AlertsTellStatus` are stated of one thread per name.
* The running failure count is saved with other changes and restored, so after
  a restart fewer failures may suffice. `DownNeedsConsecutiveFailures` is checked
  without restarts.
* Nothing calls `flush_all`, at shutdown or elsewhere; a batch being collected is
  lost. The batcher is checked with a caller of it, as it is part of its interface.
* Dedup windows of DOWN and RESTORED are refreshed by suppressed alerts too and
  drift apart, so a RESTORED may be suppressed after a DOWN that was mailed.
* A restart within the window of a daily task fires the task again.
* A push in which the switch refuses a line, or the save, in the text of its answer is
  reported as done: `config_push.py:53-61` and `94-97` look at exceptions only. The
  page shows the texts, next to the "ok".
* Of two backups that overlap, one may open or write its version after the other has
  looked at the times and before it removes what it has chosen: that version is lost
  (`caught`). The clean-up goes by modification time and the change report and the list
  by name, so with overlapping runs and a retention of 1 the version that is newest by
  name may be the one that goes. A clock that is set back, two writes with the same
  time stamp, and a kill between the removal of a file and of its sidecar are left out.
* A manual host that is added again while another request is between taking it off
  the list and stopping its monitor (`app.py:1145-1149` against `1196-1207`) is on
  the list and unwatched until the next start (`crossed`).
* The threshold evaluator keeps its state when a rule is switched off, deleted
  or created again. `AlertMeansSustained` and `SustainedIsTold` are about rules
  not edited that way; `AlertsFollowReadings` shows that the effect is transient
  once the rule stays on. Readings of unmanaged switches go on being evaluated.
* A mail that fails is logged and not repeated, anywhere in the agent: a
  threshold counts as alerted and a scanned device as known all the same.
* Removing a profile and making it the default are two pages; saved at once
  they may leave `default_profile` naming none. Other settings saved side by
  side lose one of the changes.
* `SENSITIVE_FIELDS` names neither `[credentials.aos8]` nor the overrides in
  `[subnet_health]` and `[webserver_health]`, so a password written there by
  hand is not migrated; no page writes one.
* An unreadable `users.json`, `api_tokens.json` or `manual_hosts.json` is taken for an
  empty one, and replaced by the next save. For the accounts this is at once: the
  default account is made, and sessions from before outlive it (`undone`).
* An ARP answer that is the text of an error counts as the answer of a distro without
  clients (`subnet_health.py:168`), so the report has no note of it.
* A passkey's `sign_count` is read, verified against and written back in three
  steps, so of two logins at once the smaller count may stay.
* The subnet health page writes the subnets file and its section one after the
  other.
* Backups of switches without a known hostname share the directory `unknown`.
  ARP retention is called `retention_days` and counts files.
* A kill between the delete and the insert of `save_fdb` leaves a switch
  without rows until the next sweep.
* A firmware version is looked for in the text of another, so a switch with
  10.13.1 is skipped for 10.13; `UpdateIsSafe` says no more of SKIPPED.
* A crash between the removal of a manual host and `remove_switch` leaves a
  state that nothing monitors, as `ManualRemove` does by design.

## 6. Not modelled, and plan

Not modelled:

* ARP discovery and web server health: sequential jobs that collect, format and
  mail, with a time stamp as their only state.
* SNMP profiles and vendor detection: a search through candidates with a network
  call each; what it decides appears as a vendor that changes (`ConfigPush`).
* Vendor drivers, SNMP, FDB, LLDP and configuration parsing, page rendering,
  cryptography, mail transport, command-line handling: library wrappers, text and I/O.
* Audit, metrics, notifier, diff, templates, help: no protocol of their own.
* In modelled parts: static `[switch.*]` sections and `[controllers]`, scopes of
  rules and changes of their threshold, backup results, device inventory and
  pins in the state, metrics and trap inserts of the MongoDB backend.

Next:

1. Proofs about compositions: that a poll's alert, batched, is mailed under the
   guarantees of `AlertDelivery`; `AlertsTellStatus` with mutes and dedup on, where
   what is told lags behind the status by what was held back.
2. The composition of `ThresholdAlerting` with `Sweeps`, for readings that grow
   stale while a sweep is late.
3. ARP discovery and web server health, and the search for SNMP profiles.
