------------------------------ MODULE Watchdog ------------------------------
(***************************************************************************)
(* The service and the watcher supervising each other.  Each is a process  *)
(* that may crash or hang; each holds the lock of its role while it lives, *)
(* writes a PID file, touches a heartbeat file and runs a LoopDriver over  *)
(* what it hears of the other.  The watcher keeps its driver's record in   *)
(* watchdog-state.json; the user speaks through flag files; the service    *)
(* leaves startup-error.json behind when it cannot start.                  *)
(*                                                                         *)
(* The processes run at no relative speed: a dead peer's heartbeat and last*)
(* ping, the record and the restart window grow old at any time, and a     *)
(* live peer's signal may be missed.  `faults` and `requests` hold what the     *)
(* environment and the user have done, and bound it; `spawned`, `forgotten`,*)
(* `futile`, `loaded`, `wiped` and `closed` are history.                   *)
(***************************************************************************)
EXTENDS LoopDriver, Sequences

CONSTANTS
    MaxFaults,       \* bound: crashes, hangs, failed writes, spawns and starts
    MaxDisturbances, \* bound: faults and user's requests together
    Sessions         \* what the user may ask for, in this order, in a behaviour

Requests == {"launch", "quit", "retry", "resume", "edit"}
ASSUME BoundsAssumption == MaxFaults \in Nat /\ MaxDisturbances \in Nat
ASSUME SessionsAssumption == Sessions \subseteq Seq(Requests)

VARIABLES
    holder,     \* role -> what its single-instance lock holder is doing
    launched,   \* roles with an instance started that has not reached the guard
    pidFile,    \* role -> whom the PID file names
    beating,    \* the roles whose heartbeat file is fresh
    pinged,     \* the service's last ping is recent
    driver,     \* role observed -> the driver of the other process
    admin,      \* the watcher has an admin client
    record,     \* watchdog-state.json
    flags,      \* the flag files present: quit, retry, reset-config
    startError, \* startup-error.json
    config,     \* whether resolver_config.toml would load
    dialog,     \* the tray's reset of the settings: asked, flag written
    faults, requests,
    spawned,    \* the watcher's spawns since its budget was opened
    forgotten,  \* one of them is in no record that a watcher's start has resumed
    futile,     \* the watcher's spawns since the service recorded why it cannot start
    loaded,     \* the config on disk has been loaded by a start
    wiped,      \* such a config was moved aside
    closed      \* the watcher acted on a quit and the user has not come back

processes == <<holder, launched, pidFile, beating, pinged, driver, admin>>
files == <<record, flags, startError, config, dialog>>
bounds == <<faults, requests>>
history == <<spawned, forgotten, futile, loaded, wiped, closed>>
vars == <<processes, files, bounds, history>>

NoRecord == [state |-> "None", attempts |-> 0, window |-> FALSE, fresh |-> FALSE]
RecordType == [state : States, attempts : 0 .. MaxRestarts + 1,
               window : BOOLEAN, fresh : BOOLEAN]

Alive(r) == holder[r] # "none"
Peer(r) == IF r = "service" THEN "watcher" ELSE "service"

\* The environment has `n` faults left to give here.
Faulty(n) == /\ faults + n <= MaxFaults
             /\ faults + n + Len(requests) <= MaxDisturbances
             /\ faults' = faults + n

\* ensure_sibling_running: start `r` unless its PID file names a live instance.
Ensured(r) == IF pidFile[r] = "holder" THEN {} ELSE {r}

\* Process `r` ends: the OS frees its lock, what it had in memory is gone.
Ended(r) == /\ holder' = [holder EXCEPT ![r] = "none"]
            /\ pidFile' = [pidFile EXCEPT ![r] = IF @ = "holder" THEN "dead" ELSE @]
            /\ driver' = [driver EXCEPT ![Peer(r)] = NewDriver(Peer(r))]
            /\ admin' = IF r = "watcher" THEN FALSE ELSE admin

\* acquire and write_pid_file, the write failing when `n` is 1.
TakesTheLock(r, phase, n) ==
    /\ holder' = [holder EXCEPT ![r] = phase]
    /\ pidFile' = [pidFile EXCEPT ![r] = IF n = 1 THEN @ ELSE "holder"]

-----------------------------------------------------------------------------
(* The service.                                                            *)

(***************************************************************************)
(* run, up to begin_attempt: the failure of the last start is read, then   *)
(* cleared; reset-config.flag is taken, and honoured only after an invalid *)
(* config.                                                                 *)
(***************************************************************************)
ResetsConfig_Bug == "reset" \in flags
ResetsConfig == "reset" \in flags /\ startError = "config"

ServiceStarts ==
    /\ "service" \in launched /\ ~Alive("service")
    /\ \E n \in 0 .. 1 :
          /\ Faulty(n) /\ TakesTheLock("service", "boot", n)
          /\ futile' = IF n = 1 THEN 0 ELSE futile
    /\ launched' = launched \ {"service"}
    /\ flags' = flags \ {"reset"}
    /\ startError' = "none"
    /\ config' = IF ResetsConfig THEN "valid" ELSE config
    /\ wiped' = (wiped \/ (ResetsConfig /\ loaded))
    /\ UNCHANGED <<beating, pinged, driver, admin, record, dialog, requests,
                   spawned, forgotten, loaded, closed>>

\* A second instance exits; a lock that fails otherwise is recorded.
ServiceYields ==
    /\ "service" \in launched /\ Alive("service")
    /\ \E n \in 0 .. 1 :
          /\ Faulty(n)
          /\ startError' = IF n = 1 THEN "other" ELSE startError
    /\ launched' = launched \ {"service"}
    /\ UNCHANGED <<holder, pidFile, beating, pinged, driver, admin, record, flags,
                   config, dialog, requests, history>>

\* fail_startup, its write failing when `n` is 1.
ServiceFails(reason, n) ==
    /\ Ended("service")
    /\ startError' = IF n = 1 THEN startError ELSE reason
    /\ futile' = IF n = 1 THEN 0 ELSE futile
    /\ UNCHANGED <<beating, pinged, loaded>>

\* run, from the certificate to spawn_watchdog_tasks.
ServiceBoots ==
    /\ holder["service"] = "boot"
    /\ \/ Faulty(1) /\ ServiceFails("other", 0)
       \/ config = "invalid" /\ \E n \in 0 .. 1 : Faulty(n) /\ ServiceFails("config", n)
       \/ /\ Faulty(0) /\ config = "valid"
          /\ holder' = [holder EXCEPT !["service"] = "up"]
          /\ driver' = [driver EXCEPT !["watcher"] = NewDriver("watcher")]
          /\ beating' = beating \cup {"service"} /\ pinged' = TRUE
          /\ loaded' = TRUE /\ futile' = 0
          /\ UNCHANGED <<pidFile, startError, admin>>
    /\ UNCHANGED <<launched, record, flags, config, dialog,
                   requests, spawned, forgotten, wiped, closed>>

(***************************************************************************)
(* One turn of the service's loops: run_service_heartbeat_touch, and       *)
(* run_service_to_watcher_watchdog, to which a PID file that cannot be     *)
(* read is no answer.                                                      *)
(***************************************************************************)
ServiceTick ==
    /\ holder["service"] = "up"
    /\ \E heard \in {Hear(driver["watcher"],
                          [ipc |-> pinged, file |-> "watcher" \in beating])} :
       \E done \in {Tick(heard, CASE pidFile["watcher"] = "none" -> "None"
                                 [] pidFile["watcher"] = "holder" -> "Alive"
                                 [] pidFile["watcher"] = "dead" -> "Gone", FALSE)} :
       \E spawnFails \in 0 .. (IF done.spawns THEN 1 ELSE 0) :
          /\ Faulty(spawnFails)
          /\ driver' = [driver EXCEPT !["watcher"] = done.driver]
          /\ launched' = launched \cup (IF done.spawns /\ spawnFails = 0
                                        THEN {"watcher"} ELSE {})
    /\ beating' = beating \cup {"service"}
    /\ UNCHANGED <<holder, pidFile, pinged, admin, files, requests, history>>

-----------------------------------------------------------------------------
(* The watcher.                                                            *)

(***************************************************************************)
(* main, up to the loop: flags of the last session are cleared, the tray   *)
(* and the service brought up, and a record younger than 90 s resumed.     *)
(***************************************************************************)
WatcherStarts ==
    /\ "watcher" \in launched /\ ~Alive("watcher")
    /\ \E n \in 0 .. 1 : Faulty(n) /\ TakesTheLock("watcher", "up", n)
    /\ launched' = (launched \ {"watcher"}) \cup Ensured("service")
    /\ flags' = flags \ {"quit"}
    /\ driver' = [driver EXCEPT !["service"] =
                     IF record.fresh THEN Restored("service", record)
                     ELSE NewDriver("service")]
    /\ forgotten' = (forgotten \/ (spawned > 0 /\ (~record.fresh \/ record.state = "GaveUp")))
    /\ UNCHANGED <<beating, pinged, admin, record, startError, config, dialog, requests,
                   spawned, futile, loaded, wiped, closed>>

GaveUpOnRecord == record.fresh /\ record.state = "GaveUp"

\* The tile clicked while a watcher runs: a pending quit is cancelled.
WatcherYields ==
    /\ "watcher" \in launched /\ Alive("watcher")
    /\ launched' = launched \ {"watcher"}
    /\ flags' = (flags \ {"quit"}) \cup (IF GaveUpOnRecord THEN {"retry"} ELSE {})
    /\ UNCHANGED <<holder, pidFile, beating, pinged, driver, admin, record, startError,
                   config, dialog, bounds, history>>

(***************************************************************************)
(* The quit branch of the loop: the service is asked to shut down if there *)
(* is a client to ask with, and the watcher exits whatever the answer.     *)
(***************************************************************************)
WatcherQuits ==
    /\ holder["watcher"] = "up" /\ "quit" \in flags
    /\ LET stops == admin /\ holder["service"] = "up"
           ends == {"watcher"} \cup (IF stops THEN {"service"} ELSE {})
       IN /\ holder' = [r \in Roles |-> IF r \in ends THEN "none" ELSE holder[r]]
          /\ pidFile' = [r \in Roles |-> IF r \in ends /\ pidFile[r] = "holder"
                                         THEN "dead" ELSE pidFile[r]]
          /\ driver' = [driver EXCEPT !["service"] = NewDriver("service"),
                            !["watcher"] = IF stops THEN NewDriver("watcher") ELSE @]
    /\ admin' = FALSE
    /\ flags' = flags \ {"quit"}
    /\ closed' = TRUE /\ futile' = 0
    /\ UNCHANGED <<launched, beating, pinged, record, startError, config, dialog, bounds,
                   spawned, forgotten, loaded, wiped>>

(***************************************************************************)
(* One turn of run_watcher_to_service_watchdog.  A retry is taken first: a *)
(* fresh driver, no clients, the service ensured.  A service that is up    *)
(* answers the ping and /health unless the answer is lost; a new client is *)
(* built when there is none, and dropped after a spawn.  The record is     *)
(* written on every turn.                                                  *)
(***************************************************************************)
\* A missing PID file means that no process ever got as far as writing it.
PidObservation_Bug == CASE pidFile["service"] = "none" -> "None"
                        [] pidFile["service"] = "holder" -> "Alive"
                        [] pidFile["service"] = "dead" -> "Gone"
PidObservation == IF pidFile["service"] = "holder" THEN "Alive" ELSE "Gone"

RetryTaken == "retry" \in flags
Supervisor == IF RetryTaken THEN NewDriver("service") ELSE driver["service"]

ServiceHeard(ipcLost, healthLost) ==
    [ipc |-> holder["service"] = "up" /\ ~ipcLost,
     file |-> "service" \in beating,
     health |-> holder["service"] = "up" /\ ~healthLost]

WatcherTick ==
    /\ holder["watcher"] = "up" /\ "quit" \notin flags
    /\ \E ipcLost, healthLost, saveFails \in 0 .. 1 :
       \E heard \in {Hear(Supervisor, ServiceHeard(ipcLost = 1, healthLost = 1))} :
       \E done \in {Tick(heard, PidObservation, startError # "none")} :
       \E spawnFails \in 0 .. (IF done.spawns THEN 1 ELSE 0) :
          LET spawns == done.spawns /\ spawnFails = 0
          IN /\ ipcLost + healthLost > 0 => holder["service"] = "up"
             /\ Faulty(ipcLost + healthLost + spawnFails + saveFails)
             /\ driver' = [driver EXCEPT !["service"] = done.driver]
             /\ launched' = launched \cup (IF spawns THEN {"service"} ELSE {})
                                     \cup (IF RetryTaken THEN Ensured("service") ELSE {})
             /\ admin' = ~spawns
             /\ pinged' = (pinged \/ (holder["service"] = "up" /\ ipcLost = 0))
             /\ record' = IF saveFails = 1 THEN record
                          ELSE [state |-> done.driver.state, attempts |-> done.driver.attempts,
                                window |-> done.driver.window, fresh |-> TRUE]
             /\ spawned' = (IF RetryTaken THEN 0 ELSE spawned) + (IF spawns THEN 1 ELSE 0)
             /\ forgotten' = ((forgotten /\ ~RetryTaken) \/ (saveFails = 1 /\ spawns))
             /\ futile' = IF RetryTaken THEN 0
                          ELSE IF spawns /\ startError # "none" THEN futile + 1 ELSE futile
    /\ beating' = beating \cup {"watcher"}
    /\ flags' = flags \ {"retry"}
    /\ UNCHANGED <<holder, pidFile, startError, config, dialog, requests,
                   loaded, wiped, closed>>

-----------------------------------------------------------------------------
(* Faults, clocks and the user.                                            *)

Crash(r) ==
    /\ Alive(r)
    /\ Faulty(1)
    /\ Ended(r)
    /\ futile' = 0
    /\ UNCHANGED <<launched, beating, pinged, files, requests,
                   spawned, forgotten, loaded, wiped, closed>>

\* A process that lives on and answers nothing.
Hang(r) ==
    /\ holder[r] = "up"
    /\ Faulty(1)
    /\ holder' = [holder EXCEPT ![r] = "hung"]
    /\ UNCHANGED <<launched, pidFile, beating, pinged, driver, admin, files, requests, history>>

\* WATCHDOG_CHANNEL_FRESH passes since a process that is not up was last heard.
SignalsAge(r) ==
    /\ holder[r] # "up" /\ (r \in beating \/ (r = "watcher" /\ pinged))
    /\ beating' = beating \ {r}
    /\ pinged' = (pinged /\ r = "service")
    /\ UNCHANGED <<holder, launched, pidFile, driver, admin, files, bounds, history>>

\* A process that is up is late on one channel.
HeartbeatLate(r) ==
    /\ holder[r] = "up" /\ r \in beating /\ Faulty(1)
    /\ beating' = beating \ {r}
    /\ UNCHANGED <<holder, launched, pidFile, pinged, driver, admin, files, requests, history>>
PingLate ==
    /\ holder["watcher"] = "up" /\ pinged /\ Faulty(1)
    /\ pinged' = FALSE
    /\ UNCHANGED <<holder, launched, pidFile, beating, driver, admin, files, requests, history>>

BackoffElapses(r) ==
    /\ driver[r].waiting
    /\ driver' = [driver EXCEPT ![r].waiting = FALSE]
    /\ UNCHANGED <<holder, launched, pidFile, beating, pinged, admin, files, bounds, history>>

\* RESTART_WINDOW passes since the first attempt any budget has counted.
WindowElapses ==
    /\ record.window \/ \E r \in Roles : driver[r].window
    /\ driver' = [r \in Roles |-> [driver[r] EXCEPT !.window = FALSE]]
    /\ record' = [record EXCEPT !.window = FALSE]
    /\ spawned' = 0 /\ forgotten' = FALSE
    /\ UNCHANGED <<holder, launched, pidFile, beating, pinged, admin, flags, startError,
                   config, dialog, bounds, futile, loaded, wiped, closed>>

\* Ninety seconds pass since the record was written.
RecordAges ==
    /\ record.fresh /\ holder["watcher"] # "up"
    /\ record' = [record EXCEPT !.fresh = FALSE]
    /\ UNCHANGED <<processes, flags, startError, config, dialog, bounds, history>>

Asks(what) ==
    /\ requests' = Append(requests, what)
    /\ faults + Len(requests') <= MaxDisturbances
    /\ \E s \in Sessions : Len(s) >= Len(requests') /\ requests' = SubSeq(s, 1, Len(requests'))

\* The tile, or a login.
Launch ==
    /\ Asks("launch")
    /\ launched' = launched \cup {"watcher"}
    /\ closed' = FALSE /\ futile' = 0
    /\ UNCHANGED <<holder, pidFile, beating, pinged, driver, admin, files, faults,
                   spawned, forgotten, loaded, wiped>>

\* The tray's Quit: it writes the flag and exits.
Quit ==
    /\ Asks("quit") /\ ~closed
    /\ flags' = flags \cup {"quit"}
    /\ UNCHANGED <<processes, record, startError, config, dialog, faults, history>>

\* watchdog_override and recovery_actions: what the tray lets the user ask for.
Restarting == record.fresh /\ record.state \in {"Restarting", "BackoffWait"}
OffersRetry == GaveUpOnRecord \/ (holder["service"] # "up" /\ ~Restarting)
OffersReset == GaveUpOnRecord /\ startError = "config"

\* request_service_retry
AsksForRetry ==
    /\ flags' = flags \cup {"retry"}
    /\ launched' = launched \cup Ensured("watcher")
    /\ futile' = 0

Retry ==
    /\ Asks("retry") /\ ~closed /\ OffersRetry
    /\ AsksForRetry
    /\ UNCHANGED <<holder, pidFile, beating, pinged, driver, admin, record, startError,
                   config, dialog, faults, spawned, forgotten, loaded, wiped, closed>>

(***************************************************************************)
(* reset_config_and_retry: a modal question, the flag of the reset, then   *)
(* the retry; anything may happen in between.                              *)
(***************************************************************************)
AskReset ==
    /\ ~closed /\ OffersReset /\ dialog = "none"
    /\ dialog' = "asked"
    /\ UNCHANGED <<processes, record, flags, startError, config, bounds, history>>
ConfirmReset ==
    /\ dialog = "asked"
    /\ dialog' = "flagged"
    /\ flags' = flags \cup {"reset"}
    /\ UNCHANGED <<processes, record, startError, config, bounds, history>>
RetryAfterReset ==
    /\ dialog = "flagged"
    /\ dialog' = "none"
    /\ AsksForRetry
    /\ UNCHANGED <<holder, pidFile, beating, pinged, driver, admin, record, startError,
                   config, bounds, spawned, forgotten, loaded, wiped, closed>>

\* The end of a pause ensures the service.
Resume ==
    /\ Asks("resume") /\ ~closed
    /\ launched' = launched \cup Ensured("service")
    /\ futile' = 0
    /\ UNCHANGED <<holder, pidFile, beating, pinged, driver, admin, files, faults,
                   spawned, forgotten, loaded, wiped, closed>>

\* resolver_config.toml edited by hand: broken, or mended.
EditConfig ==
    /\ Asks("edit")
    /\ config' = IF config = "valid" THEN "invalid" ELSE "valid"
    /\ loaded' = FALSE
    /\ UNCHANGED <<processes, record, flags, startError, dialog, faults,
                   spawned, forgotten, futile, wiped, closed>>

-----------------------------------------------------------------------------
Init ==
    /\ holder = [r \in Roles |-> "none"]
    /\ launched = {"watcher"}
    /\ pidFile = [r \in Roles |-> "none"]
    /\ beating = {} /\ pinged = FALSE
    /\ driver = [r \in Roles |-> NewDriver(r)]
    /\ admin = FALSE
    /\ record = NoRecord
    /\ flags = {} /\ startError = "none" /\ config = "valid" /\ dialog = "none"
    /\ faults = 0 /\ requests = <<>>
    /\ spawned = 0 /\ forgotten = FALSE /\ futile = 0
    /\ loaded = FALSE /\ wiped = FALSE /\ closed = FALSE

Processes ==
    \/ ServiceStarts \/ ServiceYields \/ ServiceBoots \/ ServiceTick
    \/ WatcherStarts \/ WatcherYields \/ WatcherQuits \/ WatcherTick

Environment ==
    \/ \E r \in Roles : Crash(r) \/ Hang(r) \/ HeartbeatLate(r)
                        \/ SignalsAge(r) \/ BackoffElapses(r)
    \/ PingLate \/ WindowElapses \/ RecordAges
    \/ Launch \/ Quit \/ Retry \/ AskReset \/ ConfirmReset \/ RetryAfterReset
    \/ Resume \/ EditConfig

Next == Processes \/ Environment
Spec == Init /\ [][Next]_vars

(***************************************************************************)
(* The watcher's loop turns, a service started goes on, and time passes.   *)
(* Nothing is owed by the user, and no fault has to happen.                *)
(***************************************************************************)
Fairness ==
    /\ WF_vars(ServiceStarts \/ ServiceBoots)
    /\ WF_vars(WatcherTick \/ WatcherQuits)
    /\ WF_vars(SignalsAge("service")) /\ WF_vars(BackoffElapses("service"))

FairSpec == Spec /\ Fairness

-----------------------------------------------------------------------------
(* Every variable has the values its type in the code allows. *)
TypeOK ==
    /\ holder \in [Roles -> {"none", "boot", "up", "hung"}]
    /\ launched \in SUBSET Roles /\ beating \in SUBSET Roles
    /\ pidFile \in [Roles -> {"none", "holder", "dead"}]
    /\ driver["service"] \in DriverType("service")
    /\ driver["watcher"] \in DriverType("watcher")
    /\ pinged \in BOOLEAN /\ admin \in BOOLEAN
    /\ record = NoRecord \/ record \in RecordType
    /\ flags \in SUBSET {"quit", "retry", "reset"}
    /\ startError \in {"none", "config", "other"} /\ config \in {"valid", "invalid"}
    /\ dialog \in {"none", "asked", "flagged"}
    /\ faults \in 0 .. MaxFaults /\ requests \in Seq(Requests)
    /\ spawned \in Nat /\ futile \in Nat
    /\ {forgotten, loaded, wiped, closed} \subseteq BOOLEAN

(* The restart budget is spent once, however often the watcher itself dies *)
(* and is started again: while its record is written and found fresh, the  *)
(* spawns since the budget was opened stay within it. *)
SpawnsWithinBudget == ~forgotten => spawned <= MaxRestarts

(* A failure no restart can mend is not retried: after the service has     *)
(* recorded why it cannot start, at most the one spawn already decided     *)
(* upon follows, until the user asks, the service boots or crashes, or one *)
(* of its two files (its PID, the record of its failure) cannot be written. *)
StartupFailureStopsRestarts == futile <= 1

(* The reset of the settings moves aside only a file that the last attempt *)
(* could not load, never one that a start has loaded since. *)
ResetSparesWhatLoaded == ~wiped

(* Under a live watcher a service that is gone comes back, or the watcher  *)
(* gives up and the user is asked. *)
DeadServiceIsSettled ==
    (holder["watcher"] = "up" /\ holder["service"] = "none")
        ~> (holder["service"] = "up" \/ driver["service"].state = "GaveUp"
            \/ holder["watcher"] # "up")

(* What lifecycle.rs says of quit.flag: once the watcher has acted on it   *)
(* the whole app stays down until the user launches it again. *)
QuitLastsUntilTheNextLaunch == closed => "watcher" \notin launched
=============================================================================
