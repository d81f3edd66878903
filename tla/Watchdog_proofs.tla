--------------------------- MODULE Watchdog_proofs ---------------------------
(***************************************************************************)
(* For any thresholds, any budget of restarts, any faults and any user: the*)
(* watcher spawns the service within its budget, does not retry a failure  *)
(* no restart can mend, and a reset of the settings spares the file a start*)
(* has loaded.                                                             *)
(***************************************************************************)
EXTENDS Watchdog, SequenceTheorems, TLAPS

\* TypeOK, and that there is a driver for each role.
Typed == TypeOK /\ DOMAIN driver = Roles

(***************************************************************************)
(* Whoever will decide on the next spawn knows of those made: the driver of*)
(* a watcher that lives, and the record a watcher to come will resume.     *)
(***************************************************************************)
BudgetIsKnown ==
    ~forgotten /\ spawned > 0 =>
        /\ spawned <= MaxRestarts
        /\ record.window /\ spawned <= record.attempts
        /\ Alive("watcher") => driver["service"].window /\ spawned <= driver["service"].attempts

(***************************************************************************)
(* After a futile spawn the reason is still on record, or the service is   *)
(* about to find it again with its PID on file; either way the driver is   *)
(* not on its way to another spawn.                                        *)
(***************************************************************************)
FailureIsKnown ==
    /\ futile <= 1
    /\ futile > 0 =>
          /\ Alive("watcher") /\ driver["service"].state # "Restarting"
          /\ startError # "none" \/ (Alive("service") /\ pidFile["service"] = "holder")

(***************************************************************************)
(* A config whose failure is on record, or that would not load, is not one *)
(* a start has loaded; and no start is under way or done beside the record.*)
(***************************************************************************)
UnloadedIsKnown ==
    /\ ~wiped
    /\ loaded => config = "valid" /\ startError # "config"
    /\ Alive("service") => startError # "config"

IndInv == Typed /\ BudgetIsKnown /\ FailureIsKnown /\ UnloadedIsKnown

-----------------------------------------------------------------------------
(* The driver.                                                             *)

\* The thresholds are positive numbers.
LEMMA Constants == /\ MissThreshold \in Nat /\ MissThreshold >= 1
                   /\ MaxRestarts \in Nat /\ MaxRestarts >= 1
  BY MissThresholdAssumption, MaxRestartsAssumption

\* A new driver has counted nothing.
LEMMA NewDriverFacts ==
  ASSUME NEW r \in Roles
  PROVE  NewDriver(r) \in DriverType(r) /\ NewDriver(r).state = "Healthy"
  BY Constants DEF NewDriver, DriverType, States

\* A restored one has what the record has, or is new.
LEMMA RestoredFacts ==
  ASSUME NEW r \in Roles, NEW rec \in RecordType
  PROVE  /\ Restored(r, rec) \in DriverType(r)
         /\ rec.state # "GaveUp" => /\ Restored(r, rec).attempts = rec.attempts
                                    /\ Restored(r, rec).window = rec.window
                                    /\ Restored(r, rec).state = rec.state
<1>1. CASE rec.state = "GaveUp"
  BY <1>1, NewDriverFacts DEF Restored
<1>2. CASE rec.state # "GaveUp"
  <2>1. /\ rec.state \in States /\ rec.attempts \in 0 .. MaxRestarts + 1
        /\ rec.window \in BOOLEAN /\ NewDriver(r) \in DriverType(r)
    BY NewDriverFacts DEF RecordType
  <2>2. Restored(r, rec) = [NewDriver(r) EXCEPT !.state = rec.state,
                              !.attempts = rec.attempts, !.window = rec.window]
    BY <1>2 DEF Restored
  <2> QED  BY <2>1, <2>2 DEF DriverType
<1> QED  BY <1>1, <1>2

\* Hearing changes the counters of misses only, and keeps them in range.
LEMMA HearFacts ==
  ASSUME NEW r \in Roles, NEW d \in DriverType(r), NEW heard
  PROVE  /\ Hear(d, heard) \in DriverType(r)
         /\ Hear(d, heard).state = d.state /\ Hear(d, heard).attempts = d.attempts
         /\ Hear(d, heard).window = d.window
<1>1. Bump(d.misses, heard) \in [Channels(r) -> 0 .. MissThreshold]
  BY Constants DEF Bump, DriverType
<1> QED  BY <1>1 DEF Hear, DriverType

\* An attempt is counted, one past the budget at most, in an open window.
LEMMA RegisteredFacts ==
  ASSUME NEW r \in Roles, NEW d \in DriverType(r)
  PROVE  /\ Registered(d) \in DriverType(r) /\ Registered(d).window
         /\ Registered(d).attempts >= 1
         /\ d.window => Registered(d).attempts >= d.attempts
         /\ d.window /\ Registered(d).attempts <= MaxRestarts =>
               Registered(d).attempts = d.attempts + 1
<1> DEFINE n == IF d.attempts <= MaxRestarts THEN d.attempts + 1 ELSE d.attempts
<1>1. n \in 1 .. MaxRestarts + 1 /\ n >= d.attempts
      /\ (n <= MaxRestarts => n = d.attempts + 1)
  BY Constants DEF DriverType
<1>2. CASE d.window
  <2>1. Registered(d) = [d EXCEPT !.attempts = n]
    BY <1>2 DEF Registered
  <2> HIDE DEF n
  <2>2. /\ Registered(d).attempts = n /\ Registered(d).window = d.window
        /\ Registered(d) \in DriverType(r)
    BY <1>1, <2>1 DEF DriverType
  <2> QED  BY <1>1, <1>2, <2>2
<1>3. CASE ~d.window
  <2>1. Registered(d) = [d EXCEPT !.window = TRUE, !.attempts = 1]
    BY <1>3 DEF Registered
  <2>2. 1 \in 0 .. MaxRestarts + 1
    BY Constants
  <2>3. Registered(d).attempts = 1 /\ Registered(d).window /\ Registered(d) \in DriverType(r)
    BY <2>1, <2>2 DEF DriverType
  <2> QED  BY <1>3, <2>3
<1> QED  BY <1>2, <1>3

\* A tick spawns from Restarting, having counted the attempt, and within the
\* budget; Restarting is reached from a check that found the peer gone.
LEMMA TickFacts ==
  ASSUME NEW r \in Roles, NEW d \in DriverType(r), NEW pid, NEW failed \in BOOLEAN
  PROVE  /\ Tick(d, pid, failed).driver \in DriverType(r)
         /\ Tick(d, pid, failed).spawns \in BOOLEAN
         /\ d.window => /\ Tick(d, pid, failed).driver.window
                        /\ Tick(d, pid, failed).driver.attempts >= d.attempts
         /\ Tick(d, pid, failed).spawns =>
               /\ d.state = "Restarting"
               /\ Tick(d, pid, failed).driver.state # "Restarting"
               /\ Tick(d, pid, failed).driver.window
               /\ Tick(d, pid, failed).driver.attempts \in 1 .. MaxRestarts
               /\ d.window => Tick(d, pid, failed).driver.attempts = d.attempts + 1
         /\ Tick(d, pid, failed).driver.state = "Restarting" =>
               d.state = "VerifyingPid" /\ pid = "Gone" /\ ~failed
<1> DEFINE counted == IF d.state = "Restarting" THEN Registered(d) ELSE d
           allowed == counted.attempts <= MaxRestarts
           i == [dead |-> VotedDead(d.misses), degraded |-> Silent(d.misses) # {},
                 pid |-> pid, startupFailed |-> failed,
                 allowed |-> allowed, elapsed |-> ~d.waiting]
           next == Transition(d.state, i)
<1>1. /\ counted \in DriverType(r)
      /\ d.window => counted.window /\ counted.attempts >= d.attempts
      /\ d.state = "Restarting" => counted.window /\ counted.attempts >= 1
      /\ d.state = "Restarting" /\ d.window /\ allowed => counted.attempts = d.attempts + 1
  <2>1. CASE d.state # "Restarting"
    <3>1. counted = d
      BY <2>1
    <3> HIDE DEF counted
    <3> QED  BY <2>1, <3>1 DEF DriverType
  <2>2. CASE d.state = "Restarting"
    <3>1. counted = Registered(d)
      BY <2>2
    <3> HIDE DEF counted
    <3> QED  BY <2>2, <3>1, RegisteredFacts
  <2> QED  BY <2>1, <2>2
<1>2. /\ next \in States
      /\ next = "Restarting" => d.state = "VerifyingPid" /\ pid = "Gone" /\ ~failed
  BY DEF Transition, PeerGone, States, DriverType
<1>3. /\ Tick(d, pid, failed).driver =
            [counted EXCEPT !.state = next,
                            !.waiting = IF d.state = "Restarting" THEN allowed
                                        ELSE IF next = "Healthy" THEN FALSE ELSE @]
      /\ Tick(d, pid, failed).spawns = (d.state = "Restarting" /\ allowed)
  BY DEF Tick
<1> HIDE DEF next, counted
<1>4. /\ Tick(d, pid, failed).driver \in DriverType(r)
      /\ Tick(d, pid, failed).driver.state = next
      /\ Tick(d, pid, failed).driver.window = counted.window
      /\ Tick(d, pid, failed).driver.attempts = counted.attempts
  <2> DEFINE w == IF d.state = "Restarting" THEN allowed
                  ELSE IF next = "Healthy" THEN FALSE ELSE counted.waiting
  <2>1. Tick(d, pid, failed).driver = [counted EXCEPT !.state = next, !.waiting = w]
    BY <1>3
  <2>2. w \in BOOLEAN
    <3>1. counted.waiting \in BOOLEAN
      BY <1>1 DEF DriverType
    <3>2. allowed \in BOOLEAN
      OBVIOUS
    <3> HIDE DEF allowed
    <3> QED  BY <3>1, <3>2
  <2> HIDE DEF w
  <2> QED  BY <1>1, <1>2, <2>1, <2>2 DEF DriverType
<1>5. d.state = "Restarting" => next # "Restarting"
  BY <1>2
<1>6. d.state = "Restarting" /\ allowed => counted.attempts \in 1 .. MaxRestarts
  BY <1>1, Constants DEF DriverType
<1> QED  BY <1>1, <1>2, <1>3, <1>4, <1>5, <1>6

-----------------------------------------------------------------------------
(* The steps: typing, the budget, the failure, the reset.                  *)

\* Each of the two processes is the other's peer.
LEMMA RoleFacts == /\ Roles = {"service", "watcher"} /\ "service" # "watcher"
                   /\ Peer("service") = "watcher" /\ Peer("watcher") = "service"
  BY DEF Roles, Peer

\* Faults are counted up to their bound.
LEMMA FaultyFacts ==
  ASSUME Typed, NEW n \in Nat, Faulty(n)
  PROVE  faults' \in 0 .. MaxFaults
  BY BoundsAssumption DEF Faulty, Typed, TypeOK

\* Nothing has been spawned, has failed or has been loaded at the start.
LEMMA InitEstablishes == Init => IndInv
<1> SUFFICES ASSUME Init PROVE IndInv
  OBVIOUS
<1>1. Typed
  <2>1. <<>> \in Seq(Requests)
    OBVIOUS
  <2>2. driver["service"] = NewDriver("service") /\ driver["watcher"] = NewDriver("watcher")
    BY RoleFacts DEF Init
  <2>3. 0 \in 0 .. MaxFaults
    BY BoundsAssumption
  <2> QED  BY <2>1, <2>2, <2>3, NewDriverFacts, RoleFacts DEF Init, Typed, TypeOK
<1>2. BudgetIsKnown /\ FailureIsKnown /\ UnloadedIsKnown
  BY RoleFacts DEF Init, BudgetIsKnown, FailureIsKnown, UnloadedIsKnown, Alive
<1> QED  BY <1>1, <1>2 DEF IndInv

\* A start clears the failure on record; only a reset after one replaces the config.
LEMMA ServiceStartsStep == ASSUME IndInv, ServiceStarts PROVE IndInv'
<1>0. PICK n \in 0 .. 1 : /\ Faulty(n) /\ TakesTheLock("service", "boot", n)
                          /\ futile' = IF n = 1 THEN 0 ELSE futile
  BY DEF ServiceStarts
<1>1. Typed'
  <2>1. faults' \in 0 .. MaxFaults
    BY <1>0, FaultyFacts DEF IndInv
  <2>2. /\ holder' \in [Roles -> {"none", "boot", "up", "hung"}]
        /\ pidFile' \in [Roles -> {"none", "holder", "dead"}]
    BY <1>0, RoleFacts DEF TakesTheLock, IndInv, Typed, TypeOK
  <2> QED  BY <1>0, <2>1, <2>2 DEF ServiceStarts, IndInv, Typed, TypeOK
<1>2. BudgetIsKnown'
  BY <1>0, RoleFacts DEF ServiceStarts, TakesTheLock, IndInv, Typed, TypeOK, BudgetIsKnown, Alive
<1>3. FailureIsKnown'
  BY <1>0, RoleFacts DEF ServiceStarts, TakesTheLock, IndInv, Typed, TypeOK, FailureIsKnown, Alive
<1>4. UnloadedIsKnown'
  BY <1>0, RoleFacts DEF ServiceStarts, TakesTheLock, IndInv, Typed, TypeOK, UnloadedIsKnown,
                         Alive, ResetsConfig
<1> QED  BY <1>1, <1>2, <1>3, <1>4 DEF IndInv

\* A second instance leaves the first its lock, and can only add a failure.
LEMMA ServiceYieldsStep == ASSUME IndInv, ServiceYields PROVE IndInv'
<1>0. PICK n \in 0 .. 1 : Faulty(n) /\ startError' = IF n = 1 THEN "other" ELSE startError
  BY DEF ServiceYields
<1>1. Typed'
  <2>1. faults' \in 0 .. MaxFaults
    BY <1>0, FaultyFacts DEF IndInv
  <2> QED  BY <1>0, <2>1 DEF ServiceYields, IndInv, Typed, TypeOK, history
<1>2. BudgetIsKnown' /\ FailureIsKnown' /\ UnloadedIsKnown'
  BY <1>0 DEF ServiceYields, IndInv, BudgetIsKnown, FailureIsKnown, UnloadedIsKnown, Alive, history
<1> QED  BY <1>1, <1>2 DEF IndInv

\* A process that ends leaves everything in its range.
LEMMA EndedFacts ==
  ASSUME IndInv, NEW r \in Roles, Ended(r)
  PROVE  /\ holder' \in [Roles -> {"none", "boot", "up", "hung"}] /\ ~Alive(r)'
         /\ pidFile' \in [Roles -> {"none", "holder", "dead"}]
         /\ DOMAIN driver' = Roles /\ admin' \in BOOLEAN
         /\ driver'["service"] \in DriverType("service")
         /\ driver'["watcher"] \in DriverType("watcher")
         /\ r = "service" => /\ driver'["service"] = driver["service"]
                             /\ Alive("watcher")' = Alive("watcher")
         /\ r = "watcher" => /\ driver'["service"].state = "Healthy"
                             /\ Alive("service")' = Alive("service")
                             /\ pidFile'["service"] = pidFile["service"]
  BY RoleFacts, NewDriverFacts DEF Ended, IndInv, Typed, TypeOK, Alive

\* A boot fails, and records why, or loads the config.
LEMMA ServiceBootsStep == ASSUME IndInv, ServiceBoots PROVE IndInv'
<1>1. ASSUME NEW n \in 0 .. 1, NEW reason \in {"config", "other"}, Faulty(n) \/ Faulty(1),
             ServiceFails(reason, n), reason = "config" => config = "invalid"
      PROVE  IndInv'
  <2>1. faults' \in 0 .. MaxFaults
    BY <1>1, FaultyFacts DEF IndInv
  <2>2. Typed'
    BY <1>1, <2>1, EndedFacts, RoleFacts
       DEF ServiceFails, ServiceBoots, IndInv, Typed, TypeOK
  <2>3. BudgetIsKnown'
    BY <1>1, EndedFacts, RoleFacts DEF ServiceFails, ServiceBoots, IndInv, BudgetIsKnown
  <2>4. FailureIsKnown'
    BY <1>1, EndedFacts, RoleFacts
       DEF ServiceFails, ServiceBoots, IndInv, FailureIsKnown, Typed, TypeOK
  <2>5. UnloadedIsKnown'
    BY <1>1, EndedFacts, RoleFacts DEF ServiceFails, ServiceBoots, IndInv, UnloadedIsKnown
  <2> QED  BY <2>2, <2>3, <2>4, <2>5 DEF IndInv
<1>2. ASSUME Faulty(0), config = "valid",
             holder' = [holder EXCEPT !["service"] = "up"],
             driver' = [driver EXCEPT !["watcher"] = NewDriver("watcher")],
             beating' = beating \cup {"service"}, pinged' = TRUE,
             loaded' = TRUE, futile' = 0,
             UNCHANGED <<pidFile, startError, admin>>
      PROVE  IndInv'
  <2>1. faults' \in 0 .. MaxFaults
    BY <1>2, FaultyFacts DEF IndInv
  <2>2. Typed'
    BY <1>2, <2>1, RoleFacts, NewDriverFacts DEF ServiceBoots, IndInv, Typed, TypeOK
  <2>3. BudgetIsKnown' /\ FailureIsKnown'
    BY <1>2, RoleFacts DEF ServiceBoots, IndInv, BudgetIsKnown, FailureIsKnown, Alive, Typed, TypeOK
  <2>4. UnloadedIsKnown'
    BY <1>2, RoleFacts DEF ServiceBoots, IndInv, UnloadedIsKnown, Alive, Typed, TypeOK
  <2> QED  BY <2>2, <2>3, <2>4 DEF IndInv
<1>3. CASE Faulty(1) /\ ServiceFails("other", 0)
  <2>1. 0 \in 0 .. 1 /\ "other" \in {"config", "other"} /\ "other" # "config"
    OBVIOUS
  <2> QED  BY <1>1, <1>3, <2>1
<1>4. CASE config = "invalid" /\ \E n \in 0 .. 1 : Faulty(n) /\ ServiceFails("config", n)
  <2>1. "config" \in {"config", "other"}
    OBVIOUS
  <2> QED  BY <1>1, <1>4, <2>1
<1> QED  BY <1>2, <1>3, <1>4 DEF ServiceBoots

\* The service's own driver spawns the watcher, and counts on its own.
LEMMA ServiceTickStep == ASSUME IndInv, ServiceTick PROVE IndInv'
<1> DEFINE heard == Hear(driver["watcher"], [ipc |-> pinged, file |-> "watcher" \in beating])
           pid == CASE pidFile["watcher"] = "none" -> "None"
                    [] pidFile["watcher"] = "holder" -> "Alive"
                    [] pidFile["watcher"] = "dead" -> "Gone"
           done == Tick(heard, pid, FALSE)
<1>1. heard \in DriverType("watcher")
  BY HearFacts, RoleFacts DEF IndInv, Typed, TypeOK
<1> HIDE DEF heard, pid
<1>2. done.driver \in DriverType("watcher")
  BY <1>1, TickFacts, RoleFacts
<1> HIDE DEF done
<1>3. PICK n \in 0 .. (IF done.spawns THEN 1 ELSE 0) :
         /\ Faulty(n)
         /\ driver' = [driver EXCEPT !["watcher"] = done.driver]
         /\ launched' = launched \cup (IF done.spawns /\ n = 0 THEN {"watcher"} ELSE {})
  BY DEF ServiceTick, heard, pid, done
<1>4. faults' \in 0 .. MaxFaults /\ launched' \in SUBSET Roles
  <2>1. n \in Nat
    BY <1>3
  <2> QED  BY <1>3, <2>1, FaultyFacts, RoleFacts DEF IndInv, Typed, TypeOK
<1>5. Typed'
  BY <1>2, <1>3, <1>4, RoleFacts DEF ServiceTick, IndInv, Typed, TypeOK, files, history
<1>6. BudgetIsKnown' /\ FailureIsKnown' /\ UnloadedIsKnown'
  BY <1>3, RoleFacts
     DEF ServiceTick, IndInv, Typed, BudgetIsKnown, FailureIsKnown, UnloadedIsKnown, Alive,
         files, history
<1> QED  BY <1>5, <1>6 DEF IndInv

\* A watcher resumes what its record says, or what was spawned is forgotten.
LEMMA WatcherStartsStep == ASSUME IndInv, WatcherStarts PROVE IndInv'
<1>0. PICK n \in 0 .. 1 : Faulty(n) /\ TakesTheLock("watcher", "up", n)
  BY DEF WatcherStarts
<1>1. faults' \in 0 .. MaxFaults
  BY <1>0, FaultyFacts DEF IndInv
<1>2. record.fresh => record \in RecordType
  BY DEF IndInv, Typed, TypeOK, NoRecord
<1> DEFINE resumed == IF record.fresh THEN Restored("service", record) ELSE NewDriver("service")
<1>3. /\ resumed \in DriverType("service")
      /\ record.fresh /\ record.state # "GaveUp" =>
            resumed.attempts = record.attempts /\ resumed.window = record.window
  BY <1>2, RestoredFacts, NewDriverFacts, RoleFacts
<1> HIDE DEF resumed
<1>4. driver' = [driver EXCEPT !["service"] = resumed]
  BY DEF WatcherStarts, resumed
<1>5. Typed'
  <2>1. /\ holder' \in [Roles -> {"none", "boot", "up", "hung"}]
        /\ pidFile' \in [Roles -> {"none", "holder", "dead"}]
    BY <1>0, RoleFacts DEF TakesTheLock, IndInv, Typed, TypeOK
  <2>2. launched' \in SUBSET Roles
    BY RoleFacts DEF WatcherStarts, Ensured, IndInv, Typed, TypeOK
  <2>3. forgotten' \in BOOLEAN
    BY DEF WatcherStarts
  <2> QED
    BY <1>1, <1>3, <1>4, <2>1, <2>2, <2>3, RoleFacts DEF WatcherStarts, IndInv, Typed, TypeOK
<1>6. BudgetIsKnown'
  BY <1>3, <1>4, RoleFacts DEF WatcherStarts, IndInv, Typed, TypeOK, BudgetIsKnown
<1>7. FailureIsKnown'
  BY <1>0 DEF WatcherStarts, IndInv, Typed, TypeOK, FailureIsKnown
<1>8. UnloadedIsKnown'
  BY <1>0, RoleFacts
     DEF WatcherStarts, TakesTheLock, IndInv, Typed, TypeOK, UnloadedIsKnown, Alive
<1> QED  BY <1>5, <1>6, <1>7, <1>8 DEF IndInv

\* A second watcher exits having changed flags only.
LEMMA WatcherYieldsStep == ASSUME IndInv, WatcherYields PROVE IndInv'
<1>1. Typed'
  BY DEF WatcherYields, IndInv, Typed, TypeOK, bounds, history
<1>2. BudgetIsKnown' /\ FailureIsKnown' /\ UnloadedIsKnown'
  BY DEF WatcherYields, IndInv, BudgetIsKnown, FailureIsKnown, UnloadedIsKnown, Alive,
         bounds, history
<1> QED  BY <1>1, <1>2 DEF IndInv

\* A quit ends the watcher, and with it what it was about to do.
LEMMA WatcherQuitsStep == ASSUME IndInv, WatcherQuits PROVE IndInv'
<1>1. Typed'
  <2>1. /\ holder' \in [Roles -> {"none", "boot", "up", "hung"}]
        /\ pidFile' \in [Roles -> {"none", "holder", "dead"}]
    BY DEF WatcherQuits, IndInv, Typed, TypeOK
  <2>2. /\ DOMAIN driver' = Roles
        /\ driver'["service"] \in DriverType("service")
        /\ driver'["watcher"] \in DriverType("watcher")
    BY RoleFacts, NewDriverFacts DEF WatcherQuits, IndInv, Typed, TypeOK
  <2> QED  BY <2>1, <2>2 DEF WatcherQuits, IndInv, Typed, TypeOK, bounds
<1>2. ~Alive("watcher")' /\ (Alive("service")' => Alive("service"))
  BY RoleFacts DEF WatcherQuits, IndInv, Typed, TypeOK, Alive
<1>3. BudgetIsKnown' /\ FailureIsKnown' /\ UnloadedIsKnown'
  BY <1>2 DEF WatcherQuits, IndInv, BudgetIsKnown, FailureIsKnown, UnloadedIsKnown
<1> QED  BY <1>1, <1>3 DEF IndInv

(***************************************************************************)
(* The watcher's turn.  It spawns from Restarting only: the attempt is     *)
(* counted in the driver and, unless its save fails, in the record; and a  *)
(* driver in Restarting has no futile spawn behind it.                     *)
(***************************************************************************)
LEMMA WatcherTickStep == ASSUME IndInv, WatcherTick PROVE IndInv'
<1>0. PICK ipcLost \in 0 .. 1, healthLost \in 0 .. 1, saveFails \in 0 .. 1 :
      \E heard \in {Hear(Supervisor, ServiceHeard(ipcLost = 1, healthLost = 1))} :
      \E done \in {Tick(heard, PidObservation, startError # "none")} :
      \E spawnFails \in 0 .. (IF done.spawns THEN 1 ELSE 0) :
         LET spawns == done.spawns /\ spawnFails = 0
         IN /\ ipcLost + healthLost > 0 => holder["service"] = "up"
            /\ Faulty(ipcLost + healthLost + spawnFails + saveFails)
            /\ driver' = [driver EXCEPT !["service"] = done.driver]
            /\ launched' = launched \cup (IF spawns THEN {"service"} ELSE {})
                                    \cup (IF RetryTaken THEN Ensured("service") ELSE {})
            /\ admin' = ~spawns
            /\ pinged' = (pinged \/ (holder["service"] = "up" /\ ipcLost = 0))
            /\ record' = IF saveFails = 1 THEN record
                         ELSE [state |-> done.driver.state, attempts |-> done.driver.attempts,
                               window |-> done.driver.window, fresh |-> TRUE]
            /\ spawned' = (IF RetryTaken THEN 0 ELSE spawned) + (IF spawns THEN 1 ELSE 0)
            /\ forgotten' = ((forgotten /\ ~RetryTaken) \/ (saveFails = 1 /\ spawns))
            /\ futile' = IF RetryTaken THEN 0
                         ELSE IF spawns /\ startError # "none" THEN futile + 1 ELSE futile
  BY DEF WatcherTick
<1> DEFINE heard == Hear(Supervisor, ServiceHeard(ipcLost = 1, healthLost = 1))
           done == Tick(heard, PidObservation, startError # "none")
<1>1. PICK spawnFails \in 0 .. (IF done.spawns THEN 1 ELSE 0) :
         /\ Faulty(ipcLost + healthLost + spawnFails + saveFails)
         /\ driver' = [driver EXCEPT !["service"] = done.driver]
         /\ launched' = launched \cup (IF done.spawns /\ spawnFails = 0 THEN {"service"} ELSE {})
                                 \cup (IF RetryTaken THEN Ensured("service") ELSE {})
         /\ admin' = ~(done.spawns /\ spawnFails = 0)
         /\ pinged' = (pinged \/ (holder["service"] = "up" /\ ipcLost = 0))
         /\ record' = IF saveFails = 1 THEN record
                      ELSE [state |-> done.driver.state, attempts |-> done.driver.attempts,
                            window |-> done.driver.window, fresh |-> TRUE]
         /\ spawned' = (IF RetryTaken THEN 0 ELSE spawned)
                          + (IF done.spawns /\ spawnFails = 0 THEN 1 ELSE 0)
         /\ forgotten' = ((forgotten /\ ~RetryTaken)
                             \/ (saveFails = 1 /\ done.spawns /\ spawnFails = 0))
         /\ futile' = IF RetryTaken THEN 0
                      ELSE IF done.spawns /\ spawnFails = 0 /\ startError # "none"
                      THEN futile + 1 ELSE futile
  BY <1>0
<1>2. /\ Supervisor \in DriverType("service")
      /\ ~RetryTaken => Supervisor = driver["service"]
      /\ RetryTaken => Supervisor.state = "Healthy"
  BY RoleFacts, NewDriverFacts DEF Supervisor, IndInv, Typed, TypeOK
<1>3. /\ heard \in DriverType("service") /\ heard.state = Supervisor.state
      /\ heard.attempts = Supervisor.attempts /\ heard.window = Supervisor.window
  BY <1>2, HearFacts, RoleFacts
<1> HIDE DEF heard
<1>4. /\ done.driver \in DriverType("service") /\ done.spawns \in BOOLEAN
      /\ heard.window => done.driver.window /\ done.driver.attempts >= heard.attempts
      /\ done.spawns => /\ heard.state = "Restarting" /\ done.driver.state # "Restarting"
                        /\ done.driver.window /\ done.driver.attempts \in 1 .. MaxRestarts
                        /\ heard.window => done.driver.attempts = heard.attempts + 1
      /\ done.driver.state = "Restarting" => PidObservation = "Gone" /\ startError = "none"
  <2> DEFINE failed == startError # "none"
  <2>1. failed \in BOOLEAN /\ (~failed => startError = "none")
    OBVIOUS
  <2>2. done = Tick(heard, PidObservation, failed)
    OBVIOUS
  <2> HIDE DEF failed, done
  <2> QED  BY <1>3, <2>1, <2>2, TickFacts, RoleFacts
<1> HIDE DEF done
<1> DEFINE spawns == done.spawns /\ spawnFails = 0
<1>5. ~(RetryTaken /\ spawns)
  BY <1>2, <1>3, <1>4
<1>6. faults' \in 0 .. MaxFaults
  <2>1. ipcLost + healthLost + spawnFails + saveFails \in Nat
    BY <1>1
  <2> QED  BY <1>1, <2>1, FaultyFacts DEF IndInv
<1>7. /\ DOMAIN driver' = Roles /\ driver'["service"] = done.driver
      /\ driver'["watcher"] = driver["watcher"]
  BY <1>1, RoleFacts DEF IndInv, Typed, TypeOK
<1>8. Typed'
  <2>1. launched' \in SUBSET Roles /\ beating' \in SUBSET Roles
    BY <1>1, RoleFacts DEF WatcherTick, Ensured, IndInv, Typed, TypeOK
  <2>2. record' = NoRecord \/ record' \in RecordType
    <3>1. CASE saveFails = 1
      BY <1>1, <3>1 DEF IndInv, Typed, TypeOK
    <3>2. CASE saveFails # 1
      BY <1>1, <1>4, <3>2 DEF DriverType, RecordType
    <3> QED  BY <3>1, <3>2
  <2>3. spawned' \in Nat /\ futile' \in Nat
    BY <1>1 DEF IndInv, Typed, TypeOK
  <2>4. pinged' \in BOOLEAN /\ admin' \in BOOLEAN /\ forgotten' \in BOOLEAN
    BY <1>1
  <2> QED
    BY <1>4, <1>6, <1>7, <2>1, <2>2, <2>3, <2>4 DEF WatcherTick, IndInv, Typed, TypeOK
<1>9. BudgetIsKnown'
  <2> SUFFICES ASSUME ~forgotten', spawned' > 0
               PROVE  /\ spawned' <= MaxRestarts
                      /\ record'.window /\ spawned' <= record'.attempts
                      /\ done.driver.window /\ spawned' <= done.driver.attempts
    BY <1>7 DEF BudgetIsKnown
  <2>1. ~RetryTaken /\ ~forgotten /\ (saveFails = 1 => ~spawns) /\ Alive("watcher")
    <3>1. ~(forgotten /\ ~RetryTaken) /\ ~(saveFails = 1 /\ spawns)
      BY <1>1
    <3>2. ~RetryTaken
      <4>1. ASSUME RetryTaken PROVE FALSE
        <5>1. ~spawns
          BY <1>5, <4>1
        <5>2. spawned' = 0 + 0
          BY <1>1, <4>1, <5>1
        <5> QED  BY <5>2
      <4> QED  BY <4>1
    <3>3. Alive("watcher")
      BY DEF WatcherTick, Alive
    <3> HIDE DEF spawns
    <3> QED  BY <3>1, <3>2, <3>3
  <2>2. /\ heard.window = driver["service"].window
        /\ heard.attempts = driver["service"].attempts
        /\ spawned \in Nat /\ heard.attempts \in Nat /\ done.driver.attempts \in Nat
    BY <1>2, <1>3, <1>4, <2>1, Constants DEF DriverType, IndInv, Typed, TypeOK
  <2>3. CASE spawns
    <3>1. spawned' = spawned + 1 /\ saveFails # 1
      BY <1>1, <2>1, <2>2, <2>3
    <3>2. spawned > 0 => spawned <= heard.attempts /\ heard.window
      BY <2>1, <2>2 DEF IndInv, BudgetIsKnown
    <3>3. spawned' <= done.driver.attempts /\ done.driver.attempts <= MaxRestarts
          /\ done.driver.window
      BY <1>4, <2>2, <2>3, <3>1, <3>2
    <3>4. record'.window = done.driver.window /\ record'.attempts = done.driver.attempts
      BY <1>1, <3>1
    <3> QED  BY <2>2, <3>1, <3>3, <3>4, Constants
  <2>4. CASE ~spawns
    <3>1. spawned' = spawned
      BY <1>1, <2>1, <2>2, <2>4
    <3>2. /\ spawned <= MaxRestarts /\ record.window /\ spawned <= record.attempts
          /\ heard.window /\ spawned <= heard.attempts
      BY <2>1, <2>2, <3>1 DEF IndInv, BudgetIsKnown
    <3>3. done.driver.window /\ spawned <= done.driver.attempts
      BY <1>4, <2>2, <3>2
    <3>4. \/ record' = record
          \/ record'.window = done.driver.window /\ record'.attempts = done.driver.attempts
      BY <1>1
    <3> QED  BY <3>1, <3>2, <3>3, <3>4
  <2> QED  BY <2>3, <2>4
<1>10. FailureIsKnown'
  <2>1. /\ Alive("watcher") /\ Alive("watcher")' /\ UNCHANGED <<holder, pidFile, startError>>
        /\ Alive("service")' = Alive("service")
    BY RoleFacts DEF WatcherTick, Alive
  <2>2. CASE spawns /\ startError # "none" /\ ~RetryTaken
    <3>1. driver["service"].state = "Restarting"
      BY <1>2, <1>3, <1>4, <2>2
    <3>2. futile = 0
      BY <3>1 DEF IndInv, FailureIsKnown, Typed, TypeOK
    <3> QED  BY <1>1, <1>4, <1>7, <2>1, <2>2, <3>2 DEF FailureIsKnown
  <2>3. CASE RetryTaken
    BY <1>1, <2>3 DEF FailureIsKnown
  <2>4. CASE ~RetryTaken /\ ~(spawns /\ startError # "none")
    <3>1. futile' = futile
      BY <1>1, <2>4
    <3>2. futile > 0 => done.driver.state # "Restarting"
      BY <1>4 DEF PidObservation, IndInv, FailureIsKnown
    <3> QED  BY <1>7, <2>1, <3>1, <3>2 DEF IndInv, FailureIsKnown
  <2> QED  BY <2>2, <2>3, <2>4
<1>11. UnloadedIsKnown'
  BY DEF WatcherTick, IndInv, UnloadedIsKnown, Alive
<1> QED  BY <1>8, <1>9, <1>10, <1>11 DEF IndInv

-----------------------------------------------------------------------------
(* Faults, clocks and the user.                                            *)

\* What a process held in memory is gone, and a service's failure is no longer awaited.
LEMMA CrashStep == ASSUME IndInv, NEW r \in Roles, Crash(r) PROVE IndInv'
<1>1. Faulty(1) /\ Ended(r)
  BY DEF Crash
<1>2. faults' \in 0 .. MaxFaults
  BY <1>1, FaultyFacts DEF IndInv
<1>3. Typed'
  BY <1>1, <1>2, EndedFacts DEF Crash, IndInv, Typed, TypeOK, files
<1>4. BudgetIsKnown' /\ FailureIsKnown' /\ UnloadedIsKnown'
  BY <1>1, EndedFacts, RoleFacts
     DEF Crash, IndInv, BudgetIsKnown, FailureIsKnown, UnloadedIsKnown, files
<1> QED  BY <1>3, <1>4 DEF IndInv

\* A process that hangs is as alive as before, and a late signal changes no process.
LEMMA HangOrLateStep ==
  ASSUME IndInv, NEW r \in Roles, Hang(r) \/ HeartbeatLate(r) \/ PingLate
  PROVE  IndInv'
<1>1. Faulty(1)
  BY DEF Hang, HeartbeatLate, PingLate
<1>2. faults' \in 0 .. MaxFaults
  BY <1>1, FaultyFacts DEF IndInv
<1>3. /\ holder' \in [Roles -> {"none", "boot", "up", "hung"}]
      /\ beating' \in SUBSET Roles /\ pinged' \in BOOLEAN
      /\ \A p \in Roles : Alive(p)' = Alive(p)
  BY DEF Hang, HeartbeatLate, PingLate, Alive, IndInv, Typed, TypeOK
<1>4. UNCHANGED <<launched, pidFile, driver, admin, files, requests, history>>
  BY DEF Hang, HeartbeatLate, PingLate
<1>5. Typed'
  BY <1>2, <1>3, <1>4 DEF IndInv, Typed, TypeOK, files, history
<1>6. BudgetIsKnown' /\ FailureIsKnown' /\ UnloadedIsKnown'
  BY <1>3, <1>4, RoleFacts
     DEF IndInv, BudgetIsKnown, FailureIsKnown, UnloadedIsKnown, files, history
<1> QED  BY <1>5, <1>6 DEF IndInv

\* No part of the invariant depends on how old a signal is.
LEMMA SignalsAgeStep == ASSUME IndInv, NEW r \in Roles, SignalsAge(r) PROVE IndInv'
<1>1. Typed'
  BY DEF SignalsAge, IndInv, Typed, TypeOK, files, bounds, history
<1>2. BudgetIsKnown' /\ FailureIsKnown' /\ UnloadedIsKnown'
  BY DEF SignalsAge, IndInv, BudgetIsKnown, FailureIsKnown, UnloadedIsKnown, Alive,
         files, history
<1> QED  BY <1>1, <1>2 DEF IndInv

\* Of a driver that is no longer waiting, or whose window is over, the rest stays.
LEMMA ClockFacts ==
  ASSUME NEW r \in Roles, NEW d \in DriverType(r)
  PROVE  /\ [d EXCEPT !.waiting = FALSE] \in DriverType(r)
         /\ [d EXCEPT !.waiting = FALSE].window = d.window
         /\ [d EXCEPT !.waiting = FALSE].attempts = d.attempts
         /\ [d EXCEPT !.waiting = FALSE].state = d.state
         /\ [d EXCEPT !.window = FALSE] \in DriverType(r)
         /\ [d EXCEPT !.window = FALSE].state = d.state
  BY DEF DriverType

\* The end of a backoff leaves the budget as it was.
LEMMA BackoffElapsesStep == ASSUME IndInv, NEW r \in Roles, BackoffElapses(r) PROVE IndInv'
<1>1. /\ DOMAIN driver' = Roles
      /\ \A p \in Roles : /\ driver'[p] \in DriverType(p)
                           /\ driver'[p].window = driver[p].window
                           /\ driver'[p].attempts = driver[p].attempts
                           /\ driver'[p].state = driver[p].state
  BY ClockFacts, RoleFacts DEF BackoffElapses, IndInv, Typed, TypeOK
<1>2. Typed'
  BY <1>1, RoleFacts DEF BackoffElapses, IndInv, Typed, TypeOK, files, bounds, history
<1>3. BudgetIsKnown' /\ FailureIsKnown' /\ UnloadedIsKnown'
  BY <1>1, RoleFacts
     DEF BackoffElapses, IndInv, BudgetIsKnown, FailureIsKnown, UnloadedIsKnown, Alive,
         files, history
<1> QED  BY <1>2, <1>3 DEF IndInv

\* With the window the count of the spawns ends.
LEMMA WindowElapsesStep == ASSUME IndInv, WindowElapses PROVE IndInv'
<1>1. /\ DOMAIN driver' = Roles
      /\ \A p \in Roles : driver'[p] \in DriverType(p) /\ driver'[p].state = driver[p].state
  BY ClockFacts, RoleFacts DEF WindowElapses, IndInv, Typed, TypeOK
<1>2. record' = NoRecord \/ record' \in RecordType
  <2>1. record' = [record EXCEPT !.window = FALSE]
    BY DEF WindowElapses
  <2>2. CASE record = NoRecord
    BY <2>1, <2>2 DEF NoRecord
  <2>3. CASE record \in RecordType
    BY <2>1, <2>3 DEF RecordType
  <2> QED  BY <2>2, <2>3 DEF IndInv, Typed, TypeOK
<1>3. Typed'
  BY <1>1, <1>2, RoleFacts DEF WindowElapses, IndInv, Typed, TypeOK, bounds
<1>4. BudgetIsKnown' /\ FailureIsKnown' /\ UnloadedIsKnown'
  BY <1>1, RoleFacts
     DEF WindowElapses, IndInv, BudgetIsKnown, FailureIsKnown, UnloadedIsKnown, Alive
<1> QED  BY <1>3, <1>4 DEF IndInv

\* A record that has grown old says what it said.
LEMMA RecordAgesStep == ASSUME IndInv, RecordAges PROVE IndInv'
<1>1. /\ record' \in RecordType /\ record'.window = record.window
      /\ record'.attempts = record.attempts
  <2>1. record.fresh /\ record' = [record EXCEPT !.fresh = FALSE]
    BY DEF RecordAges
  <2>2. record \in RecordType
    BY <2>1 DEF IndInv, Typed, TypeOK, NoRecord
  <2> QED  BY <2>1, <2>2 DEF RecordType
<1>2. Typed'
  BY <1>1 DEF RecordAges, IndInv, Typed, TypeOK, processes, bounds, history
<1>3. BudgetIsKnown' /\ FailureIsKnown' /\ UnloadedIsKnown'
  BY <1>1 DEF RecordAges, IndInv, BudgetIsKnown, FailureIsKnown, UnloadedIsKnown, Alive,
              processes, history
<1> QED  BY <1>2, <1>3 DEF IndInv

\* A request is the next of a session.
LEMMA AsksFacts ==
  ASSUME Typed, NEW what \in Requests, Asks(what)
  PROVE  requests' \in Seq(Requests)
  BY AppendProperties DEF Asks, Typed, TypeOK

\* What the user may ask for beside the session's requests.
LEMMA UserStep ==
  ASSUME IndInv,
         Launch \/ Quit \/ Retry \/ AskReset \/ ConfirmReset \/ RetryAfterReset
           \/ Resume \/ EditConfig
  PROVE  IndInv'
<1>1. requests' \in Seq(Requests)
  BY AsksFacts
     DEF Launch, Quit, Retry, AskReset, ConfirmReset, RetryAfterReset, Resume, EditConfig,
         Requests, IndInv, Typed, TypeOK, bounds
<1>2. /\ launched' \in SUBSET Roles /\ flags' \in SUBSET {"quit", "retry", "reset"}
      /\ config' \in {"valid", "invalid"} /\ dialog' \in {"none", "asked", "flagged"}
      /\ futile' \in {0, futile} /\ loaded' \in {FALSE, loaded} /\ closed' \in BOOLEAN
      /\ UNCHANGED <<holder, pidFile, beating, pinged, driver, admin, record, startError,
                     faults, spawned, forgotten, wiped>>
  BY RoleFacts
     DEF Launch, Quit, Retry, AskReset, ConfirmReset, RetryAfterReset, Resume, EditConfig,
         AsksForRetry, Ensured, IndInv, Typed, TypeOK, processes, files, bounds, history
<1>3. config' = config \/ loaded' = FALSE
  BY DEF Launch, Quit, Retry, AskReset, ConfirmReset, RetryAfterReset, Resume, EditConfig, files
<1>4. Typed'
  <2>1. futile' \in Nat /\ loaded' \in BOOLEAN
    <3>1. futile \in Nat /\ loaded \in BOOLEAN
      BY DEF IndInv, Typed, TypeOK
    <3>2. futile' = 0 \/ futile' = futile
      BY <1>2
    <3>3. loaded' = FALSE \/ loaded' = loaded
      BY <1>2
    <3>4. futile' \in Nat
      BY <3>1, <3>2
    <3>5. loaded' \in BOOLEAN
      BY <3>1, <3>3, Zenon
    <3> QED  BY <3>4, <3>5
  <2> QED  BY <1>1, <1>2, <2>1 DEF IndInv, Typed, TypeOK
<1>5. BudgetIsKnown'
  BY <1>2 DEF IndInv, BudgetIsKnown, Alive
<1>6. FailureIsKnown'
  BY <1>2 DEF IndInv, FailureIsKnown, Alive
<1>7. UnloadedIsKnown'
  <2>1. ~wiped' /\ (Alive("service")' => startError' # "config")
    BY <1>2 DEF IndInv, UnloadedIsKnown, Alive
  <2>2. CASE loaded' = FALSE
    BY <2>1, <2>2 DEF UnloadedIsKnown
  <2>3. CASE loaded' # FALSE
    <3>1. loaded' = loaded /\ config' = config /\ startError' = startError
      BY <1>2, <1>3, <2>3
    <3> QED  BY <2>1, <3>1 DEF IndInv, UnloadedIsKnown
  <2> QED  BY <2>2, <2>3
<1> QED  BY <1>4, <1>5, <1>6, <1>7 DEF IndInv

-----------------------------------------------------------------------------
\* Every step keeps the inductive invariant.
LEMMA NextPreserves == IndInv /\ [Next]_vars => IndInv'
<1> SUFFICES ASSUME IndInv, [Next]_vars PROVE IndInv'
  OBVIOUS
<1>1. CASE UNCHANGED vars
  BY <1>1 DEF vars, processes, files, bounds, history, IndInv, Typed, TypeOK, BudgetIsKnown,
              FailureIsKnown, UnloadedIsKnown, Alive
<1>2. CASE Processes
  BY <1>2, ServiceStartsStep, ServiceYieldsStep, ServiceBootsStep, ServiceTickStep,
     WatcherStartsStep, WatcherYieldsStep, WatcherQuitsStep, WatcherTickStep DEF Processes
<1>3. CASE Environment
  <2>1. "service" \in Roles
    BY RoleFacts
  <2> QED
    BY <1>3, <2>1, CrashStep, HangOrLateStep, SignalsAgeStep, BackoffElapsesStep,
       WindowElapsesStep, RecordAgesStep, UserStep DEF Environment
<1> QED  BY <1>1, <1>2, <1>3 DEF Next

\* The inductive invariant holds in every state.
LEMMA Invariance == Spec => []IndInv
  BY InitEstablishes, NextPreserves, PTL DEF Spec

(* Every variable of the two processes, their files and the record of what *)
(* has happened keeps to its type. *)
THEOREM TypeCorrect == Spec => []TypeOK
<1>1. IndInv => TypeOK
  BY DEF IndInv, Typed
<1> QED  BY <1>1, Invariance, PTL

(* However often the watcher crashes, hangs, is started again or fails to  *)
(* save its record, the spawns it knows of stay within the budget.         *)
THEOREM SpawnsWithinBudgetCorrect == Spec => []SpawnsWithinBudget
<1>1. IndInv => SpawnsWithinBudget
  BY Constants DEF IndInv, Typed, TypeOK, BudgetIsKnown, SpawnsWithinBudget
<1> QED  BY <1>1, Invariance, PTL

(* A failure no restart can mend is not retried: one spawn at most follows *)
(* it until something else has happened. *)
THEOREM StartupFailureStopsRestartsCorrect == Spec => []StartupFailureStopsRestarts
<1>1. IndInv => StartupFailureStopsRestarts
  BY DEF IndInv, FailureIsKnown, StartupFailureStopsRestarts
<1> QED  BY <1>1, Invariance, PTL

(* Whenever the user confirms the dialog and whatever has started, failed  *)
(* or been edited meanwhile, a reset spares a config a start has loaded. *)
THEOREM ResetSparesWhatLoadedCorrect == Spec => []ResetSparesWhatLoaded
<1>1. IndInv => ResetSparesWhatLoaded
  BY DEF IndInv, UnloadedIsKnown, ResetSparesWhatLoaded
<1> QED  BY <1>1, Invariance, PTL
=============================================================================
