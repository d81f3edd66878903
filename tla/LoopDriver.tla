----------------------------- MODULE LoopDriver -----------------------------
(***************************************************************************)
(* The decision of one direction of the watchdog: what a heartbeat loop    *)
(* does with one cycle's observations of its peer.  A driver is a value;   *)
(* Tick gives the driver after the cycle and whether it spawns the peer.   *)
(*                                                                         *)
(* Time is abstract.  `window` says whether the restart window the budget  *)
(* counts in is still open, `waiting` whether the backoff deadline is still*)
(* ahead; the clock actions of module Watchdog end both.  The length of a  *)
(* backoff (1 to 16 s) is abstracted with the attempt index that picks it. *)
(***************************************************************************)
EXTENDS Naturals, FiniteSets

CONSTANTS
    MissThreshold,  \* MISS_THRESHOLD: missed cycles before a channel is silent
    MaxRestarts     \* MAX_RESTARTS_PER_WINDOW

ASSUME MissThresholdAssumption == MissThreshold \in Nat \ {0}
ASSUME MaxRestartsAssumption == MaxRestarts \in Nat \ {0}

Roles == {"service", "watcher"}
\* The channels over which the peer `r` is observed; /health is the service's.
Channels(r) == IF r = "service" THEN {"ipc", "file", "health"} ELSE {"ipc", "file"}

States == {"Healthy", "ChannelDegraded", "SuspectDead", "VerifyingPid",
           "Restarting", "BackoffWait", "GaveUp"}
PidChecks == {"None", "Alive", "Gone"}   \* a recycled PID counts as gone

DriverType(r) ==
    [state : States, misses : [Channels(r) -> 0 .. MissThreshold],
     attempts : 0 .. MaxRestarts + 1, window : BOOLEAN, waiting : BOOLEAN]

\* LoopDriver::new for the peer `r`.
NewDriver(r) ==
    [state |-> "Healthy", misses |-> [c \in Channels(r) |-> 0],
     attempts |-> 0, window |-> FALSE, waiting |-> FALSE]

\* LoopDriver::restored: state and budget are resumed, a GaveUp record is not.
Restored_Bug(r, record) == [NewDriver(r) EXCEPT !.state = record.state]
Restored(r, record) ==
    IF record.state = "GaveUp" THEN NewDriver(r)
    ELSE [NewDriver(r) EXCEPT !.state = record.state,
                              !.attempts = record.attempts,
                              !.window = record.window]

\* One more missed cycle, or none; only `>= MissThreshold` is ever asked.
Bump_Bug(misses, heard) ==
    [c \in DOMAIN misses |-> IF heard[c] THEN 0 ELSE misses[c] + 1]
Bump(misses, heard) ==
    [c \in DOMAIN misses |->
        IF heard[c] THEN 0
        ELSE IF misses[c] < MissThreshold THEN misses[c] + 1 ELSE misses[c]]

Silent(misses) == {c \in DOMAIN misses : misses[c] >= MissThreshold}

\* Two of the service's three channels silent, or both of the watcher's.
VotedDead(misses) == Cardinality(Silent(misses)) >= 2

-----------------------------------------------------------------------------
\* RestartBudget::register_attempt: an attempt after the window opens a new one.
Registered(d) ==
    IF d.window THEN [d EXCEPT !.attempts = IF @ <= MaxRestarts THEN @ + 1 ELSE @]
    ELSE [d EXCEPT !.window = TRUE, !.attempts = 1]

\* The peer is gone: a start that cannot succeed is not tried again.
PeerGone_Bug(i) == "Restarting"
PeerGone(i) == IF i.startupFailed THEN "GaveUp" ELSE "Restarting"

\* The automaton; `i` holds the cycle's verdicts.
Transition(state, i) ==
    CASE state \in {"Healthy", "ChannelDegraded"} ->
            IF i.dead THEN "SuspectDead"
            ELSE IF i.degraded THEN "ChannelDegraded" ELSE "Healthy"
      [] state = "SuspectDead" -> "VerifyingPid"
      [] state = "VerifyingPid" ->
            IF i.pid = "Gone" THEN PeerGone(i)
            ELSE IF i.pid = "None" THEN "VerifyingPid"
            ELSE IF i.dead \/ i.degraded THEN "ChannelDegraded" ELSE "Healthy"
      [] state = "Restarting" -> IF i.allowed THEN "BackoffWait" ELSE "GaveUp"
      [] state = "BackoffWait" ->
            IF ~i.dead THEN "Healthy"
            ELSE IF i.elapsed THEN "VerifyingPid" ELSE "BackoffWait"
      [] state = "GaveUp" -> "GaveUp"

(***************************************************************************)
(* LoopDriver::tick in two parts: what was heard is counted, then judged.  *)
(* An attempt is registered in Restarting only; it is there that the peer  *)
(* is spawned and, the budget allowing, the backoff deadline armed.  A     *)
(* return to Healthy disarms it.                                           *)
(***************************************************************************)
Hear(d, heard) == [d EXCEPT !.misses = Bump(@, heard)]

Tick(d, pid, startupFailed) ==
    LET counted == IF d.state = "Restarting" THEN Registered(d) ELSE d
        allowed == counted.attempts <= MaxRestarts
        next == Transition(d.state,
                    [dead |-> VotedDead(d.misses), degraded |-> Silent(d.misses) # {},
                     pid |-> pid, startupFailed |-> startupFailed,
                     allowed |-> allowed, elapsed |-> ~d.waiting])
    IN [driver |-> [counted EXCEPT
                       !.state = next,
                       !.waiting = IF d.state = "Restarting" THEN allowed
                                   ELSE IF next = "Healthy" THEN FALSE ELSE @],
        spawns |-> d.state = "Restarting" /\ allowed]
=============================================================================
