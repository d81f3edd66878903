---------------------------- MODULE Reachability ----------------------------
(***************************************************************************)
(* The prober: is there a network at all, and which resolver of the chain  *)
(* serves as the baseline.  A marker, or an entry of the chain, answers    *)
(* when it is asked, or does not; that changes at any time, also within a  *)
(* cycle.  The pause between cycles is abstract.                           *)
(* `unheard` is history: the probes that have failed in a row.             *)
(***************************************************************************)
EXTENDS Naturals, FiniteSets

CONSTANTS
    Markers,             \* how many markers there are: MARKERS.len()
    Chain,               \* how many baseline resolvers: BASELINE_CHAIN.len()
    ConfirmCycles,       \* OFFLINE_CONFIRM_CYCLES
    SwitchThreshold,     \* SWITCH_THRESHOLD
    MarkerStates,        \* the sets of markers that answer at some time
    ChainStates          \* the sets of chain entries that answer at some time

ASSUME MarkersAssumption == Markers \in Nat \ {0}
ASSUME ChainAssumption == Chain \in Nat \ {0}
ASSUME ThresholdsAssumption ==
    ConfirmCycles \in Nat \ {0} /\ SwitchThreshold \in Nat \ {0}

VARIABLES
    markersUp, chainUp,   \* what answers now
    prober,               \* run_reachability_prober: [step, raw, fails, rotation, asked]
    reachability,         \* the verdict in force
    baseline,             \* the BaselineSelector in force: [active, failures]
    retryDue,             \* the deadline to try the primary again has passed
    unheard

reachVars == <<markersUp, chainUp, prober, reachability, baseline, retryDue, unheard>>

AllMarkers == 0 .. Markers - 1
ProberSteps == {"cycle", "rest", "publish", "ask", "record"}

\* Only "at least the threshold" is ever asked of a counter.
UpTo(limit, n) == IF n < limit THEN n ELSE limit

Primary == [active |-> 0, failures |-> 0]

-----------------------------------------------------------------------------
(* The markers. *)

\* Some markers are asked together.  The cycle ends with a verdict, unless none
\* has answered and there are `more` to ask.  MarkerRotation::take turns in
\* steady cycles only.
Steady == prober.raw = "Online"
Probe(asked, more) ==
    /\ \E heard \in {asked \cap markersUp} :
          /\ prober' = IF heard = {} /\ more THEN [prober EXCEPT !.step = "rest"]
                       ELSE [prober EXCEPT
                                !.step = "publish",
                                !.raw = IF heard = {} THEN "Offline" ELSE "Online",
                                !.rotation = IF Steady THEN (@ + 1) % Markers ELSE @]
          /\ unheard' = IF heard # {} THEN 0
                        ELSE UpTo(Markers * ConfirmCycles, unheard + Cardinality(asked))
    /\ UNCHANGED <<reachability, baseline, retryDue>>

\* probe_cycle: while the network was there last time one marker is asked, in
\* turn, and the others only if it fails; otherwise all of them are asked.
First == {prober.rotation}
ProbeFirst == prober.step = "cycle" /\ Steady /\ Probe(First, TRUE)
ProbeRest == prober.step = "rest" /\ Probe(AllMarkers \ First, FALSE)
ProbeAll == prober.step = "cycle" /\ ~Steady /\ Probe(AllMarkers, FALSE)

\* OfflineDebounce::observe: `fails` after a cycle with the verdict `raw`.
Streak_Bug(raw, fails) == IF raw = "Online" THEN fails ELSE UpTo(ConfirmCycles, fails + 1)
Streak(raw, fails) == IF raw = "Online" THEN 0 ELSE UpTo(ConfirmCycles, fails + 1)

\* The verdict is put in force; the baseline is looked at only while there is
\* a network by this cycle's own verdict.
Publish_Bug ==
    /\ prober.step = "publish"
    /\ \E fails \in {Streak(prober.raw, prober.fails)} :
          /\ prober' = [prober EXCEPT !.fails = fails,
                            !.step = IF prober.raw = "Online" THEN "ask" ELSE "cycle"]
          /\ reachability' = IF reachability = "Offline" \/ fails = ConfirmCycles
                             THEN "Offline" ELSE "Online"
    /\ UNCHANGED <<baseline, retryDue, unheard>>
Publish ==
    /\ prober.step = "publish"
    /\ \E fails \in {Streak(prober.raw, prober.fails)} :
          /\ prober' = [prober EXCEPT !.fails = fails,
                            !.step = IF prober.raw = "Online" THEN "ask" ELSE "cycle"]
          /\ reachability' = IF fails = ConfirmCycles THEN "Offline" ELSE "Online"
    /\ UNCHANGED <<baseline, retryDue, unheard>>

-----------------------------------------------------------------------------
(* The baseline. *)

ShouldRetryPrimary == baseline.active > 0 /\ retryDue

\* probe_baseline_health picks the resolver to ask and asks it.
AskBaseline ==
    /\ prober.step = "ask"
    /\ prober' = [prober EXCEPT !.step = "record",
                     !.asked = IF ShouldRetryPrimary THEN 0 ELSE baseline.active]
    /\ UNCHANGED <<reachability, baseline, retryDue, unheard>>

\* record_active_failure: [baseline, retryDue] after the entry in use has failed.
AfterFailure_Bug ==
    LET failures == UpTo(SwitchThreshold, baseline.failures + 1)
    IN  IF failures < SwitchThreshold
        THEN [baseline |-> [baseline EXCEPT !.failures = failures], retryDue |-> retryDue]
        ELSE [baseline |-> [active |-> baseline.active + 1, failures |-> 0],
              retryDue |-> FALSE]
AfterFailure ==
    LET failures == UpTo(SwitchThreshold, baseline.failures + 1)
    IN  IF failures < SwitchThreshold \/ baseline.active >= Chain - 1
        THEN [baseline |-> [baseline EXCEPT !.failures = failures], retryDue |-> retryDue]
        ELSE [baseline |-> [active |-> baseline.active + 1, failures |-> 0],
              retryDue |-> FALSE]

\* record: the answer (NoError or NXDomain), or its absence, is folded in.  The
\* prober is the only writer, so what it has read is still there.
Recorded_Bug ==
    IF prober.asked \in chainUp
    THEN [baseline |-> [baseline EXCEPT !.failures = 0], retryDue |-> retryDue]
    ELSE AfterFailure
Recorded ==
    LET answered == prober.asked \in chainUp
        primaryProbe == baseline.active > 0 /\ prober.asked = 0
    IN  CASE primaryProbe /\ answered -> [baseline |-> Primary, retryDue |-> FALSE]
          [] primaryProbe /\ ~answered -> [baseline |-> baseline, retryDue |-> FALSE]
          [] ~primaryProbe /\ answered ->
                [baseline |-> [baseline EXCEPT !.failures = 0], retryDue |-> retryDue]
          [] OTHER -> AfterFailure
RecordHealth ==
    /\ prober.step = "record"
    /\ prober' = [prober EXCEPT !.step = "cycle", !.asked = 0]
    /\ \E after \in {Recorded} :
          baseline' = after.baseline /\ retryDue' = after.retryDue
    /\ UNCHANGED <<reachability, unheard>>

-----------------------------------------------------------------------------
\* RETRY_PRIMARY_AFTER runs out.
RetryPrimaryAfter ==
    /\ baseline.active > 0 /\ ~retryDue
    /\ retryDue' = TRUE
    /\ UNCHANGED <<markersUp, chainUp, prober, reachability, baseline, unheard>>

NetworkChanges ==
    /\ \/ markersUp' \in MarkerStates \ {markersUp} /\ UNCHANGED chainUp
       \/ chainUp' \in ChainStates \ {chainUp} /\ UNCHANGED markersUp
    /\ UNCHANGED <<prober, reachability, baseline, retryDue, unheard>>

ProberStep ==
    /\ ProbeFirst \/ ProbeRest \/ ProbeAll \/ Publish \/ AskBaseline \/ RecordHealth
    /\ UNCHANGED <<markersUp, chainUp>>

ReachInit ==
    /\ markersUp = AllMarkers /\ chainUp = 0 .. Chain - 1
    /\ prober = [step |-> "cycle", raw |-> "None", fails |-> 0, rotation |-> 0, asked |-> 0]
    /\ reachability = "Online" /\ baseline = Primary /\ retryDue = FALSE
    /\ unheard = 0

-----------------------------------------------------------------------------
(* Queries are failed as offline only after every marker has failed in each*)
(* of ConfirmCycles cycles running, and one marker that answers withdraws  *)
(* the verdict with that same cycle. *)
OfflineIsConfirmed ==
    reachability = "Offline" /\ prober.step = "cycle" => unheard = Markers * ConfirmCycles

(* The verdict follows the network: an outage that lasts is published, and *)
(* so is its end. *)
VerdictFollowsTheNetwork ==
    /\ <>[](markersUp = {}) => <>[](reachability = "Offline")
    /\ <>[](markersUp # {}) => <>[](reachability = "Online")

(* However the entries of the chain have failed, a primary that answers    *)
(* again becomes the baseline again, and one that stays silent while the   *)
(* network is there does not remain it. *)
BaselineFollowsThePrimary ==
    /\ <>[](markersUp # {} /\ 0 \in chainUp) => <>[](baseline.active = 0)
    /\ <>[](markersUp # {} /\ 0 \notin chainUp) => <>[](baseline.active # 0)
=============================================================================
