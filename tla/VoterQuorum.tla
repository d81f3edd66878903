------------------------------- MODULE VoterQuorum -------------------------------
(***************************************************************************)
(* One fan-out of `quorum::resolve`: a call to every enabled voter and to  *)
(* the baseline, settling in any order; after each one the loop looks for  *)
(* a block it can already be sure of, and returns at once when there is    *)
(* one, dropping the calls still pending.                                  *)
(*                                                                         *)
(* `reply` is what each upstream call yields (the environment, fixed when  *)
(* the fan-out starts and read for settled slots only), `arrived` the      *)
(* slots whose call has settled, `result` the returned QuorumOutcome.      *)
(*                                                                         *)
(* A definition named X_Bug is X as a plausible mistake would have it; it  *)
(* is used by nothing here, and shows which property notices.              *)
(***************************************************************************)
EXTENDS Upstream

VARIABLES applies, enabled, mode, reply, arrived, result

vars == <<applies, enabled, mode, reply, arrived, result>>

Verdicts == {"Allow", "Block", "NotApplicable"}
VoterVerdicts == {"Block", "Allow", "Timeout", "Error", "Canceled", "Disabled"}

NoSlot == -1

\* No outcome yet: `resolve` has not returned.
Pending == [verdict |-> "Undecided", answer |-> NoSlot, voters |-> <<>>,
            filters_unreachable |-> FALSE, baseline_answer |-> FALSE]

\* The slots a call is pushed for: never a disabled voter's, always baseline's.
Asked == enabled \cup {Baseline}

-----------------------------------------------------------------------------
(* Classifying one voter, with the slots in `seen` settled.                *)

\* A block on its own (a null address), or only if the name really exists.
SelfSufficient(v, outcome) ==
    HasNullIp(outcome) /\ Signature[v] # "NxdomainVsBaseline"
Ambiguous(v, outcome) ==
    LET bareNxdomain == outcome.rcode = "NXDomain" /\ Signature[v] # "NullIp" IN
    IF HasNullIp(outcome) THEN ~SelfSufficient(v, outcome) /\ bareNxdomain
                          ELSE HasSinkholeIp(v, outcome) \/ bareNxdomain

Evaluate(v, outcome) ==
    CASE SelfSufficient(v, outcome) -> "Blocked"
      [] Ambiguous(v, outcome)      -> "NeedsBaseline"
      [] OTHER                      -> "NotBlocked"

UnresponsiveSignal_Bug == IF mode # "FailOpen" THEN "Blocked" ELSE "NotBlocked"
UnresponsiveSignal == IF mode = "FailClosed" THEN "Blocked" ELSE "NotBlocked"

ResolveNeedsBaseline_Bug ==
    CASE ~Responded(reply[Baseline]) -> UnresponsiveSignal
      [] Responded(reply[Baseline]) /\ reply[Baseline].rcode # "NXDomain" -> "Blocked"
      [] OTHER -> "NotBlocked"
ResolveNeedsBaseline ==
    CASE ~Responded(reply[Baseline]) -> UnresponsiveSignal
      [] Responded(reply[Baseline]) /\ reply[Baseline].rcode = "NoError" -> "Blocked"
      [] OTHER -> "NotBlocked"

\* "Unknown" while the voter, or the baseline it needs, has not settled.
KnownSignal(v, seen) ==
    IF v \notin seen THEN "Unknown"
    ELSE IF ~Responded(reply[v]) THEN UnresponsiveSignal
    ELSE IF Evaluate(v, reply[v]) # "NeedsBaseline" THEN Evaluate(v, reply[v])
    ELSE IF Baseline \in seen THEN ResolveNeedsBaseline
    ELSE "Unknown"

BlockKnown(seen) == \E v \in enabled : KnownSignal(v, seen) = "Blocked"

VoterRecord(v, seen) ==
    CASE v \notin enabled -> "Disabled"
      [] v \in enabled /\ v \notin seen -> "Canceled"
      [] v \in enabled \cap seen /\ reply[v].kind = "TimedOut" -> "Timeout"
      [] v \in enabled \cap seen /\ reply[v].kind = "Errored" -> "Error"
      [] OTHER -> CASE KnownSignal(v, seen) = "Blocked" -> "Block"
                    [] KnownSignal(v, seen) = "NotBlocked" -> "Allow"
                    [] OTHER -> "Canceled"

-----------------------------------------------------------------------------
(* The returned QuorumOutcome.                                             *)

Combine(seen) == IF BlockKnown(seen) THEN "Block" ELSE "Allow"

AllEnabledVotersUnreachable_Bug(seen) ==
    /\ enabled # {}
    /\ \A v \in enabled : v \in seen /\ ~Responded(reply[v])
AllEnabledVotersUnreachable(seen) ==
    /\ enabled # {}
    /\ \A v \in enabled : ~(v \in seen /\ Responded(reply[v]))

BaselineUsable(seen) == Baseline \in seen /\ IsUsableAnswer(reply[Baseline])

Candidates_Bug ==
    {v \in enabled : IsUsableAnswer(reply[v]) /\ Evaluate(v, reply[v]) # "Blocked"}

\* The voters whose reply may stand in for the baseline's.
Candidates ==
    {v \in enabled : IsUsableAnswer(reply[v]) /\ Evaluate(v, reply[v]) = "NotBlocked"}

RepresentativeAllowAnswer(seen) ==
    CASE BaselineUsable(seen) -> Baseline
      [] ~BaselineUsable(seen) /\ Candidates # {} ->
            CHOOSE v \in Candidates : \A w \in Candidates : v <= w
      [] OTHER -> NoSlot

Outcome(verdict, answer, seen) ==
    [verdict |-> verdict,
     answer |-> answer,
     voters |-> [v \in Voters |-> VoterRecord(v, seen)],
     filters_unreachable |-> AllEnabledVotersUnreachable(seen),
     baseline_answer |-> BaselineUsable(seen)]

EarlyOutcome(seen) == Outcome("Block", NoSlot, seen)

FinalOutcome(seen) ==
    LET verdict == Combine(seen) IN
    Outcome(verdict,
            IF verdict = "Allow" THEN RepresentativeAllowAnswer(seen) ELSE NoSlot,
            seen)

-----------------------------------------------------------------------------
Init ==
    /\ applies \in BOOLEAN
    /\ enabled \in (SUBSET Voters) \ {{}}
    /\ mode \in Modes
    /\ reply \in [Slots -> Outcomes]
    /\ arrived = {}
    /\ result = Pending

\* The query's type is not A/AAAA: nothing is asked.
NotApplicable ==
    /\ result = Pending /\ ~applies
    /\ result' = [Pending EXCEPT !.verdict = "NotApplicable"]
    /\ UNCHANGED <<applies, enabled, mode, reply, arrived>>

Settle_Bug(s) ==
    /\ result = Pending /\ applies
    /\ s \in Slots \ arrived
    /\ arrived' = arrived \cup {s}
    /\ UNCHANGED <<applies, enabled, mode, reply>>

\* futures.next() yields the outcome of slot s.
Settle(s) ==
    /\ result = Pending /\ applies
    /\ s \in Asked \ arrived
    /\ arrived' = arrived \cup {s}
    /\ UNCHANGED <<applies, enabled, mode, reply>>

\* ... and some voter is now known to block: return, dropping the rest.
SettleBlock(s) ==
    /\ Settle(s)
    /\ BlockKnown(arrived')
    /\ result' = EarlyOutcome(arrived')

SettleLast_Bug(s) ==
    /\ Settle(s)
    /\ ~BlockKnown(arrived')
    /\ arrived' = Slots
    /\ result' = FinalOutcome(arrived')

\* ... and nothing is pending any more: finalize_outcome.
SettleLast(s) ==
    /\ Settle(s)
    /\ ~BlockKnown(arrived')
    /\ arrived' = Asked
    /\ result' = FinalOutcome(arrived')

\* ... and the loop goes on.
SettleMore(s) ==
    /\ Settle(s)
    /\ ~BlockKnown(arrived')
    /\ arrived' # Asked
    /\ UNCHANGED result

Next ==
    \/ NotApplicable
    \/ \E s \in Slots : SettleBlock(s) \/ SettleLast(s) \/ SettleMore(s)

\* Every call is bounded by `tokio::time::timeout`, so one of them settles.
Fairness == WF_vars(Next)

Spec == Init /\ [][Next]_vars /\ Fairness

-----------------------------------------------------------------------------
(* Properties.                                                             *)

OutcomeType ==
    [verdict : {"Allow", "Block"}, answer : Slots \cup {NoSlot},
     voters : [Voters -> VoterVerdicts],
     filters_unreachable : BOOLEAN, baseline_answer : BOOLEAN]

TypeOK ==
    /\ applies \in BOOLEAN
    /\ enabled \in (SUBSET Voters) \ {{}}
    /\ mode \in Modes
    /\ reply \in [Slots -> Outcomes]
    /\ arrived \in SUBSET Asked
    /\ \/ result = Pending
       \/ result = [Pending EXCEPT !.verdict = "NotApplicable"]
       \/ result \in OutcomeType

(***************************************************************************)
(* The fan-out implements the OR-decision over what every upstream answers:*)
(* arriving early, late or never, in any order, and with calls dropped by  *)
(* the early return, the calls give the verdict the full set would give.   *)
(***************************************************************************)
Abstract == INSTANCE OrDecision WITH verdict <- result.verdict
ImplementsOrDecision == Abstract!Init /\ [][Abstract!Next]_(Abstract!vars)

\* `resolve` returns: no arrival order leaves the loop waiting for a verdict.
AlwaysDecides == <>(result # Pending)

Answered == result.verdict \in {"Allow", "Block"}

(***************************************************************************)
(* The log's voter column justifies the verdict: an ALLOW has classified   *)
(* every enabled voter and none as a block; a BLOCK shows a voter that     *)
(* really blocks, or a failed one under fail_closed; a switched-off voter  *)
(* is Disabled in both and never counted as silent.                        *)
(***************************************************************************)
RecordsJustifyTheVerdict ==
    Answered =>
        /\ \A v \in Voters : result.voters[v] = "Disabled" <=> v \notin enabled
        /\ result.verdict = "Allow" =>
              \A v \in enabled : result.voters[v] \notin {"Block", "Canceled"}
        /\ result.verdict = "Block" =>
              \E v \in enabled :
                 \/ result.voters[v] = "Block" /\ Abstract!Blocks(v)
                 \/ result.voters[v] \in {"Timeout", "Error"} /\ mode = "FailClosed"

(***************************************************************************)
(* The answer handed on with an ALLOW is the baseline's own, or comes from *)
(* a voter whose reply would not be a block page under ANY answer of the   *)
(* baseline: with the baseline down, a disputed NXDOMAIN or sinkhole       *)
(* address is not passed off as the real resolution.                       *)
(***************************************************************************)
ServedReplyIsUndisputed ==
    (Answered /\ result.answer \in Voters) =>
        /\ result.answer \in enabled
        /\ ~Abstract!PlainBlock(result.answer) /\ ~Abstract!DisputedReply(result.answer)

(***************************************************************************)
(* A round in which no filter answered is never passed off as a filtered   *)
(* verdict: `filters_unreachable` is raised whenever every enabled voter's *)
(* call failed, whatever the mode and however early the return.            *)
(***************************************************************************)
UnreachableIsNeverMissed ==
    (Answered /\ \A v \in enabled : ~Responded(reply[v])) => result.filters_unreachable

(***************************************************************************)
(* The converse, as quorum.rs documents it ("Every *enabled* voter failed  *)
(* to give an answer this round (timeout or error -- never `Responded`)"): *)
(* refuted, because an early return counts a call still pending as failed. *)
(***************************************************************************)
UnreachableMeansEveryVoterFailed ==
    result.filters_unreachable =>
        \A v \in enabled : reply[v].kind \in {"TimedOut", "Errored"}
=============================================================================
