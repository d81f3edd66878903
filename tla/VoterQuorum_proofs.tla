---------------------------- MODULE VoterQuorum_proofs ----------------------------
(***************************************************************************)
(* For any number of voters, any signatures and any replies: the fan-out   *)
(* of VoterQuorum is well typed, implements the OR-decision of OrDecision, *)
(* and its outcome record justifies the verdict it carries.                *)
(***************************************************************************)
EXTENDS VoterQuorum, WellFoundedInduction, TLAPS

\* The vocabulary the two modules share through Upstream.
USE DEF Responded, Baseline, Abstract!Responded, Abstract!Baseline

\* The slot of the baseline is none of the voters', and no slot is NoSlot.
LEMMA SlotFacts == /\ Baseline \notin Voters /\ Baseline \in Slots
                   /\ Voters \subseteq Slots /\ NoSlot \notin Slots
BY VotersAssumption DEF Slots, Voters, Baseline, NoSlot

\* An outcome has one of three kinds, and an answer has a response code.
LEMMA OutcomeFacts ==
    ASSUME NEW o \in Outcomes
    PROVE  /\ o.kind \in {"Responded", "TimedOut", "Errored"}
           /\ Responded(o) => o.rcode \in Rcodes /\ o.address \in Addresses
           /\ ~Responded(o) => o \in {TimedOut, Errored}
           /\ ~Responded(o) => o.kind \in {"TimedOut", "Errored"}
           /\ ~Responded(o) => ~IsUsableAnswer(o)
BY RepliesAssumption
   DEF Outcomes, TimedOut, Errored, Responded, IsUsableAnswer

\* `evaluate` classifies a message as the declarative rule does.
LEMMA EvaluateFacts ==
    ASSUME TypeOK, NEW v \in Voters, Responded(reply[v])
    PROVE  /\ Evaluate(v, reply[v]) = "Blocked" <=> Abstract!PlainBlock(v)
           /\ Evaluate(v, reply[v]) = "NeedsBaseline" <=> Abstract!DisputedReply(v)
           /\ Evaluate(v, reply[v]) \in {"Blocked", "NeedsBaseline", "NotBlocked"}
<1>1. Signature[v] \in BlockSignatures
  BY SignatureAssumption
<1>2. reply[v] \in Outcomes
  BY SlotFacts DEF TypeOK
<1> QED
  BY <1>1, <1>2, OutcomeFacts
     DEF Evaluate, SelfSufficient, Ambiguous, HasNullIp, HasSinkholeIp,
         BlockSignatures, Rcodes, Addresses,
         Abstract!PlainBlock, Abstract!DisputedReply,
         Abstract!HasNullIp, Abstract!HasSinkholeIp

\* A voter known to block, however few slots have settled, is a block.
LEMMA KnownBlockIsABlock ==
    ASSUME TypeOK, NEW v \in Voters, NEW seen, KnownSignal(v, seen) = "Blocked"
    PROVE  Abstract!Blocks(v)
<1>1. CASE ~Responded(reply[v])
  BY <1>1 DEF KnownSignal, UnresponsiveSignal, Abstract!Blocks, Abstract!SilenceBlocks
<1>2. CASE Responded(reply[v])
  BY <1>2, EvaluateFacts
     DEF KnownSignal, ResolveNeedsBaseline, UnresponsiveSignal, Abstract!Blocks,
         Abstract!NameExists, Abstract!SilenceBlocks
<1> QED BY <1>1, <1>2

\* With every slot settled, each block is known.
LEMMA EveryBlockIsKnown ==
    ASSUME TypeOK, NEW v \in enabled, Abstract!Blocks(v)
    PROVE  KnownSignal(v, Asked) = "Blocked"
<1>1. v \in Asked /\ Baseline \in Asked /\ v \in Voters
  BY DEF TypeOK, Asked
<1>2. CASE ~Responded(reply[v])
  BY <1>1, <1>2 DEF KnownSignal, UnresponsiveSignal, Abstract!Blocks,
                    Abstract!SilenceBlocks, Abstract!PlainBlock, Abstract!DisputedReply
<1>3. CASE Responded(reply[v])
  <2>1. Abstract!PlainBlock(v) \/ Abstract!DisputedReply(v)
    BY <1>3 DEF Abstract!Blocks, Abstract!SilenceBlocks
  <2> QED
    BY <1>1, <1>3, <2>1, EvaluateFacts
       DEF KnownSignal, ResolveNeedsBaseline, UnresponsiveSignal, Abstract!Blocks,
           Abstract!NameExists, Abstract!SilenceBlocks, Abstract!PlainBlock,
           Abstract!DisputedReply
<1> QED BY <1>2, <1>3

\* Every voter's record is one of the log's verdicts.
LEMMA RecordType ==
    ASSUME NEW v \in Voters, NEW seen
    PROVE  VoterRecord(v, seen) \in VoterVerdicts
BY DEF VoterRecord, VoterVerdicts

\* The candidate that comes first in the configured order exists.
LEMMA LeastCandidate ==
    ASSUME Candidates # {}, Candidates \subseteq Voters
    PROVE  (CHOOSE v \in Candidates : \A w \in Candidates : v <= w) \in Candidates
<1>1. Candidates \subseteq Nat
  BY VotersAssumption DEF Voters
<1> DEFINE less == OpToRel(<, Nat)
<1>2. \E m \in Candidates : \A w \in Candidates : ~(<<w, m>> \in less)
  <2>1. IsWellFoundedOn(less, Nat)
    BY NatLessThanWellFounded
  <2> HIDE DEF less
  <2> QED BY <1>1, <2>1, WFMin
<1>3. \A i, j \in Nat : i < j => <<i, j>> \in less
  BY DEF OpToRel
<1> HIDE DEF less
<1>4. PICK m \in Candidates : \A w \in Candidates : ~(<<w, m>> \in less)
  BY <1>2
<1>5. ASSUME NEW w \in Candidates
      PROVE  m <= w
  <2>1. m \in Nat /\ w \in Nat
    BY <1>1
  <2>2. ~(w < m)
    BY <2>1, <1>3, <1>4
  <2> QED BY <2>1, <2>2
<1> QED BY <1>5

-----------------------------------------------------------------------------
(***************************************************************************)
(* The verdict and its record do have their types in every state: the      *)
(* answer is a slot, the voter column has one verdict per configured voter *)
(* (quorum::resolve and finalize_outcome).                                 *)
(***************************************************************************)
THEOREM TypeCorrect == Spec => []TypeOK
<1>1. Init => TypeOK
  BY DEF Init, TypeOK
<1>2. TypeOK /\ [Next]_vars => TypeOK'
  <2> SUFFICES ASSUME TypeOK, [Next]_vars
               PROVE  TypeOK'
    OBVIOUS
  <2>1. CASE NotApplicable
    BY <2>1 DEF NotApplicable, TypeOK, Asked
  <2>2. ASSUME NEW s \in Slots, Settle(s)
        PROVE  /\ arrived' \in SUBSET Asked' /\ Asked' = Asked
               /\ UNCHANGED <<applies, enabled, mode, reply>>
    BY <2>2 DEF Settle, TypeOK, Asked
  <2>3. ASSUME NEW seen, NEW verdict \in {"Allow", "Block"},
               NEW answer \in Slots \cup {NoSlot}
        PROVE  Outcome(verdict, answer, seen) \in OutcomeType
    <3>1. [v \in Voters |-> VoterRecord(v, seen)] \in [Voters -> VoterVerdicts]
      BY RecordType
    <3>2. AllEnabledVotersUnreachable(seen) \in BOOLEAN /\ BaselineUsable(seen) \in BOOLEAN
      BY DEF AllEnabledVotersUnreachable, BaselineUsable
    <3> QED BY <3>1, <3>2 DEF Outcome, OutcomeType
  <2>4. CASE \E s \in Slots : SettleBlock(s)
    <3>1. PICK s \in Slots : SettleBlock(s)
      BY <2>4
    <3>2. EarlyOutcome(arrived') = Outcome("Block", NoSlot, arrived')
      BY DEF EarlyOutcome
    <3> QED BY <3>1, <3>2, <2>2, <2>3 DEF SettleBlock, TypeOK
  <2>5. CASE \E s \in Slots : SettleLast(s)
    <3>1. PICK s \in Slots : SettleLast(s)
      BY <2>5
    <3>2. PICK verdict \in {"Allow", "Block"}, answer \in Slots \cup {NoSlot} :
              FinalOutcome(arrived') = Outcome(verdict, answer, arrived')
      <4>1. Candidates \subseteq Voters
        BY DEF Candidates, TypeOK
      <4>2. RepresentativeAllowAnswer(arrived') \in Slots \cup {NoSlot}
        BY <4>1, SlotFacts, LeastCandidate DEF RepresentativeAllowAnswer
      <4>3. Combine(arrived') \in {"Allow", "Block"}
        BY DEF Combine
      <4> QED BY <4>2, <4>3 DEF FinalOutcome
    <3>3. result' = FinalOutcome(arrived')
      BY <3>1 DEF SettleLast
    <3>4. result' \in OutcomeType
      BY <3>2, <3>3, <2>3
    <3> QED BY <3>1, <3>4, <2>2 DEF SettleLast, TypeOK
  <2>6. CASE \E s \in Slots : SettleMore(s)
    BY <2>6, <2>2 DEF SettleMore, TypeOK
  <2>7. CASE UNCHANGED vars
    BY <2>7 DEF vars, TypeOK, Asked
  <2> QED BY <2>1, <2>4, <2>5, <2>6, <2>7 DEF Next
<1> QED BY <1>1, <1>2, PTL DEF Spec

-----------------------------------------------------------------------------
(***************************************************************************)
(* Whatever the order in which the calls settle, and whichever of them the *)
(* early return drops, `resolve` gives the verdict of the OR-decision over *)
(* everything the upstreams answer.                                        *)
(***************************************************************************)
THEOREM Refinement == Spec => ImplementsOrDecision
<1>1. Init => Abstract!Init
  BY DEF Init, Pending, Abstract!Init, Abstract!Voters, Abstract!Modes,
         Abstract!Slots, Abstract!Outcomes, Abstract!TimedOut, Abstract!Errored,
         Voters, Modes, Slots, Outcomes, TimedOut, Errored
<1>2. TypeOK /\ [Next]_vars => [Abstract!Next]_(Abstract!vars)
  <2> SUFFICES ASSUME TypeOK, Next
               PROVE  Abstract!Next
                      \/ UNCHANGED <<applies, enabled, mode, reply, result>>
    BY DEF Abstract!vars, vars
  <2> USE DEF Abstract!Next, Abstract!Decide, Abstract!OrVerdict
  <2>1. CASE NotApplicable
    BY <2>1 DEF NotApplicable, Pending
  <2>2. CASE \E s \in Slots : SettleBlock(s)
    <3>1. PICK s \in Slots : SettleBlock(s)
      BY <2>2
    <3>2. \E v \in enabled : Abstract!Blocks(v)
      <4>1. PICK v \in enabled : KnownSignal(v, arrived') = "Blocked"'
        BY <3>1 DEF SettleBlock, BlockKnown
      <4>2. KnownSignal(v, arrived') = "Blocked" /\ v \in Voters
        BY <4>1 DEF TypeOK
      <4> QED BY <4>2, KnownBlockIsABlock
    <3>3. applies /\ result = Pending /\ UNCHANGED <<applies, enabled, mode, reply>>
      BY <3>1 DEF SettleBlock, Settle
    <3>4. result'.verdict = "Block"
      BY <3>1 DEF SettleBlock, EarlyOutcome, Outcome
    <3> QED BY <3>2, <3>3, <3>4 DEF Pending
  <2>3. CASE \E s \in Slots : SettleLast(s)
    <3>1. PICK s \in Slots : SettleLast(s)
      BY <2>3
    <3>2. ~BlockKnown(Asked)
      BY <3>1 DEF SettleLast
    <3>3. ~ \E v \in enabled : Abstract!Blocks(v)
      BY <3>2, EveryBlockIsKnown DEF BlockKnown
    <3>4. applies /\ result = Pending /\ UNCHANGED <<applies, enabled, mode, reply>>
      BY <3>1 DEF SettleLast, Settle
    <3>5. result'.verdict = "Allow"
      BY <3>1, <3>2 DEF SettleLast, FinalOutcome, Combine, Outcome
    <3> QED BY <3>3, <3>4, <3>5 DEF Pending
  <2>4. CASE \E s \in Slots : SettleMore(s)
    BY <2>4 DEF SettleMore, Settle
  <2> QED BY <2>1, <2>2, <2>3, <2>4 DEF Next
<1> QED BY <1>1, <1>2, TypeCorrect, PTL DEF Spec, ImplementsOrDecision

(***************************************************************************)
(* A round in which no filter answered always raises filters_unreachable,  *)
(* in every mode: the pipeline never caches it nor logs it as a quorum's.  *)
(***************************************************************************)
THEOREM UnreachableNeverMissed == Spec => []UnreachableIsNeverMissed
<1>1. Init => UnreachableIsNeverMissed
  BY DEF Init, UnreachableIsNeverMissed, Answered, Pending
<1>2. TypeOK /\ UnreachableIsNeverMissed /\ [Next]_vars => UnreachableIsNeverMissed'
  <2> SUFFICES ASSUME TypeOK, UnreachableIsNeverMissed, [Next]_vars,
                      Answered', \A v \in enabled' : ~Responded(reply'[v])
               PROVE  result'.filters_unreachable
    BY DEF UnreachableIsNeverMissed
  <2>1. CASE NotApplicable
    BY <2>1 DEF NotApplicable, Answered, Pending
  <2>2. ASSUME NEW s \in Slots, SettleBlock(s) \/ SettleLast(s)
        PROVE  result'.filters_unreachable
    <3>1. result'.filters_unreachable = AllEnabledVotersUnreachable(arrived')
      BY <2>2 DEF SettleBlock, SettleLast, EarlyOutcome, FinalOutcome, Outcome
    <3>2. enabled # {} /\ \A v \in enabled : ~Responded(reply[v])
      BY <2>2 DEF SettleBlock, SettleLast, Settle, TypeOK
    <3> QED BY <3>1, <3>2 DEF AllEnabledVotersUnreachable
  <2>3. CASE \E s \in Slots : SettleMore(s)
    BY <2>3 DEF SettleMore, Settle, UnreachableIsNeverMissed, Answered
  <2>4. CASE UNCHANGED vars
    BY <2>4 DEF vars, UnreachableIsNeverMissed, Answered
  <2> QED BY <2>1, <2>2, <2>3, <2>4 DEF Next
<1> QED BY <1>1, <1>2, TypeCorrect, PTL DEF Spec

(***************************************************************************)
(* With the baseline down, the answer handed on with an ALLOW is never one *)
(* a filter disputes: no unconfirmed NXDOMAIN, no sinkhole address.        *)
(***************************************************************************)
THEOREM ServedReplyUndisputed == Spec => []ServedReplyIsUndisputed
<1>1. Init => ServedReplyIsUndisputed
  BY DEF Init, ServedReplyIsUndisputed, Answered, Pending
<1>2. TypeOK /\ ServedReplyIsUndisputed /\ [Next]_vars => ServedReplyIsUndisputed'
  <2> SUFFICES ASSUME TypeOK, ServedReplyIsUndisputed, Next
               PROVE  \/ ServedReplyIsUndisputed'
                      \/ UNCHANGED <<enabled, reply, result>>
    BY DEF vars, ServedReplyIsUndisputed, Answered, Abstract!PlainBlock,
           Abstract!DisputedReply
  <2>1. CASE NotApplicable
    BY <2>1 DEF NotApplicable, Pending, ServedReplyIsUndisputed, Answered
  <2>2. CASE \E s \in Slots : SettleBlock(s)
    BY <2>2, SlotFacts
       DEF SettleBlock, EarlyOutcome, Outcome, ServedReplyIsUndisputed
  <2>3. ASSUME NEW s \in Slots, SettleLast(s), result'.answer \in Voters
        PROVE  /\ result'.answer \in enabled
               /\ ~Abstract!PlainBlock(result'.answer)
               /\ ~Abstract!DisputedReply(result'.answer)
    <3>1. result'.answer = RepresentativeAllowAnswer(arrived')
      BY <2>3, SlotFacts DEF SettleLast, FinalOutcome, Outcome
    <3>2. Candidates \subseteq Voters
      BY DEF Candidates, TypeOK
    <3>3. result'.answer \in Candidates
      BY <2>3, <3>1, <3>2, SlotFacts, LeastCandidate DEF RepresentativeAllowAnswer
    <3> QED BY <3>3, <3>2, EvaluateFacts DEF Candidates, IsUsableAnswer
  <2>4. CASE \E s \in Slots : SettleLast(s)
    <3>1. PICK s \in Slots : SettleLast(s)
      BY <2>4
    <3>2. UNCHANGED <<enabled, reply>>
      BY <3>1 DEF SettleLast, Settle
    <3> QED BY <2>3, <3>1, <3>2
            DEF ServedReplyIsUndisputed, Abstract!PlainBlock, Abstract!DisputedReply
  <2>5. CASE \E s \in Slots : SettleMore(s)
    BY <2>5 DEF SettleMore, Settle
  <2> QED BY <2>1, <2>2, <2>4, <2>5 DEF Next
<1> QED BY <1>1, <1>2, TypeCorrect, PTL DEF Spec

(***************************************************************************)
(* The voter column of the log justifies the verdict beside it.            *)
(***************************************************************************)
THEOREM RecordsJustify == Spec => []RecordsJustifyTheVerdict
<1>1. Init => RecordsJustifyTheVerdict
  BY DEF Init, RecordsJustifyTheVerdict, Answered, Pending
<1>2. TypeOK /\ RecordsJustifyTheVerdict /\ [Next]_vars => RecordsJustifyTheVerdict'
  <2> DEFINE Row(v, seen) == VoterRecord(v, seen)
             Shown(v, seen) == \/ Row(v, seen) = "Block" /\ Abstract!Blocks(v)
                               \/ Row(v, seen) \in {"Timeout", "Error"} /\ mode = "FailClosed"
  <2> SUFFICES ASSUME TypeOK, RecordsJustifyTheVerdict, Next
               PROVE  \/ RecordsJustifyTheVerdict'
                      \/ UNCHANGED <<enabled, mode, reply, result>>
    BY DEF vars, RecordsJustifyTheVerdict, Answered, Abstract!Blocks,
           Abstract!SilenceBlocks, Abstract!NameExists, Abstract!PlainBlock,
           Abstract!DisputedReply
  <2>1. ASSUME NEW v \in Voters, NEW seen
        PROVE  Row(v, seen) = "Disabled" <=> v \notin enabled
    BY DEF VoterRecord
  <2>2. ASSUME NEW v \in enabled, NEW seen, KnownSignal(v, seen) = "Blocked"
        PROVE  Shown(v, seen)
    <3>1. v \in Voters /\ v \in seen /\ reply[v] \in Outcomes
      BY <2>2, SlotFacts DEF TypeOK, KnownSignal
    <3>2. CASE Responded(reply[v])
      BY <2>2, <3>1, <3>2, KnownBlockIsABlock DEF VoterRecord
    <3>3. CASE ~Responded(reply[v])
      BY <2>2, <3>1, <3>3, OutcomeFacts DEF VoterRecord, KnownSignal, UnresponsiveSignal
    <3> QED BY <3>2, <3>3
  <2>3. ASSUME NEW v \in enabled, KnownSignal(v, Asked) # "Blocked"
        PROVE  Row(v, Asked) \notin {"Block", "Canceled"}
    <3>1. v \in Voters /\ v \in Asked /\ Baseline \in Asked /\ reply[v] \in Outcomes
      BY SlotFacts DEF TypeOK, Asked
    <3>2. CASE ~Responded(reply[v])
      BY <3>1, <3>2, OutcomeFacts DEF VoterRecord
    <3>3. CASE Responded(reply[v])
      <4>1. KnownSignal(v, Asked) = "NotBlocked"
        BY <2>3, <3>1, <3>3, EvaluateFacts
           DEF KnownSignal, ResolveNeedsBaseline, UnresponsiveSignal
      <4> QED BY <3>1, <3>3, <4>1 DEF VoterRecord
    <3> QED BY <3>2, <3>3
  <2>4. CASE NotApplicable
    BY <2>4 DEF NotApplicable, Pending, RecordsJustifyTheVerdict, Answered
  <2>5. ASSUME NEW v \in Voters
        PROVE  UNCHANGED <<mode, reply>> =>
                  Abstract!Blocks(v)' = Abstract!Blocks(v)
    BY DEF Abstract!Blocks, Abstract!SilenceBlocks, Abstract!NameExists,
           Abstract!PlainBlock, Abstract!DisputedReply
  <2> HIDE DEF Row
  <2>6. CASE \E s \in Slots : SettleBlock(s)
    <3>1. PICK s \in Slots : SettleBlock(s)
      BY <2>6
    <3>2. /\ UNCHANGED <<enabled, mode, reply>>
          /\ result'.verdict = "Block"
          /\ \A v \in Voters : result'.voters[v] = Row(v, arrived')
      BY <3>1 DEF SettleBlock, Settle, EarlyOutcome, Outcome, Row
    <3>3. PICK v \in enabled : KnownSignal(v, arrived') = "Blocked"
      BY <3>1, <3>2 DEF SettleBlock, BlockKnown
    <3>4. v \in Voters /\ Shown(v, arrived')
      BY <2>2, <3>3 DEF TypeOK
    <3> QED BY <2>1, <2>5, <3>2, <3>4 DEF RecordsJustifyTheVerdict
  <2>7. CASE \E s \in Slots : SettleLast(s)
    <3>1. PICK s \in Slots : SettleLast(s)
      BY <2>7
    <3>2. /\ UNCHANGED <<enabled, mode, reply>>
          /\ result'.verdict = "Allow"
          /\ \A v \in Voters : result'.voters[v] = Row(v, Asked)
          /\ \A v \in enabled : KnownSignal(v, Asked) # "Blocked"
      BY <3>1 DEF SettleLast, Settle, FinalOutcome, Combine, BlockKnown, Outcome, Row
    <3>3. \A v \in enabled : v \in Voters /\ Row(v, Asked) \notin {"Block", "Canceled"}
      BY <2>3, <3>2 DEF TypeOK
    <3> QED BY <2>1, <3>2, <3>3 DEF RecordsJustifyTheVerdict
  <2>8. CASE \E s \in Slots : SettleMore(s)
    BY <2>8 DEF SettleMore, Settle
  <2> QED BY <2>4, <2>6, <2>7, <2>8 DEF Next
<1> QED BY <1>1, <1>2, TypeCorrect, PTL DEF Spec
=============================================================================
