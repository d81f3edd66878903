----------------------------- MODULE OrDecision -----------------------------
(***************************************************************************)
(* What `quorum::resolve` promises (SPEC.md 3, 3.1, 3.3): an A/AAAA query  *)
(* is blocked exactly when some enabled voter's answer counts as a block.  *)
(* The decision is one step that looks at the answer EVERY upstream gives  *)
(* or fails to give; no order of arrival and no early return exist here.   *)
(***************************************************************************)
EXTENDS Upstream

VARIABLES
    applies,   \* the query asks for A or AAAA
    enabled,   \* the voters that are switched on
    mode,      \* the timeout mode
    reply,     \* what the call to each upstream yields
    verdict

vars == <<applies, enabled, mode, reply, verdict>>

\* The reply is a block on its own: a null address, for a voter that blocks so.
PlainBlock(v) ==
    /\ Responded(reply[v]) /\ HasNullIp(reply[v])
    /\ Signature[v] \in {"NullIp", "NullIpOrNxdomain"}

\* The reply is a block only if the name exists: NXDOMAIN or a sinkhole page.
DisputedReply(v) ==
    /\ Responded(reply[v])
    /\ ~PlainBlock(v)
    /\ \/ HasSinkholeIp(v, reply[v])
       \/ /\ reply[v].rcode = "NXDomain"
          /\ Signature[v] \in {"NxdomainVsBaseline", "NullIpOrNxdomain"}

\* Silence is a block under fail_closed alone.
SilenceBlocks(s) == ~Responded(reply[s]) /\ mode = "FailClosed"

NameExists == Responded(reply[Baseline]) /\ reply[Baseline].rcode = "NoError"

Blocks(v) ==
    \/ SilenceBlocks(v)
    \/ PlainBlock(v)
    \/ DisputedReply(v) /\ (NameExists \/ SilenceBlocks(Baseline))

OrVerdict ==
    CASE ~applies                  -> "NotApplicable"
      [] applies /\ \E v \in enabled : Blocks(v) -> "Block"
      [] OTHER                     -> "Allow"

Init ==
    /\ applies \in BOOLEAN
    /\ enabled \in (SUBSET Voters) \ {{}}
    /\ mode \in Modes
    /\ reply \in [Slots -> Outcomes]
    /\ verdict = "Undecided"

Decide ==
    /\ verdict = "Undecided"
    /\ verdict' = OrVerdict
    /\ UNCHANGED <<applies, enabled, mode, reply>>

Next == Decide

Spec == Init /\ [][Next]_vars /\ WF_vars(Next)
=============================================================================
