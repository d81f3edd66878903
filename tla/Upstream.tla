------------------------------ MODULE Upstream ------------------------------
(***************************************************************************)
(* What one query sees of the upstream resolvers (timeout.rs, upstream.rs, *)
(* quorum.rs): the configured voters and the baseline, the outcome of one  *)
(* call to each, and how a single reply is classified.  A DNS message is   *)
(* kept to the two facts the decision looks at: its response code and the  *)
(* kind of address in its answer section.                                  *)
(***************************************************************************)
EXTENDS Integers

CONSTANTS
    NVoters,         \* the length of the configured `[[providers]]` list
    Signature,       \* the BlockSignature of each configured voter
    SinkholeVoters,  \* the voters whose sinkhole networks are known
    Replies          \* the messages an upstream may answer with

Voters == 1 .. NVoters

\* The slot of the baseline resolver in the fan-out, beside the voters'.
Baseline == 0
Slots == Voters \cup {Baseline}

Modes == {"FailOpen", "FailClosed", "Degraded"}
BlockSignatures == {"NullIp", "NxdomainVsBaseline", "NullIpOrNxdomain"}
Rcodes == {"NoError", "NXDomain", "ServFail"}
Addresses == {"None", "Real", "Null", "Sinkhole"}

ASSUME VotersAssumption == NVoters \in Nat \ {0}
ASSUME SignatureAssumption == Signature \in [Voters -> BlockSignatures]
ASSUME SinkholeAssumption == SinkholeVoters \subseteq Voters
ASSUME RepliesAssumption ==
    Replies \subseteq [kind : {"Responded"}, rcode : Rcodes, address : Addresses]

(***************************************************************************)
(* The outcome of one bounded call (query_with_timeout): a message, no     *)
(* answer within the configured duration, or an upstream error.            *)
(***************************************************************************)
TimedOut == [kind |-> "TimedOut", rcode |-> "None", address |-> "None"]
Errored == [kind |-> "Errored", rcode |-> "None", address |-> "None"]
Outcomes == Replies \cup {TimedOut, Errored}

Responded(outcome) == outcome.kind = "Responded"

\* A real resolution: NoError or a genuine NXDomain, never a SERVFAIL.
IsUsableAnswer(outcome) ==
    Responded(outcome) /\ outcome.rcode \in {"NoError", "NXDomain"}

HasNullIp(outcome) == outcome.address = "Null"
HasSinkholeIp(v, outcome) == outcome.address = "Sinkhole" /\ v \in SinkholeVoters
=============================================================================
