------------------------------ MODULE MCVoterQuorum ------------------------------
(***************************************************************************)
(* Three voters, one per block signature, the first two with known sinkhole*)
(* networks; the replies cover every response code and every address.      *)
(***************************************************************************)
EXTENDS VoterQuorum

MCSignature == <<"NullIp", "NxdomainVsBaseline", "NullIpOrNxdomain">>
MCSinkholeVoters == {1, 2}

Message(rcode, address) == [kind |-> "Responded", rcode |-> rcode, address |-> address]

MCReplies == {Message("NoError", "Real"), Message("NoError", "Null"),
              Message("NoError", "Sinkhole"), Message("NXDomain", "None"), Message("NXDomain", "Null"),
              Message("ServFail", "None")}
=============================================================================
