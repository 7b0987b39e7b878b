----------------------------------- MODULE Rtt ----------------------------------
(******************************************************************************)
(* unpv13e/rtt/dg_send_recv.c and unpv13e/lib/rtt.c: a request over UDP with  *)
(* sequence numbers, a retransmission timer and exponential backoff.  The     *)
(* network (datagrams may be lost, doubled, delayed and reordered), the echo  *)
(* server and the alarm clock are external.  The estimators of the round trip *)
(* are abstracted: after an answer the timeout is any value rtt_minmax can    *)
(* return; timestamps, which only feed them, are left out.                    *)
(******************************************************************************)
EXTENDS Integers

CONSTANTS
  RTT_RXTMIN, RTT_RXTMAX,   \* min and max retransmit timeout value, in seconds
  RTT_MAXNREXMT,            \* max # times to retransmit
  RtRto,                    \* the timeouts the estimators lead to
  RtCalls                   \* bound: calls of dg_send_recv

ASSUME RtAssumption ==
  /\ RTT_RXTMIN \in Nat /\ RTT_RXTMAX \in Nat /\ RTT_RXTMIN <= RTT_RXTMAX
  /\ RTT_MAXNREXMT \in Nat /\ RtCalls \in Nat /\ RtRto \subseteq Nat

VARIABLES
  rttinit,      \* the estimators are initialized
  rtt_rto, rtt_nrexmt,
  rtSeq,        \* sendhdr.seq
  rtPc,         \* "idle", "send", "recv", "got" (recvmsg has returned), "out" (timed out)
  rtAlarm,      \* the alarm is set
  rtHdr,        \* recvhdr.seq
  rtShort,      \* the last datagram was shorter than the header
  inbuff,       \* the request whose answer the caller's buffer holds, 0 at first
  rtResult,     \* what the last call returned: "none", "answer", "ETIMEDOUT"
  rtRequests, rtReplies,    \* sequence numbers of the requests and the answers on the net
  rtSends       \* transmissions of the current request

rtNet == <<rtRequests, rtReplies>>
rtVars == <<rttinit, rtt_rto, rtt_nrexmt, rtSeq, rtPc, rtAlarm, rtHdr, rtShort, inbuff, rtResult, rtNet, rtSends>>

RtInit ==
  /\ rttinit = FALSE /\ rtt_rto = 0 /\ rtt_nrexmt = 0 /\ rtSeq = 0 /\ rtPc = "idle"
  /\ rtAlarm = FALSE /\ rtHdr = 0 /\ rtShort = FALSE /\ inbuff = 0 /\ rtResult = "none"
  /\ rtRequests = {} /\ rtReplies = {} /\ rtSends = 0

Minmax(rto) == IF rto < RTT_RXTMIN THEN RTT_RXTMIN ELSE IF rto > RTT_RXTMAX THEN RTT_RXTMAX ELSE rto

RttNewpack == rtt_nrexmt' = 0

\* The start of dg_send_recv: rtt_init on the first call (first RTO at 3 seconds), and rtt_newpack.
DgSendRecv ==
  /\ rtPc = "idle" /\ rtSeq < RtCalls
  /\ rttinit' = TRUE /\ rtt_rto' = (IF rttinit THEN rtt_rto ELSE Minmax(3))
  /\ rtSeq' = rtSeq + 1 /\ RttNewpack /\ rtSends' = 0
  /\ rtPc' = "send" /\ rtResult' = "none"
  /\ UNCHANGED <<rtAlarm, rtHdr, rtShort, inbuff, rtNet>>

RtAlarmFirst == rtAlarm' = (rtSends = 0)        \* mutant: the alarm is set before the label
RtAlarm == rtAlarm' = TRUE

\* Sendagain: the request is sent and the alarm set.
SendAgain ==
  /\ rtPc = "send"
  /\ rtRequests' = rtRequests \cup {rtSeq} /\ rtSends' = rtSends + 1
  /\ RtAlarm /\ rtPc' = "recv"
  /\ UNCHANGED <<rttinit, rtt_rto, rtt_nrexmt, rtSeq, rtHdr, rtShort, inbuff, rtResult, rtReplies>>

\* Recvmsg returns an answer on the net, which stays there as its own duplicate, or a short datagram.
Recvmsg ==
  /\ rtPc = "recv"
  /\ \/ \E seq \in rtReplies : rtShort' = FALSE /\ rtHdr' = seq /\ inbuff' = seq
     \/ rtShort' = TRUE /\ UNCHANGED <<rtHdr, inbuff>>
  /\ rtPc' = "got"
  /\ UNCHANGED <<rttinit, rtt_rto, rtt_nrexmt, rtSeq, rtAlarm, rtResult, rtNet, rtSends>>

RtIsLong == ~rtShort        \* mutant: the sequence number is not compared
RtIsMine == ~rtShort /\ rtHdr = rtSeq

RtAlarmOff == rtAlarm' = FALSE

\* The condition of the loop; after the right answer the alarm is stopped and rtt_stop computes the timeout.
CheckAnswer ==
  /\ rtPc = "got"
  /\ \/ /\ RtIsMine
        /\ RtAlarmOff /\ rtPc' = "idle" /\ rtResult' = "answer"
        /\ \E rto \in RtRto : rtt_rto' = Minmax(rto)
     \/ /\ ~RtIsMine
        /\ rtPc' = "recv" /\ UNCHANGED <<rtAlarm, rtResult, rtt_rto>>
  /\ UNCHANGED <<rttinit, rtt_nrexmt, rtSeq, rtHdr, rtShort, inbuff, rtNet, rtSends>>

\* The alarm goes off while recvmsg blocks, or after it has returned: sig_alrm jumps out.
SigAlrm ==
  /\ rtAlarm /\ rtPc \in {"recv", "got"}
  /\ rtAlarm' = FALSE /\ rtPc' = "out"
  /\ UNCHANGED <<rttinit, rtt_rto, rtt_nrexmt, rtSeq, rtHdr, rtShort, inbuff, rtResult, rtNet, rtSends>>

RtGivesUp == rtt_nrexmt + 1 > RTT_MAXNREXMT

\* rtt_timeout: another try with twice the timeout, or the end.
RttTimeout ==
  /\ rtPc = "out"
  /\ rtt_rto' = 2 * rtt_rto /\ rtt_nrexmt' = rtt_nrexmt + 1
  /\ IF RtGivesUp
     THEN rttinit' = FALSE /\ rtPc' = "idle" /\ rtResult' = "ETIMEDOUT"
     ELSE rtPc' = "send" /\ UNCHANGED <<rttinit, rtResult>>
  /\ UNCHANGED <<rtSeq, rtAlarm, rtHdr, rtShort, inbuff, rtNet, rtSends>>

\* External: the server answers a request it gets, maybe again.
ServerAnswers ==
  /\ \E seq \in rtRequests : rtReplies' = rtReplies \cup {seq}
  /\ UNCHANGED <<rttinit, rtt_rto, rtt_nrexmt, rtSeq, rtPc, rtAlarm, rtHdr, rtShort, inbuff, rtResult, rtRequests, rtSends>>

RtClient == SendAgain \/ CheckAnswer \/ RttTimeout

RtNext == DgSendRecv \/ RtClient \/ Recvmsg \/ SigAlrm \/ ServerAnswers

RtSpec == RtInit /\ [][RtNext]_rtVars

\* The client runs, and an alarm that is set goes off; the net may lose everything.
RtFairness == WF_rtVars(RtClient) /\ WF_rtVars(SigAlrm)

--------------------------------------------------------------------------------
(* Properties                                                                 *)

\* Each variable has its type.
RtTypeOK ==
  /\ rttinit \in BOOLEAN /\ rtt_rto \in Nat /\ rtt_nrexmt \in 0 .. RTT_MAXNREXMT + 1
  /\ rtSeq \in 0 .. RtCalls /\ rtPc \in {"idle", "send", "recv", "got", "out"} /\ rtAlarm \in BOOLEAN
  /\ rtHdr \in 0 .. RtCalls /\ rtShort \in BOOLEAN
  /\ inbuff \in 0 .. RtCalls /\ rtResult \in {"none", "answer", "ETIMEDOUT"}
  /\ rtRequests \subseteq 1 .. RtCalls /\ rtReplies \subseteq 1 .. RtCalls

\* A call that returns an answer returns the answer to its own request, whatever late and doubled
\* answers to earlier or given-up requests arrive meanwhile.
RtOwnAnswer == rtResult = "answer" => inbuff = rtSeq

\* A request is sent at most once and RTT_MAXNREXMT times again, and a call gives up only then.
RtSendsBounded ==
  /\ rtSends <= RTT_MAXNREXMT + 1
  /\ rtResult = "ETIMEDOUT" => rtSends = RTT_MAXNREXMT + 1

\* No alarm is left set when the function has returned: it would jump into a stack frame that is gone.
RtAlarmStopped == rtPc = "idle" => ~rtAlarm

\* Every call returns, though the net may lose everything and old answers keep coming.
RtReturns == \A n \in 1 .. RtCalls : rtSeq = n /\ rtPc # "idle" ~> rtSeq = n /\ rtPc = "idle"

\* What dg_send_recv promises of each call: its own answer or a bounded number of sends, and no
\* alarm left behind.
RtSafe == RtTypeOK /\ RtOwnAnswer /\ RtSendsBounded /\ RtAlarmStopped
================================================================================
