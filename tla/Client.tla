------------------------------- MODULE Client -------------------------------
(***************************************************************************)
(* client/client.go: the PD client of one process.  tsLoop gathers the     *)
(* requests that wait and asks the leader for their timestamps in one      *)
(* message; tsCancelLoop cancels a stream that does not answer in time;    *)
(* leaderLoop looks for the leader when one of them met an error; Close    *)
(* stops all three.  The PD servers are modelled as the client sees them:  *)
(* one of them leads; each leader hands out increasing timestamps from a   *)
(* window above those of the leaders before it (LeaderTSO shows that); and *)
(* one that has lost its lease goes on in its own window until it steps    *)
(* down, for getRespTS does not ask who leads.                             *)
(***************************************************************************)
EXTENDS Integers, Sequences

CONSTANTS Member,          \* PD servers, by their URL
          TSORequest,      \* calls of GetTSAsync
          Slots,           \* timestamps of one physical part
          MaxPDFaults      \* bound: leader changes, hangs, stale answers

ASSUME ClientAssumption == Slots \in Nat \ {0} /\ MaxPDFaults \in Nat /\ Member # {}

VARIABLES pdLeader,        \* the server that leads
          hung,            \* it does not answer
          term,            \* the window each server hands out from, 0 for none
          oracle,          \* the last timestamp handed out of each window
          pdFaults,
          connLeader,      \* connMu.leader
          clientConns,     \* the connections the client has opened
          tsoRequests,     \* the channel of requests
          requests,        \* the batch of tsLoop
          tsPc,            \* where tsLoop stands
          stream,          \* its stream: [no, to], no = 0 for none
          streams,         \* number of streams so far
          cancelled,       \* the context of the stream is cancelled
          batch,           \* number of batches so far
          tsDeadlineCh,    \* the channel of deadlines, of capacity 1
          deadlinePc,      \* the deadline tsCancelLoop waits for
          checkLeaderCh,   \* a token is in the channel, of capacity 1
          closePc,         \* where Close stands
          answer,          \* of each request: what Wait returned or will
          begun            \* ghost: the oracle when the request was made

pdVars == <<pdLeader, hung, term, oracle, pdFaults>>
loopVars == <<requests, tsPc, stream, streams, cancelled, batch>>
clientVars == <<pdVars, connLeader, clientConns, tsoRequests, loopVars, tsDeadlineCh,
                deadlinePc, checkLeaderCh, closePc, answer, begun>>

Term == 1 .. MaxPDFaults + 1
NoMember == "none"
NoStream == [no |-> 0]
NoDeadline == [batch |-> 0]
Unsent == [kind |-> "unsent"]
Waiting == [kind |-> "waiting"]
Failed == [kind |-> "error"]
done == closePc \in {"waiting", "closed"}       \* ctx.Done()
inSeq(s) == {s[i] : i \in DOMAIN s}

(* NewClient returns once a member has answered with the cluster and its   *)
(* leader; the loops start.                                                *)
NewClient ==
  /\ closePc = "new" /\ ~hung
  /\ closePc' = "open" /\ tsPc' = "stream"
  /\ connLeader' = pdLeader /\ clientConns' = {pdLeader}
  /\ UNCHANGED <<pdVars, tsoRequests, requests, stream, streams, cancelled, batch,
                 tsDeadlineCh, deadlinePc, checkLeaderCh, answer, begun>>

(***************************************************************************)
(* Requests.                                                               *)
(***************************************************************************)
GetTSAsync(r) ==
  /\ answer[r] = Unsent /\ closePc = "open"
  /\ answer' = [answer EXCEPT ![r] = Waiting]
  /\ begun' = [begun EXCEPT ![r] = oracle]
  /\ tsoRequests' = Append(tsoRequests, r)
  /\ UNCHANGED <<pdVars, connLeader, clientConns, loopVars, tsDeadlineCh, deadlinePc,
                 checkLeaderCh, closePc>>

(* Every request in the channel gets the error. *)
revokeTSORequest ==
  /\ answer' = [r \in TSORequest |-> IF r \in inSeq(tsoRequests) THEN Failed ELSE answer[r]]
  /\ tsoRequests' = <<>>

(* A unary call: GetRegion, GetStore, UpdateGCSafePoint and the others ask *)
(* the leader they know within pdTimeout; an error calls leaderLoop.       *)
leaderClient == connLeader
UnaryCall ==
  /\ closePc = "open"
  /\ leaderClient # pdLeader \/ hung
  /\ checkLeaderCh' = TRUE
  /\ UNCHANGED <<pdVars, connLeader, clientConns, tsoRequests, loopVars, tsDeadlineCh,
                 deadlinePc, closePc, answer, begun>>

(***************************************************************************)
(* tsLoop.                                                                 *)
(***************************************************************************)
CreateStream ==
  /\ tsPc = "stream"
  /\ tsPc' = "select"
  /\ streams' = streams + 1
  /\ stream' = [no |-> streams + 1, to |-> leaderClient]
  /\ cancelled' = FALSE
  /\ UNCHANGED <<pdVars, connLeader, clientConns, tsoRequests, requests, batch, tsDeadlineCh,
                 deadlinePc, checkLeaderCh, closePc, answer, begun>>

(* ScheduleCheckLeader does not wait: the token may be there already. *)
CreateStreamError ==
  /\ tsPc = "stream" /\ ~done
  /\ leaderClient # pdLeader \/ hung
  /\ checkLeaderCh' = TRUE
  /\ revokeTSORequest
  /\ UNCHANGED <<pdVars, connLeader, clientConns, loopVars, tsDeadlineCh, deadlinePc,
                 closePc, begun>>

TakeRequests ==
  /\ tsPc = "select" /\ tsoRequests # <<>>
  /\ requests' = tsoRequests
  /\ tsoRequests' = <<>>
  /\ batch' = batch + 1
  /\ tsPc' = "deadline"
  /\ UNCHANGED <<pdVars, connLeader, clientConns, stream, streams, cancelled, tsDeadlineCh,
                 deadlinePc, checkLeaderCh, closePc, answer, begun>>

SetDeadline ==
  /\ tsPc = "deadline" /\ tsDeadlineCh = NoDeadline
  /\ tsDeadlineCh' = [batch |-> batch, stream |-> stream.no]
  /\ tsPc' = "process"
  /\ UNCHANGED <<pdVars, connLeader, clientConns, tsoRequests, requests, stream, streams,
                 cancelled, batch, deadlinePc, checkLeaderCh, closePc, answer, begun>>

(* The loop returns when the client closes.  At the deadline its batch is  *)
(* in nobody's hands any more.                                             *)
tsLoopReturns ==
  /\ done /\ tsPc \in {"stream", "select", "deadline"}
  /\ tsPc' = "returned"
  /\ UNCHANGED <<pdVars, connLeader, clientConns, tsoRequests, requests, stream, streams,
                 cancelled, batch, tsDeadlineCh, deadlinePc, checkLeaderCh, closePc, answer, begun>>

(* Mutant: the logical part is lowered by the whole count. *)
FirstBelow(last, n) == last - n
(* The server returns the highest timestamp. *)
firstLogical(last, n) == last - (n - 1)

(* The answers of a batch whose last timestamp is last, of the window t;   *)
(* finished requests leave the batch, and its deadline is done.            *)
finishTSORequest(t, last) ==
  answer' = [r \in TSORequest |->
               IF \E i \in DOMAIN requests : requests[i] = r
               THEN LET i == CHOOSE i \in DOMAIN requests : requests[i] = r
                    IN [kind |-> "ts", term |-> t,
                        ts |-> firstLogical(last, Len(requests)) + i - 1]
               ELSE answer[r]]

(* Nobody has answered the batch that tsLoop has sent. *)
InFlight == tsPc = "process"

(* The last timestamp of a batch of n that the server m hands out; a batch *)
(* never crosses a physical part.                                          *)
getRespTS(m, n) ==
  LET o == oracle[term[m]]
  IN IF (o % Slots) + n < Slots THEN o + n ELSE (o \div Slots + 1) * Slots + n - 1

(* The timestamp of the server that the stream leads to is not reset: it   *)
(* leads, or has not yet seen that it does not.                            *)
Serves(m) == m \in Member /\ term[m] # 0
spends(m) == oracle' = [oracle EXCEPT ![term[m]] = getRespTS(m, Len(requests))]

processTSORequests ==
  /\ InFlight /\ ~cancelled /\ ~done
  /\ Serves(stream.to) /\ (stream.to = pdLeader => ~hung)
  /\ spends(stream.to)
  /\ finishTSORequest(term[stream.to], getRespTS(stream.to, Len(requests)))
  /\ requests' = <<>> /\ tsPc' = "select"
  /\ UNCHANGED <<pdLeader, hung, term, pdFaults, connLeader, clientConns, tsoRequests, stream,
                 streams, cancelled, batch, tsDeadlineCh, deadlinePc, checkLeaderCh,
                 closePc, begun>>

(* Send or Recv fails: another server leads, the context was cancelled, or *)
(* the answer is lost after the server has spent the timestamps.           *)
processError ==
  /\ InFlight
  /\ \/ cancelled /\ UNCHANGED <<oracle, pdFaults>>
     \/ done /\ UNCHANGED <<oracle, pdFaults>>
     \/ stream.to # pdLeader /\ UNCHANGED <<oracle, pdFaults>>
     \/ /\ Serves(stream.to) /\ pdFaults < MaxPDFaults
        /\ spends(stream.to)
        /\ pdFaults' = pdFaults + 1
  /\ answer' = [r \in TSORequest |-> IF r \in inSeq(requests) THEN Failed ELSE answer[r]]
  /\ requests' = <<>>
  /\ stream' = NoStream
  /\ tsPc' = IF done THEN "returned" ELSE "stream"
  /\ checkLeaderCh' = IF done THEN checkLeaderCh ELSE TRUE
  /\ UNCHANGED <<pdLeader, hung, term, connLeader, clientConns, tsoRequests, streams, cancelled,
                 batch, tsDeadlineCh, deadlinePc, closePc, begun>>

(***************************************************************************)
(* tsCancelLoop.                                                           *)
(***************************************************************************)
TakeDeadline ==
  /\ deadlinePc = NoDeadline /\ tsDeadlineCh # NoDeadline /\ ~done
  /\ deadlinePc' = tsDeadlineCh
  /\ tsDeadlineCh' = NoDeadline
  /\ UNCHANGED <<pdVars, connLeader, clientConns, tsoRequests, loopVars, checkLeaderCh,
                 closePc, answer, begun>>

(* The batch of the deadline is answered: close(done). *)
DeadlineDone ==
  /\ deadlinePc # NoDeadline
  /\ deadlinePc.batch # batch \/ ~InFlight
  /\ deadlinePc' = NoDeadline
  /\ UNCHANGED <<pdVars, connLeader, clientConns, tsoRequests, loopVars, tsDeadlineCh,
                 checkLeaderCh, closePc, answer, begun>>

(* Mutant: the timeout is logged only. *)
LoggedOnly(d) == cancelled
cancelsStream(d) == cancelled \/ d.stream = stream.no

(* The timer fires: also when the answer came and the loop is late. *)
DeadlineTimer ==
  /\ deadlinePc # NoDeadline
  /\ cancelled' = cancelsStream(deadlinePc)
  /\ deadlinePc' = NoDeadline
  /\ UNCHANGED <<pdVars, connLeader, clientConns, tsoRequests, requests, tsPc, stream, streams,
                 batch, tsDeadlineCh, checkLeaderCh, closePc, answer, begun>>

(***************************************************************************)
(* leaderLoop and Close.                                                   *)
(***************************************************************************)
(* getMembers of some URL names a leader, which may be one that does not   *)
(* lead any more; switchLeader opens a connection.                         *)
switchLeader(m) ==
  /\ connLeader' = m
  /\ clientConns' = clientConns \union {m}

leaderLoop(m) ==
  /\ checkLeaderCh /\ ~done
  /\ checkLeaderCh' = FALSE
  /\ \/ Serves(m) /\ UNCHANGED pdFaults
     \/ m # pdLeader /\ pdFaults < MaxPDFaults /\ pdFaults' = pdFaults + 1
  /\ switchLeader(m)
  /\ UNCHANGED <<pdLeader, hung, term, oracle, tsoRequests, loopVars, tsDeadlineCh, deadlinePc,
                 closePc, answer, begun>>

updateLeaderFails ==
  /\ checkLeaderCh /\ ~done
  /\ pdFaults < MaxPDFaults /\ pdFaults' = pdFaults + 1
  /\ checkLeaderCh' = FALSE
  /\ UNCHANGED <<pdLeader, hung, term, oracle, connLeader, clientConns, tsoRequests, loopVars,
                 tsDeadlineCh, deadlinePc, closePc, answer, begun>>

Close ==
  /\ closePc = "open"
  /\ closePc' = "waiting"
  /\ UNCHANGED <<pdVars, connLeader, clientConns, tsoRequests, loopVars, tsDeadlineCh,
                 deadlinePc, checkLeaderCh, answer, begun>>

(* Once the loops have returned what is left in the channel is revoked and *)
(* the connections are closed.                                             *)
CloseRevokes ==
  /\ closePc = "waiting" /\ tsPc = "returned"
  /\ revokeTSORequest
  /\ clientConns' = {}
  /\ closePc' = "closed"
  /\ UNCHANGED <<pdVars, connLeader, loopVars, tsDeadlineCh, deadlinePc, checkLeaderCh, begun>>

(***************************************************************************)
(* PD.                                                                     *)
(***************************************************************************)
(* Another server is elected and synchronises its timestamp into a new     *)
(* window; the one before it may not know yet.                             *)
LeaderMoves(m) ==
  /\ pdFaults < MaxPDFaults /\ pdFaults' = pdFaults + 1
  /\ m # pdLeader /\ pdLeader' = m
  /\ term' = [term EXCEPT ![m] = term[pdLeader] + 1]
  /\ hung' = FALSE
  /\ UNCHANGED <<oracle, connLeader, clientConns, tsoRequests, loopVars, tsDeadlineCh,
                 deadlinePc, checkLeaderCh, closePc, answer, begun>>

(* It learns it, and its timestamp is reset. *)
LeaderStepsDown(m) ==
  /\ m # pdLeader /\ term[m] # 0
  /\ term' = [term EXCEPT ![m] = 0]
  /\ UNCHANGED <<pdLeader, hung, oracle, pdFaults, connLeader, clientConns, tsoRequests,
                 loopVars, tsDeadlineCh, deadlinePc, checkLeaderCh, closePc, answer, begun>>

LeaderHangs ==
  /\ pdFaults < MaxPDFaults /\ pdFaults' = pdFaults + 1
  /\ ~hung /\ hung' = TRUE
  /\ UNCHANGED <<pdLeader, term, oracle, connLeader, clientConns, tsoRequests, loopVars,
                 tsDeadlineCh, deadlinePc, checkLeaderCh, closePc, answer, begun>>

ClientInit ==
  /\ pdLeader = (CHOOSE m \in Member : TRUE)
  /\ hung = FALSE /\ pdFaults = 0
  /\ term = [m \in Member |-> IF m = pdLeader THEN 1 ELSE 0]
  /\ oracle = [t \in Term |-> 0]
  /\ connLeader = NoMember /\ clientConns = {}
  /\ tsoRequests = <<>> /\ requests = <<>>
  /\ tsPc = "new" /\ stream = NoStream /\ streams = 0 /\ cancelled = FALSE /\ batch = 0
  /\ tsDeadlineCh = NoDeadline /\ deadlinePc = NoDeadline
  /\ checkLeaderCh = FALSE /\ closePc = "new"
  /\ answer = [r \in TSORequest |-> Unsent]
  /\ begun = [r \in TSORequest |-> oracle]

ClientNext ==
  \/ NewClient
  \/ \E r \in TSORequest : GetTSAsync(r)
  \/ UnaryCall
  \/ CreateStream \/ CreateStreamError \/ TakeRequests \/ SetDeadline \/ tsLoopReturns
  \/ processTSORequests \/ processError
  \/ TakeDeadline \/ DeadlineDone \/ DeadlineTimer
  \/ \E m \in Member : leaderLoop(m) \/ LeaderMoves(m) \/ LeaderStepsDown(m)
  \/ updateLeaderFails \/ Close \/ CloseRevokes \/ LeaderHangs

(***************************************************************************)
(* Properties.                                                             *)
(***************************************************************************)
Timestamped(r) == answer[r].kind = "ts"

(* Batching keeps what the servers promise: no two requests get the same   *)
(* timestamp, and a request gets one above every timestamp that the server *)
(* which answers it, and the leaders before that one, had handed out when  *)
(* it was made (firstLogical and finishTSORequest share out the batch),    *)
(* through lost answers, cancelled streams, changes of the leader and      *)
(* answers of a server that has lost its lease.  Timestamps are ordered by *)
(* window first, so of two windows there is nothing to say.  Above what a  *)
(* newer leader had handed out the answer of a deposed one is not.         *)
ClientTimestamps ==
  \A r, q \in TSORequest :
    /\ Timestamped(r) => answer[r].ts > begun[r][answer[r].term]
    /\ r # q /\ Timestamped(r) /\ Timestamped(q)
         => answer[r].term # answer[q].term \/ answer[r].ts # answer[q].ts

(* As long as the client is open, every request gets a timestamp or an     *)
(* error: a leader that hangs is given up after pdTimeout, and the         *)
(* deadline of one batch never takes the place of another's.               *)
RequestsAnswered ==
  \A r \in TSORequest :
    (answer[r] = Waiting) ~> (answer[r] # Waiting \/ closePc # "open")
=============================================================================
