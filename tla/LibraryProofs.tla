--------------------------- MODULE LibraryProofs ----------------------------
(***************************************************************************)
(* The libraries, for any number of requests, servers, keys and faults and *)
(* any capacity: the timestamps that the client library hands out          *)
(* (Client), and the contents of the caches of pkg/cache (Caches).         *)
(***************************************************************************)
EXTENDS Client, Caches, SequenceTheorems, FiniteSetTheorems, TLAPS

(***************************************************************************)
(* The client.  ClientTimestamps is inductive together with the position   *)
(* of the oracle: in no window is it behind a timestamp that was handed    *)
(* out, so that the answers of a batch are above all of that window.       *)
(***************************************************************************)
ClientSpec == ClientInit /\ [][ClientNext]_clientVars

Answer == {Unsent, Waiting, Failed} \union [kind : {"ts"}, term : Term, ts : Int]

ClientTypes ==
  /\ oracle \in [Term -> Nat]
  /\ tsoRequests \in Seq(TSORequest) /\ requests \in Seq(TSORequest)
  /\ answer \in [TSORequest -> Answer]
  /\ begun \in [TSORequest -> [Term -> Nat]]

(* There is a window for every election. *)
TermTypes ==
  /\ pdLeader \in Member /\ pdFaults \in 0 .. MaxPDFaults
  /\ term \in [Member -> 0 .. pdFaults + 1]

(* The requests r that have a timestamp have it from its window after they *)
(* were made.                                                              *)
BelowOracle ==
  \A r \in TSORequest :
    /\ \A t \in Term : begun[r][t] <= oracle[t]
    /\ Timestamped(r) => /\ begun[r][answer[r].term] < answer[r].ts
                         /\ answer[r].ts <= oracle[answer[r].term]

ClientInv == ClientTypes /\ TermTypes /\ BelowOracle /\ ClientTimestamps

LEMMA AnswerShape ==
  /\ Unsent.kind = "unsent" /\ Waiting.kind = "waiting" /\ Failed.kind = "error"
  /\ {Unsent, Waiting, Failed} \subseteq Answer
  /\ \A a \in Answer : a.kind = "ts" => a.ts \in Int /\ a.term \in Term
  BY DEF Answer, Unsent, Waiting, Failed

LEMMA LongerInterval ==
  ASSUME NEW a \in Nat, NEW b \in Nat, a <= b
  PROVE  0 .. a + 1 \subseteq 0 .. b + 1
  OBVIOUS

(* A server that serves has a window. *)
LEMMA ServesTerm ==
  ASSUME TermTypes, NEW m, Serves(m)
  PROVE  term[m] \in Term
  BY ClientAssumption DEF TermTypes, Serves, Term

(* An action that gives no request a timestamp. *)
LEMMA NoTimestamp ==
  ASSUME ClientInv, TermTypes', oracle' \in [Term -> Nat],
         \A t \in Term : oracle'[t] >= oracle[t],
         tsoRequests' \in Seq(TSORequest), requests' \in Seq(TSORequest),
         answer' \in [TSORequest -> Answer],
         \A r \in TSORequest : answer'[r] = answer[r] \/ answer'[r].kind # "ts",
         begun' = begun
  PROVE  ClientInv'
<1>1. ClientTypes /\ BelowOracle /\ ClientTimestamps
  BY DEF ClientInv
<1>2. ClientTypes'
  BY <1>1 DEF ClientTypes
<1>3. \A r \in TSORequest :
        /\ \A t \in Term : begun[r][t] \in Nat
        /\ answer[r].kind = "ts" => answer[r].ts \in Int /\ answer[r].term \in Term
  BY <1>1, AnswerShape DEF ClientTypes
<1>4. \A t \in Term : oracle[t] \in Nat /\ oracle'[t] \in Nat
  BY <1>1, <1>2 DEF ClientTypes
<1>5. BelowOracle'
  <2> SUFFICES ASSUME NEW r \in TSORequest
               PROVE  /\ \A t \in Term : begun[r][t] <= oracle'[t]
                      /\ answer'[r].kind = "ts" =>
                           /\ begun[r][answer'[r].term] < answer'[r].ts
                           /\ answer'[r].ts <= oracle'[answer'[r].term]
    BY DEF BelowOracle, Timestamped
  <2>1. ASSUME NEW t \in Term PROVE begun[r][t] <= oracle'[t]
    <3>1. begun[r][t] <= oracle[t] /\ oracle[t] <= oracle'[t]
      BY <1>1, <1>4 DEF BelowOracle
    <3> QED
      BY <1>3, <1>4, <3>1
  <2>2. ASSUME answer'[r].kind = "ts"
        PROVE  /\ begun[r][answer'[r].term] < answer'[r].ts
               /\ answer'[r].ts <= oracle'[answer'[r].term]
    <3> DEFINE t == answer[r].term
    <3>1. answer'[r] = answer[r] /\ answer[r].kind = "ts"
      BY <2>2
    <3>2. begun[r][t] < answer[r].ts /\ answer[r].ts <= oracle[t] /\ t \in Term
          /\ answer[r].ts \in Int
      BY <1>1, <1>3, <3>1 DEF BelowOracle, Timestamped
    <3>3. oracle[t] <= oracle'[t]
      BY <1>4, <3>2
    <3>4. answer[r].ts <= oracle'[t]
      BY <1>4, <3>2, <3>3
    <3> QED
      BY <3>1, <3>2, <3>4
  <2> QED
    BY <2>1, <2>2
<1>6. ClientTimestamps'
  BY <1>1 DEF ClientTimestamps, Timestamped
<1> QED
  BY <1>2, <1>5, <1>6 DEF ClientInv

LEMMA ClientInitInv == ClientInit => ClientInv
<1> SUFFICES ASSUME ClientInit PROVE ClientInv
  OBVIOUS
<1>1. /\ oracle = [t \in Term |-> 0] /\ begun = [r \in TSORequest |-> oracle]
      /\ tsoRequests = <<>> /\ requests = <<>> /\ answer = [r \in TSORequest |-> Unsent]
  BY DEF ClientInit
<1>2. ClientTypes
  BY <1>1 DEF ClientTypes, Answer
<1>3. TermTypes
  <2>1. pdLeader \in Member
    <3>1. pdLeader = CHOOSE m \in Member : TRUE
      BY DEF ClientInit
    <3> QED
      BY <3>1, ClientAssumption
  <2>2. pdFaults = 0 /\ term = [m \in Member |-> IF m = pdLeader THEN 1 ELSE 0]
    BY DEF ClientInit
  <2> QED
    BY <2>1, <2>2, ClientAssumption DEF TermTypes
<1>4. \A r \in TSORequest : answer[r].kind # "ts" /\ \A t \in Term : begun[r][t] = 0
  BY <1>1, AnswerShape
<1>5. BelowOracle
  BY <1>1, <1>4 DEF BelowOracle, Timestamped
<1>6. ClientTimestamps
  BY <1>4 DEF ClientTimestamps, Timestamped
<1> QED
  BY <1>2, <1>3, <1>5, <1>6 DEF ClientInv

(* A server answers a batch of n with timestamps above all earlier ones of *)
(* its window, also when the batch does not fit into the physical part.    *)
LEMMA BatchAbove ==
  ASSUME NEW o \in Nat, NEW n \in Nat,
         NEW last, last = IF (o % Slots) + n < Slots THEN o + n
                          ELSE (o \div Slots + 1) * Slots + n - 1
  PROVE  last \in Nat /\ last >= o + n
<1> USE ClientAssumption
<1>1. o = Slots * (o \div Slots) + (o % Slots) /\ (o % Slots) \in 0 .. Slots - 1
      /\ o \div Slots \in Nat
  OBVIOUS
<1>2. (o \div Slots + 1) * Slots = Slots * (o \div Slots) + Slots
  BY <1>1
<1> DEFINE p == Slots * (o \div Slots)
           m == o % Slots
<1>3. p \in Nat
  BY <1>1
<1>4. o = p + m /\ m \in 0 .. Slots - 1 /\ (o \div Slots + 1) * Slots = p + Slots
  BY <1>1, <1>2
<1> HIDE DEF p
<1>5. CASE m + n < Slots
  BY <1>5
<1>6. CASE ~(m + n < Slots)
  <2>1. last = p + Slots + n - 1
    BY <1>4, <1>6
  <2> HIDE DEF m
  <2> QED
    BY <1>3, <1>4, <2>1
<1> QED
  BY <1>5, <1>6

(* What a server spends of its window. *)
LEMMA Spent ==
  ASSUME ClientInv, NEW m, Serves(m), spends(m)
  PROVE  /\ term[m] \in Term
         /\ getRespTS(m, Len(requests)) \in Nat
         /\ getRespTS(m, Len(requests)) >= oracle[term[m]] + Len(requests)
         /\ oracle' \in [Term -> Nat]
         /\ oracle'[term[m]] = getRespTS(m, Len(requests))
         /\ \A t \in Term : t # term[m] => oracle'[t] = oracle[t]
         /\ \A t \in Term : oracle'[t] >= oracle[t]
<1> DEFINE t0 == term[m]
           n == Len(requests)
           last == getRespTS(m, n)
<1>1. t0 \in Term
  BY ServesTerm DEF ClientInv
<1>2. oracle \in [Term -> Nat] /\ n \in Nat
  BY DEF ClientInv, ClientTypes
<1>3. last \in Nat /\ last >= oracle[t0] + n
  <2>1. oracle[t0] \in Nat
    BY <1>1, <1>2
  <2> QED
    BY <1>2, <2>1, BatchAbove DEF getRespTS
<1>4. oracle' = [oracle EXCEPT ![t0] = last]
  BY DEF spends
<1> HIDE DEF t0, n, last
<1>5. /\ oracle' \in [Term -> Nat] /\ oracle'[t0] = last
      /\ \A t \in Term : t # t0 => oracle'[t] = oracle[t]
  BY <1>1, <1>2, <1>3, <1>4
<1>6. \A t \in Term : oracle[t] \in Nat
  BY <1>2
<1>7. \A t \in Term : oracle'[t] >= oracle[t]
  BY <1>1, <1>2, <1>3, <1>5, <1>6
<1> QED
  BY <1>1, <1>3, <1>5, <1>7 DEF t0, n, last

LEMMA ProcessInv ==
  ASSUME ClientInv, processTSORequests
  PROVE  ClientInv'
<1> DEFINE n == Len(requests)
           to == stream.to
           t0 == term[to]
           last == getRespTS(to, n)
           at(r) == CHOOSE i \in DOMAIN requests : requests[i] = r
           In(r) == \E i \in DOMAIN requests : requests[i] = r
<1>1. ClientTypes /\ TermTypes /\ BelowOracle /\ ClientTimestamps
  BY DEF ClientInv
<1>2. n \in Nat /\ DOMAIN requests = 1 .. n
  BY <1>1 DEF ClientTypes
<1>3. /\ t0 \in Term /\ last \in Nat /\ last >= oracle[t0] + n
      /\ oracle' \in [Term -> Nat] /\ oracle'[t0] = last
      /\ \A t \in Term : t # t0 => oracle'[t] = oracle[t]
      /\ \A t \in Term : oracle'[t] >= oracle[t]
  BY Spent DEF processTSORequests
<1>4. /\ requests' = <<>> /\ UNCHANGED <<tsoRequests, begun, term, pdLeader, pdFaults>>
      /\ answer' = [r \in TSORequest |->
                      IF In(r) THEN [kind |-> "ts", term |-> t0, ts |-> last - (n - 1) + at(r) - 1]
                      ELSE answer[r]]
  BY DEF processTSORequests, finishTSORequest, firstLogical
<1> HIDE DEF last, t0
<1>5. ASSUME NEW r \in TSORequest, In(r)
      PROVE  /\ at(r) \in 1 .. n /\ requests[at(r)] = r
             /\ answer'[r] = [kind |-> "ts", term |-> t0, ts |-> last - n + at(r)]
             /\ answer'[r].kind = "ts" /\ answer'[r].ts = last - n + at(r)
             /\ answer'[r].term = t0
  <2>1. at(r) \in 1 .. n /\ requests[at(r)] = r
    BY <1>2, <1>5
  <2> HIDE DEF at
  <2>2. answer'[r] = [kind |-> "ts", term |-> t0, ts |-> last - (n - 1) + at(r) - 1]
    BY <1>4, <1>5
  <2>3. last - (n - 1) + at(r) - 1 = last - n + at(r)
    BY <1>2, <1>3, <2>1
  <2> QED
    BY <2>1, <2>2, <2>3
<1>6. ASSUME NEW r \in TSORequest, ~In(r)
      PROVE  answer'[r] = answer[r]
  BY <1>4, <1>6
<1> HIDE DEF In, at, n
<1>7. \A r \in TSORequest :
        /\ \A t \in Term : begun[r][t] \in Nat
        /\ Timestamped(r) => answer[r].ts \in Int /\ answer[r].term \in Term
  BY <1>1, AnswerShape DEF ClientTypes, Timestamped
<1>o. \A t \in Term : oracle[t] \in Nat /\ oracle'[t] \in Nat
  BY <1>1, <1>3 DEF ClientTypes
<1>8. ClientTypes'
  <2>1. \A r \in TSORequest : answer'[r] \in Answer
    <3> SUFFICES ASSUME NEW r \in TSORequest PROVE answer'[r] \in Answer
      OBVIOUS
    <3>1. CASE In(r)
      <4>1. /\ last - n + at(r) \in Int
            /\ answer'[r] = [kind |-> "ts", term |-> t0, ts |-> last - n + at(r)]
        BY <1>2, <1>3, <1>5, <3>1
      <4> QED
        BY <1>3, <4>1 DEF Answer
    <3>2. CASE ~In(r)
      BY <1>1, <1>6, <3>2 DEF ClientTypes
    <3> QED
      BY <3>1, <3>2
  <2>2. answer' \in [TSORequest -> Answer]
    BY <1>4, <2>1
  <2> QED
    BY <1>1, <1>3, <1>4, <2>2 DEF ClientTypes
<1>t. TermTypes'
  BY <1>1, <1>4 DEF TermTypes
<1>9. ASSUME NEW r \in TSORequest
      PROVE  /\ \A t \in Term : begun[r][t] <= oracle'[t]
             /\ Timestamped(r)' => /\ answer'[r].ts \in Int /\ answer'[r].term \in Term
                                   /\ begun[r][answer'[r].term] < answer'[r].ts
                                   /\ answer'[r].ts <= oracle'[answer'[r].term]
             /\ In(r) => answer'[r].term = t0 /\ answer'[r].ts > oracle[t0]
             /\ ~In(r) /\ Timestamped(r)' => answer'[r].ts <= oracle[answer'[r].term]
  <2>1. \A t \in Term : begun[r][t] \in Nat /\ begun[r][t] <= oracle[t]
    BY <1>1, <1>7 DEF BelowOracle
  <2>a. \A t \in Term : begun[r][t] <= oracle'[t]
    <3> SUFFICES ASSUME NEW t \in Term PROVE begun[r][t] <= oracle'[t]
      OBVIOUS
    <3>1. oracle[t] <= oracle'[t] /\ begun[r][t] <= oracle[t]
      BY <1>3, <1>o, <2>1
    <3> QED
      BY <1>o, <2>1, <3>1
  <2>2. CASE In(r)
    <3> DEFINE i == at(r)
    <3>1. i \in 1 .. n /\ answer'[r].ts = last - n + i /\ answer'[r].term = t0
      BY <1>5, <2>2
    <3> HIDE DEF i
    <3>b. oracle[t0] \in Nat /\ begun[r][t0] \in Nat /\ begun[r][t0] <= oracle[t0]
      BY <1>3, <1>o, <2>1
    <3>2. answer'[r].ts > oracle[t0] /\ answer'[r].ts <= last /\ answer'[r].ts \in Int
      BY <1>2, <1>3, <3>1, <3>b
    <3>3. begun[r][t0] < answer'[r].ts
      BY <3>2, <3>b
    <3> QED
      BY <1>3, <2>2, <2>a, <3>1, <3>2, <3>3
  <2>3. CASE ~In(r)
    <3> SUFFICES ASSUME Timestamped(r)'
                 PROVE  /\ answer'[r].ts \in Int /\ answer'[r].term \in Term
                        /\ begun[r][answer'[r].term] < answer'[r].ts
                        /\ answer'[r].ts <= oracle'[answer'[r].term]
                        /\ answer'[r].ts <= oracle[answer'[r].term]
      BY <2>3, <2>a
    <3>1. Timestamped(r) /\ answer'[r] = answer[r]
      BY <1>6, <2>3 DEF Timestamped
    <3> DEFINE t == answer[r].term
    <3>2. /\ answer[r].ts \in Int /\ t \in Term
          /\ begun[r][t] < answer[r].ts /\ answer[r].ts <= oracle[t]
      BY <1>1, <1>7, <3>1 DEF BelowOracle
    <3>3. oracle[t] <= oracle'[t] /\ oracle[t] \in Nat /\ oracle'[t] \in Nat
      BY <1>3, <1>o, <3>2
    <3>4. answer[r].ts <= oracle'[t]
      BY <3>2, <3>3
    <3> QED
      BY <3>1, <3>2, <3>4
  <2> QED
    BY <2>2, <2>3
<1>10. BelowOracle'
  BY <1>4, <1>9 DEF BelowOracle
<1>11. ClientTimestamps'
  <2>z. \A r \in TSORequest : Timestamped(r)' => answer'[r].ts > begun'[r][answer'[r].term]
    <3> SUFFICES ASSUME NEW r \in TSORequest, Timestamped(r)'
                 PROVE  answer'[r].ts > begun'[r][answer'[r].term]
      OBVIOUS
    <3> DEFINE t == answer'[r].term
    <3>1. answer'[r].ts \in Int /\ t \in Term /\ begun[r][t] < answer'[r].ts
      BY <1>9
    <3>2. begun[r][t] \in Nat
      BY <1>7, <3>1
    <3> HIDE DEF t
    <3>3. answer'[r].ts > begun[r][t]
      BY <3>1, <3>2
    <3> QED
      BY <1>4, <3>3 DEF t
  <2> SUFFICES ASSUME NEW r \in TSORequest, NEW q \in TSORequest, r # q,
                      Timestamped(r)', Timestamped(q)', answer'[r].term = answer'[q].term
               PROVE  answer'[r].ts # answer'[q].ts
    BY <2>z DEF ClientTimestamps, Timestamped
  <2>0. answer'[r].ts \in Int /\ answer'[q].ts \in Int /\ oracle[t0] \in Nat
    BY <1>3, <1>9, <1>o
  <2>1. CASE In(r) /\ In(q)
    <3> DEFINE i == at(r)
               j == at(q)
    <3>1. /\ i \in 1 .. n /\ requests[i] = r /\ answer'[r].ts = last - n + i
          /\ j \in 1 .. n /\ requests[j] = q /\ answer'[q].ts = last - n + j
      BY <1>5, <2>1
    <3> HIDE DEF i, j
    <3>2. i # j
      BY <3>1
    <3> QED
      BY <1>2, <1>3, <3>1, <3>2
  <2>2. CASE In(r) /\ ~In(q)
    <3>1. answer'[r].ts > oracle[t0] /\ answer'[q].ts <= oracle[t0]
      BY <1>9, <2>2
    <3> QED
      BY <2>0, <3>1
  <2>3. CASE ~In(r) /\ In(q)
    <3>1. answer'[q].ts > oracle[t0] /\ answer'[r].ts <= oracle[t0]
      BY <1>9, <2>3
    <3> QED
      BY <2>0, <3>1
  <2>4. CASE ~In(r) /\ ~In(q)
    BY <1>1, <1>6, <2>4 DEF ClientTimestamps, Timestamped
  <2> QED
    BY <2>1, <2>2, <2>3, <2>4
<1> QED
  BY <1>8, <1>t, <1>10, <1>11 DEF ClientInv

LEMMA ClientStep ==
  ASSUME ClientInv, [ClientNext]_clientVars
  PROVE  ClientInv'
<1> USE DEF pdVars, loopVars
<1>1. ClientTypes /\ TermTypes /\ oracle \in [Term -> Nat]
  BY DEF ClientInv, ClientTypes
<1>0. \A t \in Term : oracle[t] >= oracle[t]
  <2>1. \A t \in Term : oracle[t] \in Nat
    BY <1>1
  <2> QED
    BY <2>1
<1>s. ASSUME UNCHANGED <<pdLeader, term>>, pdFaults' = pdFaults \/
             (pdFaults < MaxPDFaults /\ pdFaults' = pdFaults + 1)
      PROVE  TermTypes'
  <2>1. pdFaults \in 0 .. MaxPDFaults /\ MaxPDFaults \in Nat /\ pdFaults \in Nat
    BY <1>1, ClientAssumption DEF TermTypes
  <2>2. pdFaults' \in 0 .. MaxPDFaults /\ pdFaults <= pdFaults' /\ pdFaults' \in Nat
    BY <1>s, <2>1
  <2>3. 0 .. pdFaults + 1 \subseteq 0 .. pdFaults' + 1
    BY <2>1, <2>2, LongerInterval
  <2>4. term' \in [Member -> 0 .. pdFaults' + 1]
    BY <1>1, <1>s, <2>3 DEF TermTypes
  <2> QED
    BY <1>1, <1>s, <2>2, <2>4 DEF TermTypes
<1>2. ASSUME UNCHANGED <<oracle, answer, begun>>, TermTypes',
             tsoRequests' \in Seq(TSORequest), requests' \in Seq(TSORequest)
      PROVE  ClientInv'
  BY <1>0, <1>1, <1>2, NoTimestamp DEF ClientTypes
<1>3. ASSUME UNCHANGED <<oracle, answer, begun, tsoRequests, requests>>, TermTypes'
      PROVE  ClientInv'
  BY <1>1, <1>2, <1>3 DEF ClientTypes
<1>4. ASSUME NEW rs \in Seq(TSORequest), TermTypes', oracle' \in [Term -> Nat],
             answer' = [r \in TSORequest |-> IF r \in inSeq(rs) THEN Failed ELSE answer[r]],
             \A t \in Term : oracle'[t] >= oracle[t], UNCHANGED begun,
             tsoRequests' \in Seq(TSORequest), requests' \in Seq(TSORequest)
      PROVE  ClientInv'
  <2>1. answer' \in [TSORequest -> Answer]
    BY <1>1, <1>4, AnswerShape DEF ClientTypes
  <2>2. \A r \in TSORequest : answer'[r] = answer[r] \/ answer'[r].kind # "ts"
    BY <1>4, AnswerShape
  <2> QED
    BY <1>4, <2>1, <2>2, NoTimestamp
<1>5. CASE UNCHANGED clientVars
  BY <1>3, <1>5, <1>s DEF clientVars
<1>6. CASE NewClient
  BY <1>3, <1>6, <1>s DEF NewClient
<1>7. ASSUME NEW r \in TSORequest, GetTSAsync(r) PROVE ClientInv'
  <2>1. /\ answer[r] = Unsent /\ answer' = [answer EXCEPT ![r] = Waiting]
        /\ begun' = [begun EXCEPT ![r] = oracle] /\ tsoRequests' = Append(tsoRequests, r)
        /\ UNCHANGED <<oracle, requests>>
    BY <1>7 DEF GetTSAsync
  <2>2. ClientTypes'
    BY <1>1, <2>1, AnswerShape DEF ClientTypes
  <2>t. TermTypes'
    BY <1>7, <1>s DEF GetTSAsync
  <2>3. /\ answer'[r].kind # "ts" /\ begun'[r] = oracle
        /\ \A q \in TSORequest : q # r => answer'[q] = answer[q] /\ begun'[q] = begun[q]
    BY <1>1, <2>1, AnswerShape DEF ClientTypes
  <2>o. \A t \in Term : oracle[t] <= oracle[t]
    BY <1>0, <1>1
  <2>4. BelowOracle'
    BY <2>1, <2>3, <2>o DEF ClientInv, BelowOracle, Timestamped
  <2>5. ClientTimestamps'
    BY <2>3 DEF ClientInv, ClientTimestamps, Timestamped
  <2> QED
    BY <2>2, <2>t, <2>4, <2>5 DEF ClientInv
<1>8. CASE UnaryCall
  BY <1>3, <1>8, <1>s DEF UnaryCall
<1>9. CASE CreateStream
  BY <1>3, <1>9, <1>s DEF CreateStream
<1>10. CASE CreateStreamError
  <2>1. /\ answer' = [r \in TSORequest |-> IF r \in inSeq(tsoRequests) THEN Failed ELSE answer[r]]
        /\ tsoRequests' = <<>> /\ UNCHANGED <<oracle, begun, requests>>
    BY <1>10 DEF CreateStreamError, revokeTSORequest
  <2>2. TermTypes'
    BY <1>10, <1>s DEF CreateStreamError
  <2> QED
    BY <1>0, <1>1, <1>4, <2>1, <2>2 DEF ClientTypes
<1>11. CASE TakeRequests
  BY <1>1, <1>2, <1>11, <1>s DEF TakeRequests, ClientTypes
<1>12. CASE SetDeadline
  BY <1>3, <1>12, <1>s DEF SetDeadline
<1>13. CASE tsLoopReturns
  BY <1>3, <1>13, <1>s DEF tsLoopReturns
<1>14. CASE processTSORequests
  BY <1>14, ProcessInv
<1>15. CASE processError
  <2>1. /\ answer' = [r \in TSORequest |-> IF r \in inSeq(requests) THEN Failed ELSE answer[r]]
        /\ requests' = <<>> /\ UNCHANGED <<begun, tsoRequests>>
    BY <1>15 DEF processError
  <2>2. TermTypes'
    BY <1>15, <1>s DEF processError
  <2>3. oracle' \in [Term -> Nat] /\ \A t \in Term : oracle'[t] >= oracle[t]
    <3>1. CASE oracle' = oracle
      BY <1>0, <1>1, <3>1
    <3>2. CASE Serves(stream.to) /\ spends(stream.to)
      BY <3>2, Spent
    <3> QED
      BY <1>15, <3>1, <3>2 DEF processError
  <2> QED
    BY <1>1, <1>4, <2>1, <2>2, <2>3 DEF ClientTypes
<1>16. CASE TakeDeadline
  BY <1>3, <1>16, <1>s DEF TakeDeadline
<1>17. CASE DeadlineDone
  BY <1>3, <1>17, <1>s DEF DeadlineDone
<1>18. CASE DeadlineTimer
  BY <1>3, <1>18, <1>s DEF DeadlineTimer
<1>19. ASSUME NEW m \in Member, leaderLoop(m) PROVE ClientInv'
  BY <1>3, <1>19, <1>s DEF leaderLoop
<1>20. CASE updateLeaderFails
  BY <1>3, <1>20, <1>s DEF updateLeaderFails
<1>21. CASE Close
  BY <1>3, <1>21, <1>s DEF Close
<1>22. CASE CloseRevokes
  <2>1. /\ answer' = [r \in TSORequest |-> IF r \in inSeq(tsoRequests) THEN Failed ELSE answer[r]]
        /\ tsoRequests' = <<>> /\ UNCHANGED <<oracle, begun, requests>>
    BY <1>22 DEF CloseRevokes, revokeTSORequest
  <2>2. TermTypes'
    BY <1>22, <1>s DEF CloseRevokes
  <2> QED
    BY <1>0, <1>1, <1>4, <2>1, <2>2 DEF ClientTypes
<1>23. CASE LeaderHangs
  BY <1>3, <1>23, <1>s DEF LeaderHangs
<1>24. ASSUME NEW m \in Member, LeaderMoves(m) PROVE ClientInv'
  <2>1. /\ pdFaults < MaxPDFaults /\ pdFaults' = pdFaults + 1 /\ pdLeader' = m
        /\ term' = [term EXCEPT ![m] = term[pdLeader] + 1]
        /\ UNCHANGED <<oracle, answer, begun, tsoRequests, requests>>
    BY <1>24 DEF LeaderMoves
  <2>2. /\ pdFaults \in 0 .. MaxPDFaults /\ MaxPDFaults \in Nat
        /\ pdLeader \in Member /\ term \in [Member -> 0 .. pdFaults + 1]
    BY <1>1, ClientAssumption DEF TermTypes
  <2>3. pdFaults' \in 0 .. MaxPDFaults /\ pdFaults' \in Nat
    BY <2>1, <2>2
  <2>4. term[pdLeader] + 1 \in 0 .. pdFaults' + 1
    <3>1. term[pdLeader] \in 0 .. pdFaults + 1
      BY <2>2
    <3> QED
      BY <2>1, <2>2, <3>1
  <2>5. 0 .. pdFaults + 1 \subseteq 0 .. pdFaults' + 1
    BY <2>1, <2>2
  <2>6. term' \in [Member -> 0 .. pdFaults' + 1]
    BY <2>1, <2>2, <2>4, <2>5
  <2>7. TermTypes'
    BY <2>1, <2>3, <2>6 DEF TermTypes
  <2> QED
    BY <1>3, <2>1, <2>7
<1>25. ASSUME NEW m \in Member, LeaderStepsDown(m) PROVE ClientInv'
  <2>1. /\ term' = [term EXCEPT ![m] = 0] /\ UNCHANGED <<pdLeader, pdFaults>>
        /\ UNCHANGED <<oracle, answer, begun, tsoRequests, requests>>
    BY <1>25 DEF LeaderStepsDown
  <2>2. pdFaults \in Nat /\ 0 \in 0 .. pdFaults + 1
    BY <1>1 DEF TermTypes
  <2>3. TermTypes'
    BY <1>1, <2>1, <2>2 DEF TermTypes
  <2> QED
    BY <1>3, <2>1, <2>3
<1> QED
  BY <1>5, <1>6, <1>7, <1>8, <1>9, <1>10, <1>11, <1>12, <1>13, <1>14, <1>15, <1>16, <1>17,
     <1>18, <1>19, <1>20, <1>21, <1>22, <1>23, <1>24, <1>25 DEF ClientNext

(* No two requests get the same timestamp, and a request gets one above    *)
(* every timestamp that the server which answers it, and the leaders       *)
(* before that one, had handed out when it was made (processTSORequests,   *)
(* firstLogical and finishTSORequest of the client), for batches of any    *)
(* size, physical parts of any length, lost answers, changes of the leader *)
(* and answers of servers that have lost their lease.                      *)
THEOREM TimestampsUnique == ClientSpec => []ClientTimestamps
<1>1. ClientInit => ClientInv
  BY ClientInitInv
<1>2. ClientInv /\ [ClientNext]_clientVars => ClientInv'
  BY ClientStep
<1>3. ClientInv => ClientTimestamps
  BY DEF ClientInv
<1> QED
  BY <1>1, <1>2, <1>3, PTL DEF ClientSpec

(***************************************************************************)
(* An LRU list: a sequence of items in which no key comes twice.           *)
(***************************************************************************)
Item == [key : CacheKey, value : CacheValue \union {0}]

Lru(l) ==
  /\ l \in Seq(Item)
  /\ \A i, j \in 1 .. Len(l) : l[i].key = l[j].key => i = j

LEMMA LruKeys ==
  ASSUME NEW l \in Seq(Item)
  PROVE  /\ DOMAIN l = 1 .. Len(l) /\ Len(l) \in Nat
         /\ lruKeys(l) = {l[i].key : i \in 1 .. Len(l)}
         /\ lruKeys(l) \subseteq CacheKey
<1>1. DOMAIN l = 1 .. Len(l) /\ Len(l) \in Nat /\ \A i \in 1 .. Len(l) : l[i] \in Item
  OBVIOUS
<1>2. lruKeys(l) = {l[i].key : i \in 1 .. Len(l)}
  BY <1>1 DEF lruKeys
<1>3. \A e \in Item : e.key \in CacheKey
  BY DEF Item
<1> QED
  BY <1>1, <1>2, <1>3

LEMMA Finds ==
  ASSUME NEW l \in Seq(Item), NEW k, contains(l, k)
  PROVE  find(l, k) \in 1 .. Len(l) /\ l[find(l, k)].key = k
<1>1. \E i \in DOMAIN l : l[i].key = k
  BY DEF contains, lruKeys
<1>2. find(l, k) \in DOMAIN l /\ l[find(l, k)].key = k
  BY <1>1 DEF find
<1> QED
  BY <1>2, LruKeys

(* The keys are counted as often as the list is long. *)
LEMMA LruOnce ==
  ASSUME NEW l, Lru(l)
  PROVE  onlyOnce(l)
<1> DEFINE f == [i \in 1 .. Len(l) |-> l[i].key]
<1>1. l \in Seq(Item) /\ Len(l) \in Nat /\ lruKeys(l) = {l[i].key : i \in 1 .. Len(l)}
  BY LruKeys DEF Lru
<1>2. f \in Bijection(1 .. Len(l), lruKeys(l))
  BY <1>1 DEF Lru, Bijection, Injection, Surjection, IsInjective
<1>3. IsFiniteSet(1 .. Len(l)) /\ Cardinality(1 .. Len(l)) = Len(l)
  BY <1>1, FS_Interval
<1> HIDE DEF f
<1>4. Cardinality(1 .. Len(l)) = Cardinality(lruKeys(l))
  BY <1>2, <1>3, FS_Bijection DEF ExistsBijection
<1> QED
  BY <1>3, <1>4 DEF onlyOnce

(* removeKey takes out the item of the key and nothing else. *)
LEMMA RemoveAtLru ==
  ASSUME NEW l, Lru(l), NEW p \in 1 .. Len(l)
  PROVE  LET g == RemoveAt(l, p)
         IN /\ Lru(g) /\ Len(g) = Len(l) - 1
            /\ ToSet(g) = {e \in ToSet(l) : e.key # l[p].key}
<1> DEFINE g == RemoveAt(l, p)
           a == SubSeq(l, 1, p - 1)
           b == SubSeq(l, p + 1, Len(l))
           n == Len(l)
<1>1. l \in Seq(Item) /\ n \in Nat /\ DOMAIN l = 1 .. n
      /\ (\A i \in 1 .. n : l[i] \in Item)
      /\ \A i, j \in 1 .. n : l[i].key = l[j].key => i = j
  BY DEF Lru
<1>2. /\ a \in Seq(Item) /\ Len(a) = p - 1 /\ \A i \in 1 .. p - 1 : a[i] = l[i]
  <2>1. \A i \in 1 .. p - 1 : l[i] \in Item
    BY <1>1
  <2>2. 1 \in Int /\ p - 1 \in Int
    BY <1>1
  <2>3. /\ a \in Seq(Item) /\ Len(a) = IF 1 <= p - 1 THEN p - 1 - 1 + 1 ELSE 0
        /\ \A i \in 1 .. p - 1 - 1 + 1 : a[i] = l[1 + i - 1]
    BY <2>1, <2>2, SubSeqProperties
  <2> HIDE DEF a
  <2>4. \A i \in 1 .. p - 1 : i \in 1 .. p - 1 - 1 + 1 /\ 1 + i - 1 = i
    BY <1>1
  <2> QED
    BY <1>1, <2>3, <2>4
<1>3. /\ b \in Seq(Item) /\ Len(b) = n - p /\ \A i \in 1 .. n - p : b[i] = l[p + i]
  <2>1. \A i \in p + 1 .. n : l[i] \in Item
    BY <1>1
  <2>2. p + 1 \in Int /\ n \in Int
    BY <1>1
  <2>3. /\ b \in Seq(Item) /\ Len(b) = IF p + 1 <= n THEN n - (p + 1) + 1 ELSE 0
        /\ \A i \in 1 .. n - (p + 1) + 1 : b[i] = l[p + 1 + i - 1]
    BY <2>1, <2>2, SubSeqProperties
  <2> HIDE DEF b
  <2>4. ASSUME NEW i \in 1 .. n - p PROVE b[i] = l[p + i]
    <3>1. i \in 1 .. n - (p + 1) + 1 /\ p + 1 + i - 1 = p + i
      BY <1>1
    <3>2. b[i] = l[p + 1 + i - 1]
      BY <2>3, <3>1
    <3> QED
      BY <3>1, <3>2
  <2>5. Len(b) = n - p
    <3>1. Len(b) = IF p + 1 <= n THEN n - (p + 1) + 1 ELSE 0
      BY <2>3
    <3> HIDE DEF n
    <3>2. n \in Nat /\ p \in 1 .. n
      BY <1>1 DEF n
    <3> QED
      BY <3>1, <3>2
  <2> QED
    BY <2>3, <2>4, <2>5
<1> HIDE DEF a, b
<1>4. g = a \o b
  BY DEF RemoveAt, a, b
<1>5. /\ g \in Seq(Item) /\ Len(g) = n - 1
      /\ \A i \in 1 .. n - 1 : g[i] = IF i < p THEN l[i] ELSE l[i + 1]
  <2>1. /\ a \o b \in Seq(Item) /\ Len(a \o b) = Len(a) + Len(b)
        /\ \A i \in 1 .. Len(a) + Len(b) : (a \o b)[i] =
              IF i <= Len(a) THEN a[i] ELSE b[i - Len(a)]
    BY <1>2, <1>3, ConcatProperties
  <2>2. Len(a) + Len(b) = n - 1
    BY <1>1, <1>2, <1>3
  <2>3. ASSUME NEW i \in 1 .. n - 1
        PROVE  g[i] = IF i < p THEN l[i] ELSE l[i + 1]
    <3>1. CASE i < p
      BY <1>1, <1>2, <1>4, <2>1, <2>2, <3>1
    <3>2. CASE ~(i < p)
      <4> DEFINE j == i - (p - 1)
      <4>1. j \in 1 .. n - p /\ p + j = i + 1 /\ ~(i <= Len(a)) /\ i - Len(a) = j
        BY <1>1, <1>2, <3>2
      <4> HIDE DEF j
      <4>2. g[i] = b[j]
        BY <1>4, <2>1, <2>2, <4>1
      <4>3. b[j] = l[i + 1]
        BY <1>3, <4>1
      <4> QED
        BY <3>2, <4>2, <4>3
    <3> QED
      BY <3>1, <3>2
  <2> QED
    BY <1>4, <2>1, <2>2, <2>3
<1> HIDE DEF g
<1>6. ASSUME NEW i \in 1 .. n - 1
      PROVE  \E j \in 1 .. n : j # p /\ g[i] = l[j]
  <2>1. CASE i < p
    BY <1>1, <1>5, <2>1
  <2>2. CASE ~(i < p)
    BY <1>1, <1>5, <2>2
  <2> QED
    BY <2>1, <2>2
<1>7. ASSUME NEW j \in 1 .. n, j # p
      PROVE  \E i \in 1 .. n - 1 : g[i] = l[j]
  <2>1. CASE j < p
    BY <1>1, <1>5, <2>1
  <2>2. CASE ~(j < p)
    <3>1. j - 1 \in 1 .. n - 1 /\ ~(j - 1 < p) /\ j - 1 + 1 = j
      BY <1>1, <1>7, <2>2
    <3> QED
      BY <1>5, <3>1
  <2> QED
    BY <2>1, <2>2
<1>8. ASSUME NEW i \in 1 .. n - 1, NEW j \in 1 .. n - 1, g[i].key = g[j].key
      PROVE  i = j
  <2> DEFINE x == IF i < p THEN i ELSE i + 1
             y == IF j < p THEN j ELSE j + 1
  <2>1. x \in 1 .. n /\ y \in 1 .. n /\ g[i] = l[x] /\ g[j] = l[y]
    BY <1>1, <1>5
  <2>2. x = y => i = j
    BY <1>1
  <2> HIDE DEF x, y
  <2> QED
    BY <1>1, <1>8, <2>1, <2>2
<1>9. Lru(g)
  BY <1>5, <1>8 DEF Lru
<1>10. ToSet(g) = {e \in ToSet(l) : e.key # l[p].key}
  <2>1. ToSet(g) = {g[i] : i \in 1 .. n - 1} /\ ToSet(l) = {l[i] : i \in 1 .. n}
    <3>1. DOMAIN g = 1 .. n - 1
      BY <1>5
    <3> QED
      BY <1>1, <3>1 DEF ToSet
  <2>2. \A j \in 1 .. n : j # p <=> l[j].key # l[p].key
    BY <1>1
  <2>3. ASSUME NEW e \in ToSet(g) PROVE e \in ToSet(l) /\ e.key # l[p].key
    BY <1>6, <2>1, <2>2
  <2>4. ASSUME NEW e \in ToSet(l), e.key # l[p].key PROVE e \in ToSet(g)
    BY <1>7, <2>1, <2>2, <2>4
  <2> QED
    BY <2>3, <2>4
<1> QED
  BY <1>5, <1>9, <1>10 DEF g

LEMMA RemoveKeyLru ==
  ASSUME NEW l, Lru(l), NEW k
  PROVE  LET g == removeKey(l, k)
         IN /\ Lru(g) /\ Len(g) = IF contains(l, k) THEN Len(l) - 1 ELSE Len(l)
            /\ ToSet(g) = {e \in ToSet(l) : e.key # k}
            /\ lruKeys(g) = lruKeys(l) \ {k}
<1> DEFINE g == removeKey(l, k)
<1>0. \A x : lruKeys(x) = {e.key : e \in ToSet(x)}
  BY DEF lruKeys, ToSet
<1>1. /\ Lru(g) /\ Len(g) = IF contains(l, k) THEN Len(l) - 1 ELSE Len(l)
      /\ ToSet(g) = {e \in ToSet(l) : e.key # k}
  <2>1. CASE contains(l, k)
    <3>1. find(l, k) \in 1 .. Len(l) /\ l[find(l, k)].key = k
      BY <2>1, Finds DEF Lru
    <3>2. g = RemoveAt(l, find(l, k))
      BY <2>1 DEF removeKey
    <3> QED
      BY <2>1, <3>1, <3>2, RemoveAtLru
  <2>2. CASE ~contains(l, k)
    <3>1. g = l
      BY <2>2 DEF removeKey
    <3>2. \A e \in ToSet(l) : e.key # k
      BY <1>0, <2>2 DEF contains
    <3>3. ToSet(l) = {e \in ToSet(l) : e.key # k}
      BY <3>2
    <3> QED
      BY <2>2, <3>1, <3>3
  <2> QED
    BY <2>1, <2>2
<1> HIDE DEF g
<1>2. lruKeys(g) = {e.key : e \in ToSet(g)} /\ lruKeys(l) = {e.key : e \in ToSet(l)}
  BY <1>0
<1>3. lruKeys(g) = lruKeys(l) \ {k}
  BY <1>1, <1>2
<1> QED
  BY <1>1, <1>3 DEF g

LEMMA FrontLru ==
  ASSUME NEW l, Lru(l), NEW k \in CacheKey, NEW v \in CacheValue \union {0}
  PROVE  LET g == MoveToFront(l, k, v)
         IN /\ Lru(g) /\ Len(g) = IF contains(l, k) THEN Len(l) ELSE Len(l) + 1
            /\ ToSet(g) = {e \in ToSet(l) : e.key # k} \union {[key |-> k, value |-> v]}
            /\ lruKeys(g) = lruKeys(l) \union {k}
<1> DEFINE g == MoveToFront(l, k, v)
           h == removeKey(l, k)
           e0 == [key |-> k, value |-> v]
<1>1. /\ Lru(h) /\ Len(h) = IF contains(l, k) THEN Len(l) - 1 ELSE Len(l)
      /\ ToSet(h) = {e \in ToSet(l) : e.key # k} /\ lruKeys(h) = lruKeys(l) \ {k}
  BY RemoveKeyLru
<1>2. Len(l) \in Nat /\ Len(h) \in Nat /\ h \in Seq(Item)
  BY <1>1 DEF Lru
<1>3. e0 \in Item /\ e0.key = k
  BY DEF Item
<1>4. g = <<e0>> \o h
  BY DEF MoveToFront
<1> HIDE DEF g, h, e0
<1>5. /\ g \in Seq(Item) /\ Len(g) = 1 + Len(h)
      /\ \A i \in 1 .. 1 + Len(h) : g[i] = IF i <= 1 THEN <<e0>>[i] ELSE h[i - 1]
  <2>1. <<e0>> \in Seq(Item) /\ Len(<<e0>>) = 1
    BY <1>3
  <2> QED
    BY <1>2, <1>4, <2>1, ConcatProperties
<1>6. g[1] = e0 /\ \A i \in 1 .. Len(h) : g[i + 1] = h[i]
  <2>1. g[1] = e0
    BY <1>2, <1>5
  <2>2. ASSUME NEW i \in 1 .. Len(h) PROVE g[i + 1] = h[i]
    <3>1. i + 1 \in 1 .. 1 + Len(h) /\ ~(i + 1 <= 1) /\ i + 1 - 1 = i
      BY <1>2
    <3> QED
      BY <1>5, <3>1
  <2> QED
    BY <2>1, <2>2
<1>7. DOMAIN h = 1 .. Len(h) /\ DOMAIN g = 1 .. 1 + Len(h)
  BY <1>2, <1>5
<1>8. ToSet(g) = ToSet(h) \union {e0}
  <2>1. ToSet(h) = {h[i] : i \in 1 .. Len(h)} /\ ToSet(g) = {g[i] : i \in 1 .. 1 + Len(h)}
    BY <1>7 DEF ToSet
  <2>2. \A i \in 1 .. 1 + Len(h) : g[i] = e0 \/ \E j \in 1 .. Len(h) : g[i] = h[j]
    <3> SUFFICES ASSUME NEW i \in 1 .. 1 + Len(h), i # 1
                 PROVE  \E j \in 1 .. Len(h) : g[i] = h[j]
      BY <1>6
    <3>1. i - 1 \in 1 .. Len(h) /\ i - 1 + 1 = i
      BY <1>2
    <3> QED
      BY <1>6, <3>1
  <2>3. \A j \in 1 .. Len(h) : j + 1 \in 1 .. 1 + Len(h)
    BY <1>2
  <2>4. 1 \in 1 .. 1 + Len(h)
    BY <1>2
  <2>5. \A e \in ToSet(g) : e \in ToSet(h) \union {e0}
    BY <2>1, <2>2
  <2>6. \A e \in ToSet(h) : e \in ToSet(g)
    BY <1>6, <2>1, <2>3
  <2>7. e0 \in ToSet(g)
    BY <1>6, <2>1, <2>4
  <2> QED
    BY <2>5, <2>6, <2>7
<1>9. \A j \in 1 .. Len(h) : h[j].key # k
  BY <1>1, <1>7 DEF ToSet
<1>10. Lru(g)
  <2> SUFFICES ASSUME NEW i \in 1 .. 1 + Len(h), NEW j \in 1 .. 1 + Len(h),
                      g[i].key = g[j].key
               PROVE  i = j
    BY <1>5 DEF Lru
  <2>0. \A x \in 1 .. 1 + Len(h) : x # 1 =>
          x - 1 \in 1 .. Len(h) /\ g[x] = h[x - 1] /\ g[x].key # k
    <3> SUFFICES ASSUME NEW x \in 1 .. 1 + Len(h), x # 1
                 PROVE  x - 1 \in 1 .. Len(h) /\ g[x] = h[x - 1] /\ g[x].key # k
      OBVIOUS
    <3>1. x - 1 \in 1 .. Len(h) /\ x - 1 + 1 = x
      BY <1>2
    <3> QED
      BY <1>6, <1>9, <3>1
  <2>1. CASE i = 1 \/ j = 1
    BY <1>3, <1>6, <2>0, <2>1
  <2>2. CASE i # 1 /\ j # 1
    <3>1. i - 1 \in 1 .. Len(h) /\ j - 1 \in 1 .. Len(h) /\ h[i - 1].key = h[j - 1].key
      BY <2>0, <2>2
    <3>2. i - 1 = j - 1
      BY <1>1, <3>1 DEF Lru
    <3> QED
      BY <1>2, <3>2
  <2> QED
    BY <2>1, <2>2
<1>11. lruKeys(g) = lruKeys(l) \union {k}
  <2>1. lruKeys(g) = {e.key : e \in ToSet(g)} /\ lruKeys(h) = {e.key : e \in ToSet(h)}
    BY DEF lruKeys, ToSet
  <2>2. lruKeys(g) = lruKeys(h) \union {k}
    BY <1>3, <1>8, <2>1
  <2> QED
    BY <1>1, <2>2
<1>12. Len(g) = IF contains(l, k) THEN Len(l) ELSE Len(l) + 1
  BY <1>1, <1>2, <1>5
<1> QED
  BY <1>1, <1>8, <1>10, <1>11, <1>12 DEF g, e0

LEMMA OldestLru ==
  ASSUME NEW l, Lru(l), l # <<>>
  PROVE  LET g == removeOldest(l)
             e0 == l[Len(l)]
         IN /\ Lru(g) /\ Len(g) = Len(l) - 1 /\ Len(l) > 0 /\ e0 \in ToSet(l) /\ e0 \in Item
            /\ ToSet(g) = {e \in ToSet(l) : e.key # e0.key}
            /\ lruKeys(g) = lruKeys(l) \ {e0.key}
<1> DEFINE g == removeOldest(l)
           n == Len(l)
<1>1. l \in Seq(Item) /\ n \in Nat /\ n > 0 /\ DOMAIN l = 1 .. n
  BY DEF Lru
<1>2. g = SubSeq(l, 1, n - 1)
  BY DEF removeOldest
<1> HIDE DEF g
<1>3. g \in Seq(Item) /\ Len(g) = n - 1 /\ \A i \in 1 .. n - 1 : g[i] = l[i]
  <2>1. g \in Seq(Item) /\ Len(g) = n - 1
    BY <1>1, <1>2
  <2>2. \A i \in 1 .. n - 1 : g[i] = l[i]
    BY <1>1, <1>2
  <2> QED
    BY <2>1, <2>2
<1>4. \A i, j \in 1 .. n : l[i].key = l[j].key => i = j
  BY DEF Lru
<1>5. Lru(g)
  BY <1>1, <1>3, <1>4 DEF Lru
<1>6. ToSet(l) = {l[i] : i \in 1 .. n} /\ ToSet(g) = {g[i] : i \in 1 .. n - 1}
  <2>1. DOMAIN g = 1 .. n - 1
    BY <1>3
  <2> QED
    BY <1>1, <2>1 DEF ToSet
<1>7. ToSet(g) = {e \in ToSet(l) : e.key # l[n].key}
  <2>0. n \in 1 .. n
    BY <1>1
  <2>1. \A i \in 1 .. n : (i \in 1 .. n - 1 <=> i # n) /\ (i # n <=> l[i].key # l[n].key)
    <3> SUFFICES ASSUME NEW i \in 1 .. n
                 PROVE  (i \in 1 .. n - 1 <=> i # n) /\ (i # n <=> l[i].key # l[n].key)
      OBVIOUS
    <3>0. n \in Nat
      BY <1>1
    <3>1. i \in 1 .. n - 1 <=> i # n
      <4> HIDE DEF n
      <4> QED
        BY <3>0
    <3>2. l[i].key = l[n].key => i = n
      BY <1>4, <2>0
    <3> QED
      BY <3>1, <3>2
  <2>2. \A i \in 1 .. n - 1 : i \in 1 .. n
    BY <1>1
  <2>3. \A e \in ToSet(g) : e \in ToSet(l) /\ e.key # l[n].key
    BY <1>3, <1>6, <2>1, <2>2
  <2>4. \A e \in ToSet(l) : e.key # l[n].key => e \in ToSet(g)
    BY <1>3, <1>6, <2>1
  <2> QED
    BY <2>3, <2>4
<1>8. l[n] \in ToSet(l) /\ l[n] \in Item
  BY <1>1, <1>6
<1>9. lruKeys(g) = lruKeys(l) \ {l[n].key}
  <2>1. lruKeys(g) = {e.key : e \in ToSet(g)} /\ lruKeys(l) = {e.key : e \in ToSet(l)}
    BY DEF lruKeys, ToSet
  <2> QED
    BY <1>7, <2>1
<1> QED
  BY <1>1, <1>3, <1>5, <1>7, <1>8, <1>9 DEF g

(***************************************************************************)
(* The 2Q cache.  lp(k) stands for what lastPut holds: the value that was  *)
(* last put under a key.                                                   *)
(***************************************************************************)
Fresh(l, lp) == \A e \in ToSet(l) : e.value = lp[e.key].value

TwoQueueInv(q, lp) ==
  /\ q \in [recent : Seq(Item), frequent : Seq(Item), ghost : Seq(Item)]
  /\ Lru(q.recent) /\ Lru(q.frequent) /\ Lru(q.ghost)
  /\ lruKeys(q.recent) \intersect lruKeys(q.frequent) = {}
  /\ lruKeys(q.recent) \intersect lruKeys(q.ghost) = {}
  /\ lruKeys(q.frequent) \intersect lruKeys(q.ghost) = {}
  /\ Len(q.recent) + Len(q.frequent) <= cacheSize
  /\ Len(q.ghost) <= ghostSize
  /\ Fresh(q.recent, lp) /\ Fresh(q.frequent, lp)

LEMMA Sizes ==
  /\ cacheSize \in Nat /\ cacheSize >= 2
  /\ recentSize \in Nat /\ recentSize < cacheSize /\ ghostSize \in Nat /\ ghostSize >= 1
  BY CachesAssumption DEF recentSize, ghostSize

LEMMA LruLen ==
  ASSUME NEW l, Lru(l)
  PROVE  l \in Seq(Item) /\ Len(l) \in Nat /\ (Len(l) > 0 <=> l # <<>>)
  BY DEF Lru

(* A list with room for the key, or that has it already, evicts nothing. *)
LEMMA PutWithRoom ==
  ASSUME NEW l, Lru(l), NEW k \in CacheKey, NEW v \in CacheValue \union {0},
         NEW max \in Nat, (IF contains(l, k) THEN Len(l) ELSE Len(l) + 1) <= max
  PROVE  lruPut(l, max, k, v) = MoveToFront(l, k, v)
<1>1. Len(MoveToFront(l, k, v)) <= max /\ Len(MoveToFront(l, k, v)) \in Nat
  BY FrontLru, LruLen
<1> QED
  BY <1>1 DEF lruPut

(* A key that goes to the ghosts. *)
LEMMA PutGhost ==
  ASSUME NEW l, Lru(l), Len(l) <= ghostSize, NEW k \in CacheKey
  PROVE  LET g == lruPut(l, ghostSize, k, 0)
         IN Lru(g) /\ Len(g) <= ghostSize /\ lruKeys(g) \subseteq lruKeys(l) \union {k}
<1> DEFINE h == MoveToFront(l, k, 0)
<1>1. Lru(h) /\ Len(h) <= Len(l) + 1 /\ lruKeys(h) = lruKeys(l) \union {k} /\ Len(h) \in Nat
  BY FrontLru, LruLen
<1>2. lruPut(l, ghostSize, k, 0) =
        IF Len(h) > ghostSize THEN removeOldest(h) ELSE h
  BY Sizes DEF lruPut
<1> HIDE DEF h
<1>3. CASE Len(h) > ghostSize
  <2>1. h # <<>>
    BY <1>1, <1>3, LruLen, Sizes
  <2>2. Lru(removeOldest(h)) /\ Len(removeOldest(h)) = Len(h) - 1
        /\ lruKeys(removeOldest(h)) \subseteq lruKeys(h)
    BY <1>1, <2>1, OldestLru
  <2>3. Len(l) \in Nat
    BY LruLen
  <2> QED
    BY <1>1, <1>2, <1>3, <2>2, <2>3, Sizes
<1>4. CASE ~(Len(h) > ghostSize)
  BY <1>1, <1>2, <1>4, Sizes
<1> QED
  BY <1>3, <1>4

LEMMA FreshPart ==
  ASSUME NEW l, NEW g, NEW lp, Fresh(l, lp), ToSet(g) \subseteq ToSet(l)
  PROVE  Fresh(g, lp)
  BY DEF Fresh

LEMMA EnsureSpace ==
  ASSUME NEW q, NEW lp, TwoQueueInv(q, lp), NEW b \in BOOLEAN
  PROVE  LET q1 == ensureSpace(q, b)
         IN /\ TwoQueueInv(q1, lp)
            /\ Len(q1.recent) + Len(q1.frequent) + 1 <= cacheSize
            /\ lruKeys(q1.recent) \subseteq lruKeys(q.recent)
            /\ lruKeys(q1.frequent) \subseteq lruKeys(q.frequent)
            /\ lruKeys(q1.ghost) \subseteq lruKeys(q.ghost) \union lruKeys(q.recent)
<1> DEFINE r == Len(q.recent)
           f == Len(q.frequent)
           q1 == ensureSpace(q, b)
<1>1. r \in Nat /\ f \in Nat /\ r + f <= cacheSize
      /\ (r > 0 <=> q.recent # <<>>) /\ (f > 0 <=> q.frequent # <<>>)
  BY LruLen DEF TwoQueueInv
<1> HIDE DEF r, f
<1>2. CASE r + f < cacheSize
  <2>1. q1 = q
    BY <1>2 DEF ensureSpace, r, f
  <2>2. r + f + 1 <= cacheSize
    BY <1>1, <1>2, Sizes
  <2> QED
    BY <2>1, <2>2 DEF r, f
<1>3. CASE ~(r + f < cacheSize) /\ r > 0 /\ (r > recentSize \/ (r = recentSize /\ ~b))
  <2> DEFINE e == q.recent[r]
             rc == removeOldest(q.recent)
             gh == lruPut(q.ghost, ghostSize, e.key, 0)
  <2>1. q1 = [q EXCEPT !.recent = rc, !.ghost = gh]
    BY <1>3 DEF ensureSpace, r, f
  <2>2. /\ Lru(rc) /\ Len(rc) = r - 1 /\ e \in ToSet(q.recent) /\ e \in Item
        /\ ToSet(rc) \subseteq ToSet(q.recent) /\ lruKeys(rc) = lruKeys(q.recent) \ {e.key}
    BY <1>1, <1>3, OldestLru DEF TwoQueueInv, r
  <2>3. e.key \in CacheKey /\ e.key \in lruKeys(q.recent)
    <3>1. lruKeys(q.recent) = {x.key : x \in ToSet(q.recent)}
      BY DEF lruKeys, ToSet
    <3>2. e.key \in CacheKey
      BY <2>2 DEF Item
    <3> QED
      BY <2>2, <3>1, <3>2
  <2> HIDE DEF e
  <2>4. /\ Lru(gh) /\ Len(gh) <= ghostSize
        /\ lruKeys(gh) \subseteq lruKeys(q.ghost) \union {e.key}
    BY <2>3, PutGhost DEF TwoQueueInv
  <2> HIDE DEF gh, rc
  <2>5. q1 = [recent |-> rc, frequent |-> q.frequent, ghost |-> gh]
    BY <2>1 DEF TwoQueueInv
  <2> HIDE DEF q1
  <2>6. q1.recent = rc /\ q1.frequent = q.frequent /\ q1.ghost = gh
        /\ q1 \in [recent : Seq(Item), frequent : Seq(Item), ghost : Seq(Item)]
    BY <2>2, <2>4, <2>5 DEF TwoQueueInv, Lru
  <2>7. Fresh(rc, lp)
    BY <2>2, FreshPart DEF TwoQueueInv
  <2>8. Len(rc) + f <= cacheSize /\ Len(rc) + f + 1 <= cacheSize
    BY <1>1, <2>2, Sizes
  <2>9. /\ lruKeys(rc) \intersect lruKeys(q.frequent) = {}
        /\ lruKeys(rc) \intersect lruKeys(gh) = {}
        /\ lruKeys(q.frequent) \intersect lruKeys(gh) = {}
    BY <2>2, <2>3, <2>4 DEF TwoQueueInv
  <2>10. TwoQueueInv(q1, lp)
    BY <2>2, <2>4, <2>6, <2>7, <2>8, <2>9 DEF TwoQueueInv, f
  <2> QED
    BY <2>2, <2>3, <2>4, <2>6, <2>8, <2>10 DEF q1, f
<1>4. CASE ~(r + f < cacheSize) /\ ~(r > 0 /\ (r > recentSize \/ (r = recentSize /\ ~b)))
  <2> DEFINE fr == removeOldest(q.frequent)
  <2>1. q1 = [q EXCEPT !.frequent = fr]
    BY <1>4 DEF ensureSpace, r, f
  <2>2. q.frequent # <<>>
    <3>1. r <= recentSize
      BY <1>1, <1>4, Sizes
    <3> QED
      BY <1>1, <1>4, <3>1, Sizes
  <2>3. /\ Lru(fr) /\ Len(fr) = f - 1
        /\ ToSet(fr) \subseteq ToSet(q.frequent) /\ lruKeys(fr) \subseteq lruKeys(q.frequent)
    BY <2>2, OldestLru DEF TwoQueueInv, f
  <2> HIDE DEF fr
  <2>4. q1 = [recent |-> q.recent, frequent |-> fr, ghost |-> q.ghost]
    BY <2>1 DEF TwoQueueInv
  <2> HIDE DEF q1
  <2>5. q1.recent = q.recent /\ q1.frequent = fr /\ q1.ghost = q.ghost
        /\ q1 \in [recent : Seq(Item), frequent : Seq(Item), ghost : Seq(Item)]
    BY <2>3, <2>4 DEF TwoQueueInv, Lru
  <2>6. Fresh(fr, lp)
    BY <2>3, FreshPart DEF TwoQueueInv
  <2>7. r + Len(fr) <= cacheSize /\ r + Len(fr) + 1 <= cacheSize
    BY <1>1, <2>3, Sizes
  <2>8. /\ lruKeys(q.recent) \intersect lruKeys(fr) = {}
        /\ lruKeys(fr) \intersect lruKeys(q.ghost) = {}
    BY <2>3 DEF TwoQueueInv
  <2>9. TwoQueueInv(q1, lp)
    BY <2>3, <2>5, <2>6, <2>7, <2>8 DEF TwoQueueInv, r
  <2> QED
    BY <2>3, <2>5, <2>7, <2>9 DEF q1, r
<1> QED
  BY <1>2, <1>3, <1>4

(* lp1 is lp after v was put under k. *)
PutIn(lp, k, v, lp1) ==
  lp1[k].value = v /\ \A j \in CacheKey : j # k => lp1[j].value = lp[j].value

LEMMA FreshElsewhere ==
  ASSUME NEW l, Lru(l), NEW lp, NEW lp1, NEW k, NEW v, PutIn(lp, k, v, lp1),
         Fresh(l, lp), k \notin lruKeys(l)
  PROVE  Fresh(l, lp1)
<1>1. lruKeys(l) = {e.key : e \in ToSet(l)} /\ lruKeys(l) \subseteq CacheKey
  <2>1. lruKeys(l) = {e.key : e \in ToSet(l)}
    BY DEF lruKeys, ToSet
  <2> QED
    BY <2>1, LruKeys DEF Lru
<1>2. \A e \in ToSet(l) : e.key \in CacheKey /\ e.key # k
  BY <1>1
<1> QED
  BY <1>2 DEF Fresh, PutIn

LEMMA FreshFront ==
  ASSUME NEW l, Lru(l), NEW lp, NEW lp1, NEW k \in CacheKey,
         NEW v \in CacheValue \union {0}, PutIn(lp, k, v, lp1), Fresh(l, lp)
  PROVE  Fresh(MoveToFront(l, k, v), lp1)
<1> DEFINE g == MoveToFront(l, k, v)
<1>1. ToSet(g) = {e \in ToSet(l) : e.key # k} \union {[key |-> k, value |-> v]}
  BY FrontLru
<1>2. lruKeys(l) = {e.key : e \in ToSet(l)} /\ lruKeys(l) \subseteq CacheKey
  <2>1. lruKeys(l) = {e.key : e \in ToSet(l)}
    BY DEF lruKeys, ToSet
  <2> QED
    BY <2>1, LruKeys DEF Lru
<1> HIDE DEF g
<1>3. ASSUME NEW e \in ToSet(g) PROVE e.value = lp1[e.key].value
  <2>1. CASE e = [key |-> k, value |-> v]
    BY <2>1 DEF PutIn
  <2>2. CASE e \in ToSet(l) /\ e.key # k
    BY <1>2, <2>2 DEF PutIn, Fresh
  <2> QED
    BY <1>1, <2>1, <2>2
<1> QED
  BY <1>3 DEF Fresh, g

LEMMA FrequentPut ==
  ASSUME NEW q, NEW lp, NEW lp1, NEW k \in CacheKey, NEW v \in CacheValue \union {0},
         TwoQueueInv(q, lp), PutIn(lp, k, v, lp1),
         k \notin lruKeys(q.recent), k \notin lruKeys(q.ghost),
         contains(q.frequent, k) \/ Len(q.recent) + Len(q.frequent) + 1 <= cacheSize
  PROVE  TwoQueueInv(frequentPut(q, k, v), lp1)
<1> DEFINE f == MoveToFront(q.frequent, k, v)
           q1 == frequentPut(q, k, v)
<1>1. Len(q.recent) \in Nat /\ Len(q.frequent) \in Nat
  BY LruLen DEF TwoQueueInv
<1>2. /\ Lru(f) /\ lruKeys(f) = lruKeys(q.frequent) \union {k}
      /\ Len(f) = IF contains(q.frequent, k) THEN Len(q.frequent) ELSE Len(q.frequent) + 1
  BY FrontLru DEF TwoQueueInv
<1>3. Len(q.recent) + Len(f) <= cacheSize /\ Len(f) <= cacheSize
  <2> DEFINE a == Len(q.recent)
             b == Len(q.frequent)
  <2>1. a + b <= cacheSize
    BY DEF TwoQueueInv
  <2> HIDE DEF a, b, f
  <2>2. a \in Nat /\ b \in Nat /\ (Len(f) = b \/ (Len(f) = b + 1 /\ a + b + 1 <= cacheSize))
    BY <1>1, <1>2 DEF a, b
  <2>3. a + Len(f) <= cacheSize /\ Len(f) <= cacheSize
    BY <2>1, <2>2, Sizes
  <2> QED
    BY <2>3 DEF a
<1>4. lruPut(q.frequent, cacheSize, k, v) = f
  BY <1>2, <1>3, PutWithRoom, Sizes DEF TwoQueueInv
<1>5. Fresh(f, lp1)
  BY FreshFront DEF TwoQueueInv
<1>6. Fresh(q.recent, lp1)
  BY FreshElsewhere DEF TwoQueueInv
<1> HIDE DEF f
<1>7. q1 = [recent |-> q.recent, frequent |-> f, ghost |-> q.ghost]
  BY <1>4 DEF frequentPut, TwoQueueInv
<1> HIDE DEF q1
<1>8. q1.recent = q.recent /\ q1.frequent = f /\ q1.ghost = q.ghost
      /\ q1 \in [recent : Seq(Item), frequent : Seq(Item), ghost : Seq(Item)]
  BY <1>2, <1>7 DEF TwoQueueInv, Lru
<1>9. /\ lruKeys(q.recent) \intersect lruKeys(f) = {}
      /\ lruKeys(f) \intersect lruKeys(q.ghost) = {}
  BY <1>2 DEF TwoQueueInv
<1>10. TwoQueueInv(q1, lp1)
  BY <1>2, <1>3, <1>5, <1>6, <1>8, <1>9 DEF TwoQueueInv
<1> QED
  BY <1>10 DEF q1

LEMMA RecentPut ==
  ASSUME NEW q, NEW lp, NEW lp1, NEW k \in CacheKey, NEW v \in CacheValue \union {0},
         TwoQueueInv(q, lp), PutIn(lp, k, v, lp1),
         k \notin lruKeys(q.recent), k \notin lruKeys(q.frequent), k \notin lruKeys(q.ghost),
         Len(q.recent) + Len(q.frequent) + 1 <= cacheSize
  PROVE  TwoQueueInv([q EXCEPT !.recent = lruPut(@, cacheSize, k, v)], lp1)
<1> DEFINE r == MoveToFront(q.recent, k, v)
           q1 == [q EXCEPT !.recent = lruPut(@, cacheSize, k, v)]
<1>1. Len(q.recent) \in Nat /\ Len(q.frequent) \in Nat
  BY LruLen DEF TwoQueueInv
<1>2. /\ Lru(r) /\ lruKeys(r) = lruKeys(q.recent) \union {k}
      /\ Len(r) = Len(q.recent) + 1
  BY FrontLru DEF TwoQueueInv, contains
<1>3. Len(r) + Len(q.frequent) <= cacheSize /\ Len(q.recent) + 1 <= cacheSize
  <2> DEFINE a == Len(q.recent)
             b == Len(q.frequent)
  <2> HIDE DEF a, b, r
  <2>1. a \in Nat /\ b \in Nat /\ Len(r) = a + 1 /\ a + b + 1 <= cacheSize
    BY <1>1, <1>2 DEF a, b
  <2>2. Len(r) + b <= cacheSize /\ a + 1 <= cacheSize
    BY <2>1, Sizes
  <2> QED
    BY <2>2 DEF a, b
<1>4. lruPut(q.recent, cacheSize, k, v) = r
  BY <1>3, PutWithRoom, Sizes DEF TwoQueueInv, contains
<1>5. Fresh(r, lp1)
  BY FreshFront DEF TwoQueueInv
<1>6. Fresh(q.frequent, lp1)
  BY FreshElsewhere DEF TwoQueueInv
<1> HIDE DEF r
<1>7. q1 = [recent |-> r, frequent |-> q.frequent, ghost |-> q.ghost]
  BY <1>4 DEF TwoQueueInv
<1> HIDE DEF q1
<1>8. q1.recent = r /\ q1.frequent = q.frequent /\ q1.ghost = q.ghost
      /\ q1 \in [recent : Seq(Item), frequent : Seq(Item), ghost : Seq(Item)]
  BY <1>2, <1>7 DEF TwoQueueInv, Lru
<1>9. /\ lruKeys(r) \intersect lruKeys(q.frequent) = {}
      /\ lruKeys(r) \intersect lruKeys(q.ghost) = {}
  BY <1>2 DEF TwoQueueInv
<1>10. TwoQueueInv(q1, lp1)
  BY <1>2, <1>3, <1>5, <1>6, <1>8, <1>9 DEF TwoQueueInv
<1> QED
  BY <1>10 DEF q1

(* Taking a key out of one of the lists. *)
TakenOut(q, w, k, q1) == q1 = [q EXCEPT ![w] = removeKey(q[w], k)]

OnlyTaken(q, w, k, q1) ==
  /\ w = "recent" => /\ q1.frequent = q.frequent /\ q1.ghost = q.ghost
                     /\ lruKeys(q1.recent) = lruKeys(q.recent) \ {k}
                     /\ contains(q.recent, k) => Len(q1.recent) = Len(q.recent) - 1
  /\ w = "frequent" => /\ q1.recent = q.recent
                       /\ lruKeys(q1.frequent) = lruKeys(q.frequent) \ {k}
  /\ w = "ghost" => /\ q1.recent = q.recent /\ q1.frequent = q.frequent
                    /\ lruKeys(q1.ghost) = lruKeys(q.ghost) \ {k}

LEMMA TakeOut ==
  ASSUME NEW q, NEW lp, NEW k, TwoQueueInv(q, lp), NEW w \in {"recent", "frequent", "ghost"},
         NEW q1, TakenOut(q, w, k, q1)
  PROVE  TwoQueueInv(q1, lp) /\ OnlyTaken(q, w, k, q1)
<1> DEFINE l == removeKey(q[w], k)
<1>q. q1 = [q EXCEPT ![w] = removeKey(q[w], k)]
  BY DEF TakenOut
<1>0. q \in [recent : Seq(Item), frequent : Seq(Item), ghost : Seq(Item)]
      /\ Lru(q[w]) /\ Len(q[w]) \in Nat
  BY LruLen DEF TwoQueueInv
<1>1. /\ Lru(l) /\ lruKeys(l) = lruKeys(q[w]) \ {k} /\ ToSet(l) \subseteq ToSet(q[w])
      /\ Len(l) = IF contains(q[w], k) THEN Len(q[w]) - 1 ELSE Len(q[w])
  BY <1>0, RemoveKeyLru
<1>2. Len(l) <= Len(q[w]) /\ Len(l) \in Nat
  BY <1>0, <1>1, LruLen
<1>3. l \in Seq(Item)
  BY <1>1 DEF Lru
<1>4. q1[w] = l /\ \A x \in {"recent", "frequent", "ghost"} : x # w => q1[x] = q[x]
  BY <1>0, <1>q
<1> HIDE DEF l
<1>a. q.recent \in Seq(Item) /\ q.frequent \in Seq(Item) /\ q.ghost \in Seq(Item)
  BY <1>0
<1>5. q1 \in [recent : Seq(Item), frequent : Seq(Item), ghost : Seq(Item)]
  <2>1. CASE w = "recent"
    <3>1. q1 = [recent |-> l, frequent |-> q.frequent, ghost |-> q.ghost]
      BY <1>0, <1>q, <2>1 DEF l
    <3> QED
      BY <1>a, <1>3, <3>1
  <2>2. CASE w = "frequent"
    <3>1. q1 = [recent |-> q.recent, frequent |-> l, ghost |-> q.ghost]
      BY <1>0, <1>q, <2>2 DEF l
    <3> QED
      BY <1>a, <1>3, <3>1
  <2>3. CASE w = "ghost"
    <3>1. q1 = [recent |-> q.recent, frequent |-> q.frequent, ghost |-> l]
      BY <1>0, <1>q, <2>3 DEF l
    <3> QED
      BY <1>a, <1>3, <3>1
  <2> QED
    BY <2>1, <2>2, <2>3
<1>6. TwoQueueInv(q1, lp)
  <2>0. /\ Len(q.recent) \in Nat /\ Len(q.frequent) \in Nat /\ Len(q.ghost) \in Nat
    BY LruLen DEF TwoQueueInv
  <2>1. CASE w = "recent"
    <3>1. q1.recent = l /\ q1.frequent = q.frequent /\ q1.ghost = q.ghost
      BY <1>4, <2>1
    <3>2. Fresh(l, lp) /\ Len(l) + Len(q.frequent) <= cacheSize
      BY <1>1, <1>2, <2>0, <2>1, FreshPart, Sizes DEF TwoQueueInv
    <3> QED
      BY <1>1, <1>5, <2>1, <3>1, <3>2 DEF TwoQueueInv
  <2>2. CASE w = "frequent"
    <3>1. q1.recent = q.recent /\ q1.frequent = l /\ q1.ghost = q.ghost
      BY <1>4, <2>2
    <3>2. Fresh(l, lp) /\ Len(q.recent) + Len(l) <= cacheSize
      BY <1>1, <1>2, <2>0, <2>2, FreshPart, Sizes DEF TwoQueueInv
    <3> QED
      BY <1>1, <1>5, <2>2, <3>1, <3>2 DEF TwoQueueInv
  <2>3. CASE w = "ghost"
    <3>1. q1.recent = q.recent /\ q1.frequent = q.frequent /\ q1.ghost = l
      BY <1>4, <2>3
    <3>2. Len(l) <= ghostSize
      BY <1>1, <1>2, <2>0, <2>3, Sizes DEF TwoQueueInv
    <3> QED
      BY <1>1, <1>5, <2>3, <3>1, <3>2 DEF TwoQueueInv
  <2> QED
    BY <2>1, <2>2, <2>3
<1>7. CASE w = "recent"
  <2>1. q1.recent = l /\ q1.frequent = q.frequent /\ q1.ghost = q.ghost
    BY <1>4, <1>7
  <2> QED
    BY <1>1, <1>6, <1>7, <2>1 DEF OnlyTaken
<1>8. CASE w = "frequent"
  <2>1. q1.recent = q.recent /\ q1.frequent = l
    BY <1>4, <1>8
  <2> QED
    BY <1>1, <1>6, <1>8, <2>1 DEF OnlyTaken
<1>9. CASE w = "ghost"
  <2>1. q1.recent = q.recent /\ q1.frequent = q.frequent /\ q1.ghost = l
    BY <1>4, <1>9
  <2> QED
    BY <1>1, <1>6, <1>9, <2>1 DEF OnlyTaken
<1> QED
  BY <1>7, <1>8, <1>9

LEMMA Promote ==
  ASSUME NEW q, NEW lp, NEW lp1, NEW k \in CacheKey, NEW v \in CacheValue \union {0},
         TwoQueueInv(q, lp), PutIn(lp, k, v, lp1), contains(q.recent, k)
  PROVE  TwoQueueInv(promote(q, k, v), lp1)
<1>0. PICK q1 : TakenOut(q, "recent", k, q1)
  BY DEF TakenOut
<1>2. promote(q, k, v) = frequentPut(q1, k, v)
  BY <1>0 DEF promote, TakenOut
<1>1. /\ TwoQueueInv(q1, lp) /\ lruKeys(q1.recent) = lruKeys(q.recent) \ {k}
      /\ q1.frequent = q.frequent /\ q1.ghost = q.ghost
      /\ Len(q1.recent) = Len(q.recent) - 1
  <2>1. TwoQueueInv(q1, lp) /\ OnlyTaken(q, "recent", k, q1)
    BY <1>0, TakeOut
  <2> QED
    BY <2>1 DEF OnlyTaken
<1>3. Len(q1.recent) + Len(q1.frequent) + 1 <= cacheSize
  <2> DEFINE a == Len(q.recent)
             b == Len(q.frequent)
  <2>1. a \in Nat /\ b \in Nat /\ a + b <= cacheSize
    BY LruLen DEF TwoQueueInv
  <2>2. Len(q1.recent) = a - 1 /\ Len(q1.frequent) = b
    BY <1>1
  <2> HIDE DEF a, b
  <2> QED
    BY <2>1, <2>2, Sizes
<1>4. k \notin lruKeys(q1.recent) /\ k \notin lruKeys(q1.ghost)
  BY <1>1 DEF TwoQueueInv, contains
<1>5. TwoQueueInv(q1, lp)
  BY <1>1
<1>6. TwoQueueInv(frequentPut(q1, k, v), lp1)
  BY <1>3, <1>4, <1>5, FrequentPut
<1> QED
  BY <1>2, <1>6

LEMMA TwoQueuePutInv ==
  ASSUME NEW q, NEW lp, NEW lp1, NEW k \in CacheKey, NEW v \in CacheValue \union {0},
         TwoQueueInv(q, lp), PutIn(lp, k, v, lp1)
  PROVE  TwoQueueInv(TwoQueuePut(q, k, v), lp1)
<1>1. CASE contains(q.frequent, k)
  <2>1. TwoQueuePut(q, k, v) = frequentPut(q, k, v)
    BY <1>1 DEF TwoQueuePut
  <2>2. k \notin lruKeys(q.recent) /\ k \notin lruKeys(q.ghost)
    BY <1>1 DEF contains, TwoQueueInv
  <2> QED
    BY <1>1, <2>1, <2>2, FrequentPut
<1>2. CASE ~contains(q.frequent, k) /\ contains(q.recent, k)
  <2>1. TwoQueuePut(q, k, v) = promote(q, k, v)
    BY <1>2 DEF TwoQueuePut
  <2> QED
    BY <1>2, <2>1, Promote
<1>3. CASE ~contains(q.frequent, k) /\ ~contains(q.recent, k) /\ contains(q.ghost, k)
  <2>q. PICK q1 : q1 = ensureSpace(q, TRUE)
    OBVIOUS
  <2>0. PICK q2 : TakenOut(q1, "ghost", k, q2)
    BY DEF TakenOut
  <2>1. TwoQueuePut(q, k, v) = frequentPut(q2, k, v)
    BY <1>3, <2>q, <2>0 DEF TwoQueuePut, TakenOut
  <2>2. /\ TwoQueueInv(q1, lp) /\ Len(q1.recent) + Len(q1.frequent) + 1 <= cacheSize
        /\ lruKeys(q1.recent) \subseteq lruKeys(q.recent)
    BY <2>q, EnsureSpace
  <2>3. /\ TwoQueueInv(q2, lp) /\ lruKeys(q2.ghost) = lruKeys(q1.ghost) \ {k}
        /\ q2.recent = q1.recent /\ q2.frequent = q1.frequent
    <3>1. TwoQueueInv(q2, lp) /\ OnlyTaken(q1, "ghost", k, q2)
      BY <2>0, <2>2, TakeOut
    <3> QED
      BY <3>1 DEF OnlyTaken
  <2>4. k \notin lruKeys(q2.recent) /\ k \notin lruKeys(q2.ghost)
    BY <1>3, <2>2, <2>3 DEF contains
  <2>5. Len(q2.recent) + Len(q2.frequent) + 1 <= cacheSize
    BY <2>2, <2>3
  <2>6. TwoQueueInv(q2, lp)
    BY <2>3
  <2>7. TwoQueueInv(frequentPut(q2, k, v), lp1)
    BY <2>4, <2>5, <2>6, FrequentPut
  <2> QED
    BY <2>1, <2>7
<1>4. CASE ~contains(q.frequent, k) /\ ~contains(q.recent, k) /\ ~contains(q.ghost, k)
  <2>q. PICK q1 : q1 = ensureSpace(q, FALSE)
    OBVIOUS
  <2>1. TwoQueuePut(q, k, v) = [q1 EXCEPT !.recent = lruPut(@, cacheSize, k, v)]
    BY <1>4, <2>q DEF TwoQueuePut
  <2>2. /\ TwoQueueInv(q1, lp) /\ Len(q1.recent) + Len(q1.frequent) + 1 <= cacheSize
        /\ lruKeys(q1.recent) \subseteq lruKeys(q.recent)
        /\ lruKeys(q1.frequent) \subseteq lruKeys(q.frequent)
        /\ lruKeys(q1.ghost) \subseteq lruKeys(q.ghost) \union lruKeys(q.recent)
    BY <2>q, EnsureSpace
  <2>3. k \notin lruKeys(q1.recent) /\ k \notin lruKeys(q1.frequent) /\ k \notin lruKeys(q1.ghost)
    BY <1>4, <2>2 DEF contains
  <2>4. TwoQueueInv([q1 EXCEPT !.recent = lruPut(@, cacheSize, k, v)], lp1)
    BY <2>2, <2>3, RecentPut
  <2> QED
    BY <2>1, <2>4
<1> QED
  BY <1>1, <1>2, <1>3, <1>4

LEMMA PeekFresh ==
  ASSUME NEW l, Lru(l), NEW lp, Fresh(l, lp), NEW k, contains(l, k)
  PROVE  Peek(l, k) = lp[k].value /\ Peek(l, k) \in CacheValue \union {0}
<1>1. find(l, k) \in 1 .. Len(l) /\ l[find(l, k)].key = k /\ l \in Seq(Item)
  BY Finds DEF Lru
<1> DEFINE e == l[find(l, k)]
<1>2. e \in ToSet(l) /\ e \in Item
  BY <1>1 DEF ToSet
<1>3. Peek(l, k) = e.value /\ e.key = k
  BY <1>1 DEF Peek
<1> HIDE DEF e
<1> QED
  BY <1>2, <1>3 DEF Fresh, Item

LEMMA TwoQueueGetInv ==
  ASSUME NEW q, NEW lp, NEW k \in CacheKey, TwoQueueInv(q, lp)
  PROVE  TwoQueueInv(TwoQueueGet(q, k), lp)
<1>1. CASE contains(q.frequent, k)
  <2> DEFINE v == Peek(q.frequent, k)
  <2>1. v = lp[k].value /\ v \in CacheValue \union {0}
    BY <1>1, PeekFresh DEF TwoQueueInv
  <2>2. TwoQueueGet(q, k) = [q EXCEPT !.frequent = MoveToFront(q.frequent, k, v)]
    BY <1>1 DEF TwoQueueGet
  <2> HIDE DEF v
  <2>3. k \notin lruKeys(q.recent) /\ k \notin lruKeys(q.ghost)
    BY <1>1 DEF contains, TwoQueueInv
  <2>4. PutIn(lp, k, v, lp)
    BY <2>1 DEF PutIn
  <2>5. TwoQueueInv(frequentPut(q, k, v), lp)
    BY <1>1, <2>1, <2>3, <2>4, FrequentPut
  <2>6. Len(q.frequent) <= cacheSize /\ Len(q.frequent) \in Nat
    BY LruLen, Sizes DEF TwoQueueInv
  <2>7. lruPut(q.frequent, cacheSize, k, v) = MoveToFront(q.frequent, k, v)
    BY <1>1, <2>1, <2>6, PutWithRoom, Sizes DEF TwoQueueInv
  <2>8. frequentPut(q, k, v) = TwoQueueGet(q, k)
    BY <2>2, <2>7 DEF frequentPut
  <2> QED
    BY <2>5, <2>8
<1>2. CASE ~contains(q.frequent, k) /\ contains(q.recent, k)
  <2> DEFINE v == Peek(q.recent, k)
  <2>1. v = lp[k].value /\ v \in CacheValue \union {0}
    BY <1>2, PeekFresh DEF TwoQueueInv
  <2>2. TwoQueueGet(q, k) = promote(q, k, v)
    BY <1>2 DEF TwoQueueGet
  <2> HIDE DEF v
  <2>3. PutIn(lp, k, v, lp)
    BY <2>1 DEF PutIn
  <2> QED
    BY <1>2, <2>1, <2>2, <2>3, Promote
<1>3. CASE ~contains(q.frequent, k) /\ ~contains(q.recent, k)
  BY <1>3 DEF TwoQueueGet
<1> QED
  BY <1>1, <1>2, <1>3

LEMMA TwoQueueRemoveInv ==
  ASSUME NEW q, NEW lp, NEW lp1, NEW k \in CacheKey, NEW v, TwoQueueInv(q, lp),
         PutIn(lp, k, v, lp1)
  PROVE  TwoQueueInv(TwoQueueRemove(q, k), lp1)
<1>0. PICK q1 : q1 = TwoQueueRemove(q, k)
  OBVIOUS
<1>1. TwoQueueInv(q1, lp) /\ k \notin lruKeys(q1.recent) /\ k \notin lruKeys(q1.frequent)
  <2>1. CASE contains(q.frequent, k)
    <3>1. TakenOut(q, "frequent", k, q1)
      BY <1>0, <2>1 DEF TwoQueueRemove, TakenOut
    <3>2. k \notin lruKeys(q.recent)
      BY <2>1 DEF contains, TwoQueueInv
    <3>3. TwoQueueInv(q1, lp) /\ OnlyTaken(q, "frequent", k, q1)
      BY <3>1, TakeOut
    <3> QED
      BY <3>2, <3>3 DEF OnlyTaken
  <2>2. CASE ~contains(q.frequent, k) /\ contains(q.recent, k)
    <3>1. TakenOut(q, "recent", k, q1)
      BY <1>0, <2>2 DEF TwoQueueRemove, TakenOut
    <3>2. k \notin lruKeys(q.frequent)
      BY <2>2 DEF contains
    <3>3. TwoQueueInv(q1, lp) /\ OnlyTaken(q, "recent", k, q1)
      BY <3>1, TakeOut
    <3> QED
      BY <3>2, <3>3 DEF OnlyTaken
  <2>3. CASE ~contains(q.frequent, k) /\ ~contains(q.recent, k)
    <3>1. TakenOut(q, "ghost", k, q1)
      BY <1>0, <2>3 DEF TwoQueueRemove, TakenOut
    <3>2. k \notin lruKeys(q.frequent) /\ k \notin lruKeys(q.recent)
      BY <2>3 DEF contains
    <3>3. TwoQueueInv(q1, lp) /\ OnlyTaken(q, "ghost", k, q1)
      BY <3>1, TakeOut
    <3> QED
      BY <3>2, <3>3 DEF OnlyTaken
  <2> QED
    BY <2>1, <2>2, <2>3
<1>2. Fresh(q1.recent, lp1) /\ Fresh(q1.frequent, lp1)
  BY <1>1, FreshElsewhere DEF TwoQueueInv
<1>3. TwoQueueInv(q1, lp1)
  BY <1>1, <1>2 DEF TwoQueueInv
<1> QED
  BY <1>0, <1>3

(***************************************************************************)
(* The TTL cache.  An entry that is not there was never put, was taken     *)
(* out, or was collected after its time.                                   *)
(***************************************************************************)
TTLEntry(item, put, t) ==
  /\ put.at = -1 => item = NoItem
  /\ put.at # -1 => \/ item.expire = put.at + ttl
                    \/ item = NoItem /\ put.at + ttl < t

Put == [value : CacheValue \union {0}, at : Nat \union {-1}]

TTLInv ==
  /\ now \in Nat
  /\ DOMAIN lastPut = CacheKey /\ DOMAIN ttlItems = CacheKey
  /\ \A k \in CacheKey : lastPut[k] \in Put /\ ttlItems[k].expire \in Int
  /\ \A k \in CacheKey : TTLEntry(ttlItems[k], lastPut[k], now)

CachesSpec == CachesInit /\ [][CachesNext]_cacheSystem
CachesInv == TwoQueueInv(twoQueue, lastPut) /\ TTLInv

LEMMA NoExpiry == NoItem.expire = -1 /\ Never.at = -1 /\ Never.value = 0
  BY DEF NoItem, Never

LEMMA CachesInvSound == CachesInv => CachesSound
<1> SUFFICES ASSUME CachesInv PROVE CachesSound
  OBVIOUS
<1>1. TwoQueueInv(twoQueue, lastPut) /\ TTLInv
  BY DEF CachesInv
<1>2. /\ onlyOnce(twoQueue.recent) /\ onlyOnce(twoQueue.frequent) /\ onlyOnce(twoQueue.ghost)
  BY <1>1, LruOnce DEF TwoQueueInv
<1>3. ASSUME NEW k \in lruKeys(twoQueue.recent)
      PROVE  Peek(twoQueue.recent, k) = lastPut[k].value
  BY <1>1, <1>3, PeekFresh DEF TwoQueueInv, contains
<1>4. ASSUME NEW k \in lruKeys(twoQueue.frequent)
      PROVE  Peek(twoQueue.frequent, k) = lastPut[k].value
  BY <1>1, <1>4, PeekFresh DEF TwoQueueInv, contains
<1>5. TwoQueueSound
  BY <1>1, <1>2, <1>3, <1>4 DEF TwoQueueSound, TwoQueueInv, TwoQueueLen
<1>6. ASSUME NEW k \in CacheKey
      PROVE  TTLExists(k) <=> lastPut[k].at # -1 /\ now <= lastPut[k].at + ttl
  <2> DEFINE at == lastPut[k].at
             item == ttlItems[k]
  <2>1. /\ at \in Nat \union {-1} /\ now \in Nat /\ item.expire \in Int
        /\ at = -1 => item = NoItem
        /\ at # -1 => item.expire = at + ttl \/ (item = NoItem /\ at + ttl < now)
    BY <1>1 DEF TTLInv, TTLEntry, Put
  <2>2. item = NoItem => item.expire = -1
    BY NoExpiry
  <2>3. TTLExists(k) <=> item # NoItem /\ item.expire >= now
    BY DEF TTLExists
  <2> HIDE DEF at, item
  <2>4. TTLExists(k) <=> at # -1 /\ now <= at + ttl
    BY <2>1, <2>2, <2>3, CachesAssumption
  <2> QED
    BY <2>4 DEF at
<1>7. TTLSound
  BY <1>6 DEF TTLSound
<1> QED
  BY <1>5, <1>7 DEF CachesSound

LEMMA CachesInitInv == CachesInit => CachesInv
<1> SUFFICES ASSUME CachesInit PROVE CachesInv
  OBVIOUS
<1>1. Lru(<<>>) /\ lruKeys(<<>>) = {} /\ Fresh(<<>>, lastPut) /\ Len(<<>>) = 0
  <2>1. <<>> \in Seq(Item) /\ Len(<<>>) = 0 /\ DOMAIN <<>> = {}
    OBVIOUS
  <2>2. \A i \in 1 .. 0 : FALSE
    OBVIOUS
  <2> QED
    BY <2>1, <2>2 DEF Lru, lruKeys, Fresh, ToSet
<1>2. /\ twoQueue = [recent |-> <<>>, frequent |-> <<>>, ghost |-> <<>>]
      /\ twoQueue.recent = <<>> /\ twoQueue.frequent = <<>> /\ twoQueue.ghost = <<>>
  BY DEF CachesInit
<1>3. twoQueue \in [recent : Seq(Item), frequent : Seq(Item), ghost : Seq(Item)]
  BY <1>1, <1>2 DEF Lru
<1>4. TwoQueueInv(twoQueue, lastPut)
  BY <1>1, <1>2, <1>3, Sizes DEF TwoQueueInv
<1>5. TTLInv
  <2>1. now = 0 /\ \A k \in CacheKey : lastPut[k] = Never /\ ttlItems[k] = NoItem
    BY DEF CachesInit
  <2>2. Never \in Put
    BY DEF Never, Put
  <2> QED
    BY <2>1, <2>2, NoExpiry DEF CachesInit, TTLInv, TTLEntry
<1> QED
  BY <1>4, <1>5 DEF CachesInv

(* A call that leaves the entries of the other keys alone. *)
LEMMA OneEntry ==
  ASSUME TTLInv, now' = now, NEW k \in CacheKey, NEW item, NEW put,
         ttlItems' = [ttlItems EXCEPT ![k] = item], lastPut' = [lastPut EXCEPT ![k] = put],
         put \in Put, item.expire \in Int, TTLEntry(item, put, now)
  PROVE  TTLInv'
<1>1. DOMAIN ttlItems = CacheKey /\ DOMAIN lastPut = CacheKey
  BY DEF TTLInv
<1>2. DOMAIN ttlItems' = CacheKey /\ DOMAIN lastPut' = CacheKey
  BY <1>1
<1>3. ASSUME NEW j \in CacheKey
      PROVE  /\ lastPut'[j] \in Put /\ ttlItems'[j].expire \in Int
             /\ TTLEntry(ttlItems'[j], lastPut'[j], now)
  <2>1. CASE j = k
    <3>1. ttlItems'[j] = item /\ lastPut'[j] = put
      BY <1>1, <2>1
    <3> QED
      BY <3>1
  <2>2. CASE j # k
    <3>1. ttlItems'[j] = ttlItems[j] /\ lastPut'[j] = lastPut[j]
      BY <1>1, <2>2
    <3> QED
      BY <3>1 DEF TTLInv
  <2> QED
    BY <2>1, <2>2
<1> QED
  BY <1>2, <1>3 DEF TTLInv

LEMMA CachesStep == CachesInv /\ [CachesNext]_cacheSystem => CachesInv'
<1> SUFFICES ASSUME CachesInv, [CachesNext]_cacheSystem PROVE CachesInv'
  OBVIOUS
<1>0. TwoQueueInv(twoQueue, lastPut) /\ TTLInv
  BY DEF CachesInv
<1>1. ASSUME NEW k \in CacheKey, CacheGet(k) PROVE CachesInv'
  <2>1. twoQueue' = TwoQueueGet(twoQueue, k) /\ lastPut' = lastPut
        /\ ttlItems' = ttlItems /\ now' = now
    BY <1>1 DEF CacheGet
  <2>2. TwoQueueInv(TwoQueueGet(twoQueue, k), lastPut)
    BY <1>0, TwoQueueGetInv
  <2>3. TwoQueueInv(twoQueue', lastPut')
    BY <2>1, <2>2
  <2>4. TTLInv'
    BY <1>0, <2>1 DEF TTLInv
  <2> QED
    BY <2>3, <2>4 DEF CachesInv
<1>2. ASSUME NEW k \in CacheKey, CacheRemove(k) PROVE CachesInv'
  <2>1. /\ twoQueue' = TwoQueueRemove(twoQueue, k) /\ now' = now
        /\ ttlItems' = [ttlItems EXCEPT ![k] = NoItem]
        /\ lastPut' = [lastPut EXCEPT ![k] = Never]
    BY <1>2 DEF CacheRemove
  <2>2. PutIn(lastPut, k, 0, lastPut')
    BY <1>0, <2>1, NoExpiry DEF PutIn, TTLInv
  <2>3. TwoQueueInv(TwoQueueRemove(twoQueue, k), lastPut')
    BY <1>0, <2>2, TwoQueueRemoveInv
  <2>4. TwoQueueInv(twoQueue', lastPut')
    BY <2>1, <2>3
  <2>5. TTLEntry(NoItem, Never, now) /\ Never \in Put
    BY NoExpiry DEF TTLEntry, Never, Put
  <2>x. NoItem.expire \in Int
    BY NoExpiry
  <2>6. TTLInv'
    BY <1>0, <2>1, <2>5, <2>x, OneEntry
  <2> QED
    BY <2>4, <2>6 DEF CachesInv
<1>3. ASSUME NEW k \in CacheKey, NEW v \in CacheValue, CachePut(k, v) PROVE CachesInv'
  <2> DEFINE item == [value |-> v, expire |-> now + ttl]
             put == [value |-> v, at |-> now]
  <2>1. /\ twoQueue' = TwoQueuePut(twoQueue, k, v) /\ now' = now
        /\ ttlItems' = [ttlItems EXCEPT ![k] = item]
        /\ lastPut' = [lastPut EXCEPT ![k] = put]
    BY <1>3 DEF CachePut
  <2>2. /\ put.value = v /\ put.at = now /\ now \in Nat
        /\ item.expire = now + ttl /\ item.expire \in Int /\ put \in Put
    BY <1>0, CachesAssumption DEF TTLInv, Put
  <2>3. TTLEntry(item, put, now)
    BY <2>2 DEF TTLEntry
  <2> HIDE DEF item, put
  <2>4. PutIn(lastPut, k, v, lastPut')
    BY <1>0, <2>1, <2>2 DEF PutIn, TTLInv
  <2>5. TwoQueueInv(TwoQueuePut(twoQueue, k, v), lastPut')
    BY <1>0, <2>4, TwoQueuePutInv
  <2>6. TwoQueueInv(twoQueue', lastPut')
    BY <2>1, <2>5
  <2>7. TTLInv'
    BY <1>0, <2>1, <2>2, <2>3, OneEntry
  <2> QED
    BY <2>6, <2>7 DEF CachesInv
<1>4. CASE TTLClear
  <2>1. /\ twoQueue' = twoQueue /\ now' = now
        /\ ttlItems' = [k \in CacheKey |-> NoItem]
        /\ lastPut' = [k \in CacheKey |-> [lastPut[k] EXCEPT !.at = -1]]
    BY <1>4 DEF TTLClear
  <2>2. ASSUME NEW k \in CacheKey
        PROVE  /\ lastPut'[k] \in Put /\ lastPut'[k].at = -1 /\ ttlItems'[k] = NoItem
               /\ lastPut'[k].value = lastPut[k].value
    <3>1. lastPut[k] \in Put /\ lastPut'[k] = [lastPut[k] EXCEPT !.at = -1]
      BY <1>0, <2>1 DEF TTLInv
    <3> QED
      BY <2>1, <3>1 DEF Put
  <2>3. DOMAIN lastPut' = CacheKey /\ DOMAIN ttlItems' = CacheKey
    BY <2>1
  <2>4. TTLInv'
    <3>1. \A k \in CacheKey : TTLEntry(ttlItems'[k], lastPut'[k], now')
      BY <2>2 DEF TTLEntry
    <3>2. \A k \in CacheKey : ttlItems'[k].expire \in Int
      BY <2>2, NoExpiry
    <3>3. now' \in Nat
      BY <1>0, <2>1 DEF TTLInv
    <3> QED
      BY <2>2, <2>3, <3>1, <3>2, <3>3 DEF TTLInv
  <2>5. Fresh(twoQueue.recent, lastPut') /\ Fresh(twoQueue.frequent, lastPut')
    <3>1. ASSUME NEW l, Lru(l), Fresh(l, lastPut) PROVE Fresh(l, lastPut')
      <4>1. lruKeys(l) = {e.key : e \in ToSet(l)}
        BY DEF lruKeys, ToSet
      <4>2. \A e \in ToSet(l) : e.key \in CacheKey
        BY <3>1, <4>1, LruKeys DEF Lru
      <4> QED
        BY <2>2, <3>1, <4>2 DEF Fresh
    <3> QED
      BY <1>0, <3>1 DEF TwoQueueInv
  <2>6. TwoQueueInv(twoQueue', lastPut')
    BY <1>0, <2>1, <2>5 DEF TwoQueueInv
  <2> QED
    BY <2>4, <2>6 DEF CachesInv
<1>5. CASE doGC
  <2>1. /\ twoQueue' = twoQueue /\ now' = now /\ lastPut' = lastPut
        /\ ttlItems' = [k \in CacheKey |-> IF ttlItems[k].expire < now THEN NoItem ELSE ttlItems[k]]
    BY <1>5 DEF doGC
  <2>2. ASSUME NEW k \in CacheKey
        PROVE  ttlItems'[k].expire \in Int /\ TTLEntry(ttlItems'[k], lastPut[k], now)
    <3>1. CASE ttlItems[k].expire < now
      <4>1. ttlItems'[k] = NoItem
        BY <2>1, <3>1
      <4> QED
        BY <1>0, <3>1, <4>1, NoExpiry DEF TTLInv, TTLEntry
    <3>2. CASE ~(ttlItems[k].expire < now)
      <4>1. ttlItems'[k] = ttlItems[k]
        BY <2>1, <3>2
      <4> QED
        BY <1>0, <4>1 DEF TTLInv
    <3> QED
      BY <3>1, <3>2
  <2>3. DOMAIN ttlItems' = CacheKey
    BY <2>1
  <2>4. TTLInv'
    BY <1>0, <2>1, <2>2, <2>3 DEF TTLInv
  <2> QED
    BY <1>0, <2>1, <2>4 DEF CachesInv
<1>6. CASE CacheTick
  <2>1. /\ twoQueue' = twoQueue /\ ttlItems' = ttlItems /\ lastPut' = lastPut
        /\ now' = now + 1
    BY <1>6 DEF CacheTick
  <2>2. ASSUME NEW k \in CacheKey PROVE TTLEntry(ttlItems[k], lastPut[k], now + 1)
    <3> DEFINE at == lastPut[k].at
    <3>1. at \in Nat \union {-1} /\ now \in Nat /\ TTLEntry(ttlItems[k], lastPut[k], now)
      BY <1>0 DEF TTLInv, Put
    <3>2. at # -1 /\ at + ttl < now => at + ttl < now + 1
      <4> HIDE DEF at
      <4> QED
        BY <3>1, CachesAssumption
    <3> QED
      BY <3>1, <3>2 DEF TTLEntry
  <2>3. now + 1 \in Nat
    BY <1>0 DEF TTLInv
  <2>4. TTLInv'
    BY <1>0, <2>1, <2>2, <2>3 DEF TTLInv
  <2>5. TwoQueueInv(twoQueue', lastPut')
    BY <1>0, <2>1
  <2> QED
    BY <2>4, <2>5 DEF CachesInv
<1>7. CASE UNCHANGED cacheSystem
  <2>1. /\ twoQueue' = twoQueue /\ ttlItems' = ttlItems /\ lastPut' = lastPut /\ now' = now
    BY <1>7 DEF cacheSystem
  <2>2. TTLInv'
    BY <1>0, <2>1 DEF TTLInv
  <2> QED
    BY <1>0, <2>1, <2>2 DEF CachesInv
<1> QED
  BY <1>1, <1>2, <1>3, <1>4, <1>5, <1>6, <1>7 DEF CachesNext

(* Over any sequence of calls a key stays in at most one list of the 2Q    *)
(* cache, the lists stay within their capacity, a hit is the value that    *)
(* was last put (Put, Get, Remove of pkg/cache/two_queue.go), and an item  *)
(* of the TTL cache is found exactly until its time (ttl.go).              *)
THEOREM CachesStaySound == CachesSpec => []CachesSound
<1>1. CachesInit => CachesInv
  BY CachesInitInv
<1>2. CachesInv /\ [CachesNext]_cacheSystem => CachesInv'
  BY CachesStep
<1>3. CachesInv => CachesSound
  BY CachesInvSound
<1> QED
  BY <1>1, <1>2, <1>3, PTL DEF CachesSpec
=============================================================================
