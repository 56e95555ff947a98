-------------------------- MODULE MonotonicProofs --------------------------
(***************************************************************************)
(* Timestamps grow for whoever asks again: MonotonicTimestamps, for any    *)
(* number of servers and requests, any clocks and any failures.            *)
(*                                                                         *)
(* The windows of LeaderTSOProofs carry the argument.  Whatever a request  *)
(* has to exceed lies below the window of its server: the answers that     *)
(* were there when the server loaded the saved timestamp lie below that    *)
(* timestamp, and the answers of the server itself below or on the object  *)
(* it publishes.  A request that still runs on an old object had less to   *)
(* exceed when it came.                                                    *)
(***************************************************************************)
EXTENDS LeaderTSOProofs

(* Object i lies above the answer of g. *)
Above(i, g) ==
  \/ reply[g].physical < Milli(objs[i].physical)
  \/ /\ reply[g].physical = Milli(objs[i].physical)
     /\ reply[g].logical <= objs[i].logical

(* The answer of g lies below the window of s, or on the object it         *)
(* publishes.                                                              *)
Below(g, s) ==
  \/ reply[g].physical < Milli(Low(s))
  \/ /\ ts[s] # 0
     /\ reply[g].physical = Milli(Low(s))
     /\ reply[g].logical <= objs[ts[s]].logical

(* What a request that comes to s has to exceed. *)
Met(s) == synced[s] \union {g \in Answered : srv[g] = s}

(* The histories hold answers. *)
History ==
  /\ \A s \in Server : synced[s] \subseteq Answered
  /\ \A r \in Req : prior[r] \subseteq Answered

(* What s, and a request about to load its object, have to exceed lies     *)
(* below the window of s; a request in flight holds its object or an       *)
(* earlier one.                                                            *)
WindowAhead ==
  \A s \in Server : HasWindow(s) =>
    /\ \A g \in Met(s) : Below(g, s)
    /\ \A r \in Req : rpc[r] = "load" /\ srv[r] = s => \A g \in prior[r] : Below(g, s)
    /\ \A r \in Req : rpc[r] = "add" /\ srv[r] = s =>
         cur[r] = ts[s] \/ objs[cur[r]].physical + Ms <= Low(s)

(* The object a request holds lies above what the request has to exceed. *)
ObjectAhead ==
  \A r \in Req : rpc[r] = "add" => \A g \in prior[r] : Above(cur[r], g)

MInv == IInv /\ History /\ WindowAhead /\ ObjectAhead /\ MonotonicTimestamps

(***************************************************************************)
(* Answers and windows                                                     *)
(***************************************************************************)
(* The numbers that answers and objects are made of. *)
LEMMA Numbers ==
  ASSUME TypeOK
  PROVE  /\ \A i \in DOMAIN objs : /\ objs[i].physical \in Nat /\ objs[i].logical \in Nat
                                   /\ Milli(objs[i].physical) \in Nat
         /\ \A g \in Answered : reply[g].physical \in Nat /\ reply[g].logical \in Nat
         /\ \A s \in Server : Low(s) \in Nat /\ Milli(Low(s)) \in Nat
         /\ \A r \in Req : Count[r] \in Nat
<1>1. \A i \in DOMAIN objs : objs[i] \in Object
  BY DEF TypeOK
<1>2. \A g \in Answered : reply[g] \in Object
  BY DEF TypeOK, Answered
<1> QED
  BY <1>1, <1>2, WindowTypes, MilliNat, RequestAssumption DEF Object

(* Every answer lies below a time that exceeds the saved timestamp. *)
LEMMA AnswersBelowSaved ==
  ASSUME TSOInv, Answers, NEW g \in Answered, NEW n \in Nat, saved + Ms <= n
  PROVE  reply[g].physical < Milli(n)
<1>1. PICK i \in DOMAIN objs : reply[g].physical = Milli(objs[i].physical)
  BY DEF Answers, Answered
<1>2. objs[i].physical \in Nat /\ saved \in Nat /\ Ms \in Nat
  BY WindowTypes DEF TSOInv
<1>3. objs[i].physical < saved
  BY DEF TSOInv, PhysicalBelowSaved
<1>4. objs[i].physical + Ms <= n
  BY <1>2, <1>3
<1> QED
  BY <1>1, <1>2, <1>4, MilliApart

(* An answer is never taken back, and objects stay above the answers they  *)
(* lie above.                                                              *)
LEMMA Carry ==
  ASSUME TSOInv, [Next]_vars
  PROVE  /\ \A g \in Answered : g \in Answered' /\ reply'[g] = reply[g]
         /\ \A g \in Answered : \A i \in DOMAIN objs : Above(i, g) => Above(i, g)'
<1>1. TypeOK /\ Control /\ TypeOK'
  BY NextTSOInv DEF TSOInv
<1>2. /\ \A i \in DOMAIN objs : /\ i \in DOMAIN objs'
                                /\ objs'[i].physical = objs[i].physical
                                /\ objs[i].logical <= objs'[i].logical
      /\ reply' = reply \/ \E r \in Req : AddTS(r)
  BY <1>1, ObjectsGrow
<1>3. ASSUME NEW g \in Answered PROVE g \in Answered' /\ reply'[g] = reply[g]
  <2>1. CASE reply' = reply
    BY <2>1 DEF Answered
  <2>2. ASSUME NEW r \in Req, AddTS(r), reply' # reply
        PROVE  g \in Answered' /\ reply'[g] = reply[g]
    <3>1. reply[r] = None /\ reply' = [reply EXCEPT ![r] = reply'[r]]
      BY <1>1, <2>2, AddAnswers
    <3> QED
      BY <1>1, <3>1 DEF Answered, TypeOK
  <2> QED
    BY <1>2, <2>1, <2>2
<1>4. ASSUME NEW g \in Answered, NEW i \in DOMAIN objs, Above(i, g)
      PROVE  Above(i, g)'
  <2>1. /\ objs[i].logical \in Nat /\ reply[g].logical \in Nat
    BY <1>1, Numbers
  <2>2. objs'[i] \in Object
    BY <1>1, <1>2 DEF TypeOK
  <2>3. objs'[i].logical \in Nat
    BY <2>2 DEF Object
  <2> QED
    BY <1>2, <1>3, <1>4, <2>1, <2>3 DEF Above
<1> QED
  BY <1>3, <1>4

(* An answer stays below a window that does not move. *)
LEMMA BelowCarries ==
  ASSUME TSOInv, [Next]_vars, NEW s \in Server, NEW g \in Answered, Below(g, s),
         ts'[s] = ts[s], Low(s)' = Low(s)
  PROVE  Below(g, s)'
<1>1. TypeOK /\ Control /\ TypeOK'
  BY NextTSOInv DEF TSOInv
<1>2. reply'[g] = reply[g]
  BY Carry
<1>3. CASE reply[g].physical < Milli(Low(s))
  BY <1>2, <1>3 DEF Below
<1>4. CASE /\ ts[s] # 0
           /\ reply[g].physical = Milli(Low(s))
           /\ reply[g].logical <= objs[ts[s]].logical
  <2>1. ts[s] \in DOMAIN objs
    BY <1>1, <1>4, WindowTypes
  <2>2. ts[s] \in DOMAIN objs' /\ objs[ts[s]].logical <= objs'[ts[s]].logical
    BY <1>1, <2>1, ObjectsGrow
  <2>3. objs'[ts[s]] \in Object
    BY <1>1, <2>2 DEF TypeOK
  <2>4. /\ objs[ts[s]].logical \in Nat /\ reply[g].logical \in Nat
        /\ objs'[ts[s]].logical \in Nat
    BY <1>1, <2>1, <2>3, Numbers DEF Object
  <2>5. reply[g].logical <= objs'[ts[s]].logical
    BY <1>4, <2>2, <2>4
  <2> QED
    BY <1>2, <1>4, <2>5 DEF Below
<1> QED
  BY <1>3, <1>4 DEF Below

(* What an object lies above, a window that starts later lies above too. *)
LEMMA AboveBelow ==
  ASSUME TSOInv, NEW s \in Server, NEW i \in DOMAIN objs, NEW g \in Answered, Above(i, g),
         i = ts[s] \/ objs[i].physical + Ms <= Low(s)
  PROVE  Below(g, s)
<1>1. TypeOK
  BY DEF TSOInv
<1>2. CASE i = ts[s]
  <2>1. ts[s] # 0
    BY <1>1, <1>2 DEF TypeOK
  <2>2. Low(s) = objs[i].physical
    BY <1>2, <2>1 DEF Low
  <2> QED
    BY <1>2, <2>1, <2>2 DEF Above, Below
<1>3. CASE objs[i].physical + Ms <= Low(s)
  <2>1. objs[i].physical \in Nat /\ Low(s) \in Nat
    BY <1>1, Numbers
  <2>2. Milli(objs[i].physical) < Milli(Low(s))
    BY <1>3, <2>1, MilliApart
  <2>3. Milli(objs[i].physical) \in Nat /\ Milli(Low(s)) \in Nat /\ reply[g].physical \in Nat
    BY <1>1, Numbers
  <2>4. reply[g].physical <= Milli(objs[i].physical)
    BY <2>3 DEF Above
  <2> QED
    BY <2>2, <2>3, <2>4 DEF Below
<1> QED
  BY <1>2, <1>3

(* The same of the state after a step. *)
StartsLater ==
  TSOInv => \A s \in Server, i \in DOMAIN objs, g \in Answered :
              Above(i, g) /\ (i = ts[s] \/ objs[i].physical + Ms <= Low(s)) => Below(g, s)

LEMMA AboveBelowNext == StartsLater'
<1>1. StartsLater
  BY AboveBelow DEF StartsLater
<1> QED
  BY <1>1, PTL

(***************************************************************************)
(* The steps                                                               *)
(***************************************************************************)
Ahead == History /\ WindowAhead /\ ObjectAhead /\ MonotonicTimestamps

(* Steps that answer nothing, leave the requests alone or fail them, and   *)
(* open, move and extend no window.                                        *)
LEMMA IdleStep ==
  ASSUME MInv, [Next]_vars, Quiet,
         UNCHANGED <<srv, cur, reply, prior>>,
         \A r \in Req : rpc'[r] \in {rpc[r], "failed"},
         \A s \in Server : synced'[s] = synced[s]
                           \/ (synced'[s] = Answered /\ ~HasWindow(s)')
  PROVE  Ahead'
<1>1. TSOInv /\ TypeOK /\ Control /\ History /\ WindowAhead /\ ObjectAhead /\ MonotonicTimestamps
  BY DEF MInv, IInv, TSOInv
<1>2. Answered' = Answered
  BY DEF Answered
<1>3. History'
  BY <1>1, <1>2 DEF History
<1>4. WindowAhead'
  <2> SUFFICES ASSUME NEW s \in Server, HasWindow(s)'
               PROVE  /\ \A g \in Met(s)' : Below(g, s)'
                      /\ \A r \in Req : rpc'[r] = "load" /\ srv'[r] = s =>
                           \A g \in prior'[r] : Below(g, s)'
                      /\ \A r \in Req : rpc'[r] = "add" /\ srv'[r] = s =>
                           cur'[r] = ts'[s] \/ objs'[cur'[r]].physical + Ms <= Low(s)'
    BY DEF WindowAhead
  <2>1. HasWindow(s) /\ ts'[s] = ts[s] /\ Low(s)' = Low(s)
    BY DEF Quiet
  <2>2. \A g \in Answered : Below(g, s) => Below(g, s)'
    BY <1>1, <2>1, BelowCarries
  <2>3. Met(s)' = Met(s) /\ Met(s) \subseteq Answered
    BY <1>1, <1>2 DEF Met, History
  <2>4. \A g \in Met(s)' : Below(g, s)'
    BY <1>1, <2>1, <2>2, <2>3 DEF WindowAhead
  <2>5. ASSUME NEW r \in Req, rpc'[r] = "load", srv'[r] = s
        PROVE  \A g \in prior'[r] : Below(g, s)'
    BY <1>1, <2>1, <2>2, <2>5 DEF WindowAhead, History
  <2>6. ASSUME NEW r \in Req, rpc'[r] = "add", srv'[r] = s
        PROVE  cur'[r] = ts'[s] \/ objs'[cur'[r]].physical + Ms <= Low(s)'
    <3>1. rpc[r] = "add" /\ srv[r] = s /\ cur'[r] = cur[r]
      BY <2>6
    <3>2. cur[r] \in DOMAIN objs
      BY <1>1, <3>1 DEF Control, TypeOK
    <3>3. objs'[cur[r]].physical = objs[cur[r]].physical
      BY <3>2 DEF Quiet
    <3> QED
      BY <1>1, <2>1, <3>1, <3>3 DEF WindowAhead
  <2> QED
    BY <2>4, <2>5, <2>6
<1>5. ObjectAhead'
  <2> SUFFICES ASSUME NEW r \in Req, rpc'[r] = "add", NEW g \in prior'[r]
               PROVE  Above(cur[r], g)'
    BY DEF ObjectAhead
  <2>1. rpc[r] = "add" /\ g \in prior[r] /\ g \in Answered
    BY <1>1 DEF History
  <2>2. cur[r] \in DOMAIN objs
    BY <1>1, <2>1 DEF Control, TypeOK
  <2> QED
    BY <1>1, <2>1, <2>2, Carry DEF ObjectAhead
<1>6. MonotonicTimestamps'
  BY <1>1, <1>2 DEF MonotonicTimestamps, Exceeds
<1> QED
  BY <1>3, <1>4, <1>5, <1>6 DEF Ahead

(* A request is admitted: what it has to exceed lies below the window. *)
LEMMA TsoStep ==
  ASSUME MInv, [Next]_vars, NEW q \in Req, NEW t \in Server, Tso(q, t)
  PROVE  Ahead'
<1>1. TSOInv /\ TypeOK /\ Control /\ History /\ WindowAhead /\ ObjectAhead /\ MonotonicTimestamps
  BY DEF MInv, IInv, TSOInv
<1>2. /\ rpc[q] = "idle" /\ reply[q] = None
      /\ rpc' = [rpc EXCEPT ![q] = rpc'[q]] /\ rpc'[q] \in {"failed", "load"}
      /\ srv' = [srv EXCEPT ![q] = t]
      /\ prior' = [prior EXCEPT ![q] = Met(t)]
      /\ UNCHANGED <<reply, cur, synced, objs, ts, next, pc>>
  BY <1>1 DEF Tso, Met, Control, TypeOK, tsoVars
<1>3. /\ srv'[q] = t /\ prior'[q] = Met(t)
      /\ \A r \in Req \ {q} : rpc'[r] = rpc[r] /\ srv'[r] = srv[r] /\ prior'[r] = prior[r]
  BY <1>1, <1>2 DEF TypeOK
<1>4. Answered' = Answered /\ q \notin Answered
  BY <1>2 DEF Answered
<1>5. \A s \in Server : Met(s)' = Met(s) /\ Met(s) \subseteq Answered
  BY <1>1, <1>2, <1>3, <1>4 DEF Met, History, Answered
<1>6. \A s \in Server : (HasWindow(s)' <=> HasWindow(s)) /\ Low(s)' = Low(s)
  BY <1>2 DEF HasWindow, Low
<1>7. \A s \in Server, g \in Answered : Below(g, s)' <=> Below(g, s)
  BY <1>2, <1>6 DEF Below
<1>8. History'
  BY <1>1, <1>2, <1>3, <1>4, <1>5 DEF History
<1>9. WindowAhead'
  <2> SUFFICES ASSUME NEW s \in Server, HasWindow(s)'
               PROVE  /\ \A g \in Met(s)' : Below(g, s)'
                      /\ \A r \in Req : rpc'[r] = "load" /\ srv'[r] = s =>
                           \A g \in prior'[r] : Below(g, s)'
                      /\ \A r \in Req : rpc'[r] = "add" /\ srv'[r] = s =>
                           cur'[r] = ts'[s] \/ objs'[cur'[r]].physical + Ms <= Low(s)'
    BY DEF WindowAhead
  <2>1. HasWindow(s)
    BY <1>6
  <2>2. \A g \in Met(s)' : Below(g, s)'
    BY <1>1, <1>5, <1>7, <2>1 DEF WindowAhead
  <2>3. ASSUME NEW r \in Req, rpc'[r] = "load", srv'[r] = s, NEW g \in prior'[r]
        PROVE  Below(g, s)'
    <3>1. CASE r = q
      BY <1>3, <1>5, <2>2, <2>3, <3>1
    <3>2. CASE r # q
      BY <1>1, <1>3, <1>7, <2>1, <2>3, <3>2 DEF WindowAhead, History
    <3> QED
      BY <3>1, <3>2
  <2>4. ASSUME NEW r \in Req, rpc'[r] = "add", srv'[r] = s
        PROVE  cur'[r] = ts'[s] \/ objs'[cur'[r]].physical + Ms <= Low(s)'
    <3>1. r # q
      BY <1>2, <2>4
    <3> QED
      BY <1>1, <1>2, <1>3, <1>6, <2>1, <2>4, <3>1 DEF WindowAhead
  <2> QED
    BY <2>2, <2>3, <2>4
<1>10. ObjectAhead'
  <2> SUFFICES ASSUME NEW r \in Req, rpc'[r] = "add", NEW g \in prior'[r]
               PROVE  Above(cur[r], g)'
    BY <1>2 DEF ObjectAhead
  <2>1. r # q
    BY <1>2
  <2>2. Above(cur[r], g)
    BY <1>1, <1>3, <2>1 DEF ObjectAhead
  <2> QED
    BY <1>2, <2>2 DEF Above
<1>11. MonotonicTimestamps'
  BY <1>1, <1>2, <1>3, <1>4 DEF MonotonicTimestamps, Exceeds, Answered
<1> QED
  BY <1>8, <1>9, <1>10, <1>11 DEF Ahead

(* A request loads the object of its server, or finds none. *)
LEMMA LoadTSStep ==
  ASSUME MInv, [Next]_vars, NEW q \in Req, LoadTS(q)
  PROVE  Ahead'
<1>1. TSOInv /\ TypeOK /\ Control /\ History /\ WindowAhead /\ ObjectAhead /\ MonotonicTimestamps
  BY DEF MInv, IInv, TSOInv
<1>2. UNCHANGED <<srv, prior, reply, synced, objs, ts, next, pc>> /\ rpc[q] = "load"
  BY DEF LoadTS, tsoVars
<1>3. srv[q] \in Server
  BY <1>1, <1>2 DEF Control
<1>4. /\ \A r \in Req \ {q} : rpc'[r] = rpc[r] /\ cur'[r] = cur[r]
      /\ \/ rpc'[q] \in {"load", "failed"}
         \/ rpc'[q] = "add" /\ cur'[q] = ts[srv[q]] /\ ts[srv[q]] # 0
  BY <1>1 DEF LoadTS, Retry, TypeOK
<1>5. Answered' = Answered
  BY <1>2 DEF Answered
<1>6. \A s \in Server : /\ Met(s)' = Met(s) /\ Met(s) \subseteq Answered
                        /\ (HasWindow(s)' <=> HasWindow(s)) /\ Low(s)' = Low(s)
  BY <1>1, <1>2, <1>5 DEF Met, History, HasWindow, Low
<1>7. \A s \in Server, g \in Answered : Below(g, s)' <=> Below(g, s)
  BY <1>2, <1>6 DEF Below
<1>8. History'
  BY <1>1, <1>2, <1>5 DEF History
<1>9. WindowAhead'
  <2> SUFFICES ASSUME NEW s \in Server, HasWindow(s)'
               PROVE  /\ \A g \in Met(s)' : Below(g, s)'
                      /\ \A r \in Req : rpc'[r] = "load" /\ srv'[r] = s =>
                           \A g \in prior'[r] : Below(g, s)'
                      /\ \A r \in Req : rpc'[r] = "add" /\ srv'[r] = s =>
                           cur'[r] = ts'[s] \/ objs'[cur'[r]].physical + Ms <= Low(s)'
    BY DEF WindowAhead
  <2>1. HasWindow(s)
    BY <1>6
  <2>2. \A g \in Met(s)' : Below(g, s)'
    BY <1>1, <1>6, <1>7, <2>1 DEF WindowAhead
  <2>3. ASSUME NEW r \in Req, rpc'[r] = "load", srv'[r] = s, NEW g \in prior'[r]
        PROVE  Below(g, s)'
    <3>1. rpc[r] = "load" /\ srv[r] = s /\ g \in prior[r] /\ g \in Answered
      BY <1>1, <1>2, <1>4, <2>3 DEF History
    <3> QED
      BY <1>1, <1>7, <2>1, <3>1 DEF WindowAhead
  <2>4. ASSUME NEW r \in Req, rpc'[r] = "add", srv'[r] = s
        PROVE  cur'[r] = ts'[s] \/ objs'[cur'[r]].physical + Ms <= Low(s)'
    <3>1. CASE r = q
      BY <1>2, <1>4, <2>4, <3>1
    <3>2. CASE r # q
      BY <1>1, <1>2, <1>4, <1>6, <2>1, <2>4, <3>2 DEF WindowAhead
    <3> QED
      BY <3>1, <3>2
  <2> QED
    BY <2>2, <2>3, <2>4
<1>10. ObjectAhead'
  <2> SUFFICES ASSUME NEW r \in Req, rpc'[r] = "add", NEW g \in prior'[r]
               PROVE  Above(cur[r], g)'
    BY DEF ObjectAhead
  <2>1. CASE r = q
    <3> DEFINE s == srv[q]
    <3>1. cur'[q] = ts[s] /\ ts[s] # 0
      BY <1>4, <2>1
    <3>2. Low(s) = objs[ts[s]].physical /\ HasWindow(s)
      BY <3>1 DEF Low, HasWindow
    <3>3. Below(g, s)
      BY <1>1, <1>2, <1>3, <2>1, <3>2 DEF WindowAhead
    <3> QED
      BY <1>2, <2>1, <3>1, <3>2, <3>3 DEF Below, Above
  <2>2. CASE r # q
    <3>1. Above(cur[r], g) /\ cur'[r] = cur[r]
      BY <1>1, <1>2, <1>4, <2>2 DEF ObjectAhead
    <3> QED
      BY <1>2, <3>1 DEF Above
  <2> QED
    BY <2>1, <2>2
<1>11. MonotonicTimestamps'
  BY <1>1, <1>2, <1>5 DEF MonotonicTimestamps, Exceeds
<1> QED
  BY <1>8, <1>9, <1>10, <1>11 DEF Ahead

(* A request counts up its object and answers, or has to try again. *)
LEMMA AddTSStep ==
  ASSUME MInv, [Next]_vars, Quiet, NEW q \in Req, AddTS(q)
  PROVE  Ahead'
<1>1. TSOInv /\ TypeOK /\ Control /\ History /\ WindowAhead /\ ObjectAhead /\ MonotonicTimestamps
  BY DEF MInv, IInv, TSOInv
<1>0. /\ rpc[q] = "add" /\ reply[q] = None /\ srv[q] \in Server /\ cur[q] \in DOMAIN objs
      /\ UNCHANGED <<srv, prior, synced>>
  BY <1>1 DEF AddTS, Control, TypeOK
<1>a. PICK i \in DOMAIN objs : i = cur[q]
  BY <1>0
<1>b. PICK u \in Server : u = srv[q]
  BY <1>0
<1>2. rpc[q] = "add" /\ reply[q] = None /\ UNCHANGED <<srv, prior, synced>>
  BY <1>0
<1>3. /\ \A r \in Req \ {q} : rpc'[r] = rpc[r] /\ cur'[r] = cur[r]
      /\ \/ rpc'[q] \in {"load", "failed"} /\ reply' = reply
         \/ rpc'[q] = "done" /\ reply' # reply
  <2>1. CASE objs[i].logical + Count[q] >= MaxLogical
    BY <1>1, <1>a, <2>1 DEF AddTS, Retry, TypeOK
  <2>2. CASE ~(objs[i].logical + Count[q] >= MaxLogical)
    <3>1. /\ rpc' = [rpc EXCEPT ![q] = "done"]
          /\ reply' = [reply EXCEPT ![q] = [physical |-> Milli(objs[i].physical),
                                            logical |-> objs[i].logical + Count[q]]]
          /\ cur' = [cur EXCEPT ![q] = 0]
      BY <1>a, <2>2 DEF AddTS
    <3>2. Milli(objs[i].physical) \in Nat /\ objs[i].logical + Count[q] \in Nat
      BY <1>1, <1>2, Numbers
    <3>3. reply'[q] # None
      BY <1>1, <3>1, <3>2, ServerAssumption DEF TypeOK
    <3> QED
      BY <1>1, <1>2, <3>1, <3>3 DEF TypeOK
  <2> QED
    BY <2>1, <2>2
<1>4. /\ \A g \in Answered : g \in Answered' /\ reply'[g] = reply[g]
      /\ \A g \in Answered : \A j \in DOMAIN objs : Above(j, g) => Above(j, g)'
  BY <1>1, Carry
<1>5. q \notin Answered /\ (reply' = reply => Answered' = Answered)
      /\ Answered' \subseteq Answered \union {q}
  <2>1. CASE reply' = reply
    BY <1>2, <2>1 DEF Answered
  <2>2. CASE reply' # reply
    <3>1. reply' = [reply EXCEPT ![q] = reply'[q]]
      BY <1>1, <2>2, AddAnswers
    <3>2. \A r \in Req \ {q} : reply'[r] = reply[r]
      BY <1>1, <3>1 DEF TypeOK
    <3> QED
      BY <1>2, <2>2, <3>2 DEF Answered
  <2> QED
    BY <2>1, <2>2
<1>6. reply' # reply =>
        /\ reply'[q].physical = Milli(objs[i].physical)
        /\ reply'[q].logical = objs[i].logical + Count[q]
        /\ reply'[q].logical = objs'[i].logical
        /\ objs'[i].physical = objs[i].physical
        /\ reply'[q] \in Object
  BY <1>1, <1>a, AddAnswers, ObjectsGrow
<1>7. History'
  <2>1. \A g \in Answered : g \in Answered'
    BY <1>4
  <2> QED
    BY <1>1, <1>2, <2>1 DEF History
<1>8. reply' # reply => q \in Answered' /\ Above(i, q)'
  <2> SUFFICES ASSUME reply' # reply PROVE q \in Answered' /\ Above(i, q)'
    OBVIOUS
  <2>1. reply'[q] # None /\ reply'[q].logical \in Nat
    BY <1>6, ServerAssumption DEF Object
  <2> QED
    BY <1>6, <2>1 DEF Answered, Above
<1>9. \A s \in Server : HasWindow(s)' => HasWindow(s) /\ ts'[s] = ts[s] /\ Low(s)' = Low(s)
  BY DEF Quiet
<1>10. \A j \in DOMAIN objs : j \in DOMAIN objs' /\ objs'[j].physical = objs[j].physical
  BY DEF Quiet
<1>11. TSOInv'
  BY <1>1, NextTSOInv
<1>12. HasWindow(u)' => i = ts'[u] \/ objs'[i].physical + Ms <= Low(u)'
  BY <1>1, <1>2, <1>9, <1>10, <1>a, <1>b DEF WindowAhead
<1>13. ASSUME NEW s \in Server, HasWindow(s)', NEW g \in Answered, Below(g, s)
       PROVE  Below(g, s)'
  BY <1>1, <1>9, <1>13, BelowCarries
<1>14. WindowAhead'
  <2> SUFFICES ASSUME NEW s \in Server, HasWindow(s)'
               PROVE  /\ \A g \in Met(s)' : Below(g, s)'
                      /\ \A r \in Req : rpc'[r] = "load" /\ srv'[r] = s =>
                           \A g \in prior'[r] : Below(g, s)'
                      /\ \A r \in Req : rpc'[r] = "add" /\ srv'[r] = s =>
                           cur'[r] = ts'[s] \/ objs'[cur'[r]].physical + Ms <= Low(s)'
    BY DEF WindowAhead
  <2>1. ASSUME NEW g \in Met(s)' PROVE Below(g, s)'
    <3>1. CASE g \in Met(s)
      <4>1. g \in Answered /\ Below(g, s)
        BY <1>1, <1>9, <3>1 DEF WindowAhead, Met, History
      <4> QED
        BY <1>13, <4>1
    <3>2. CASE g \notin Met(s)
      <4>1. g = q /\ srv[q] = s /\ reply' # reply
        BY <1>2, <1>5, <3>2 DEF Met
      <4>2. Above(i, q)' /\ q \in Answered'
        BY <1>8, <4>1
      <4>3. i \in DOMAIN objs' /\ s = u
        BY <1>10, <1>b, <4>1
      <4>4. i = ts'[s] \/ objs'[i].physical + Ms <= Low(s)'
        BY <1>12, <4>3
      <4> QED
        BY <1>11, <4>1, <4>2, <4>3, <4>4, AboveBelowNext DEF StartsLater
    <3> QED
      BY <3>1, <3>2
  <2>2. ASSUME NEW r \in Req, rpc'[r] = "load", srv'[r] = s, NEW g \in prior'[r]
        PROVE  Below(g, s)'
    <3>1. g \in prior[r] /\ g \in Answered /\ srv[r] = s
      BY <1>1, <1>2, <2>2 DEF History
    <3>2. CASE r = q
      <4>1. Above(i, g)' /\ g \in Answered'
        BY <1>1, <1>2, <1>4, <1>a, <3>1, <3>2 DEF ObjectAhead
      <4>2. i \in DOMAIN objs' /\ s = u
        BY <1>10, <1>b, <3>1, <3>2
      <4>3. i = ts'[s] \/ objs'[i].physical + Ms <= Low(s)'
        BY <1>12, <4>2
      <4> QED
        BY <1>11, <4>1, <4>2, <4>3, AboveBelowNext DEF StartsLater
    <3>3. CASE r # q
      <4>1. Below(g, s)
        BY <1>1, <1>3, <1>9, <2>2, <3>1, <3>3 DEF WindowAhead
      <4> QED
        BY <1>13, <3>1, <4>1
    <3> QED
      BY <3>2, <3>3
  <2>3. ASSUME NEW r \in Req, rpc'[r] = "add", srv'[r] = s
        PROVE  cur'[r] = ts'[s] \/ objs'[cur'[r]].physical + Ms <= Low(s)'
    <3>1. r # q
      BY <1>3, <2>3
    <3>2. rpc[r] = "add" /\ srv[r] = s /\ cur'[r] = cur[r]
      BY <1>2, <1>3, <2>3, <3>1
    <3>3. cur[r] \in DOMAIN objs
      BY <1>1, <3>2 DEF Control, TypeOK
    <3> QED
      BY <1>1, <1>9, <1>10, <3>2, <3>3 DEF WindowAhead
  <2> QED
    BY <2>1, <2>2, <2>3
<1>15. ObjectAhead'
  <2> SUFFICES ASSUME NEW r \in Req, rpc'[r] = "add", NEW g \in prior'[r]
               PROVE  Above(cur[r], g)'
    BY DEF ObjectAhead
  <2>1. r # q
    BY <1>3
  <2>2. rpc[r] = "add" /\ cur'[r] = cur[r] /\ g \in prior[r] /\ g \in Answered
    BY <1>1, <1>2, <1>3, <2>1 DEF History
  <2>3. PICK j \in DOMAIN objs : j = cur[r]
    BY <1>1, <2>2 DEF Control, TypeOK
  <2>4. Above(j, g)
    BY <1>1, <2>2, <2>3 DEF ObjectAhead
  <2>5. Above(j, g)'
    BY <1>4, <2>2, <2>4
  <2> QED
    BY <2>2, <2>3, <2>5
<1>16. MonotonicTimestamps'
  <2> SUFFICES ASSUME NEW r \in Answered', NEW g \in prior'[r] PROVE Exceeds(r, g)'
    BY DEF MonotonicTimestamps
  <2>0. r \in Req
    BY DEF Answered
  <2>1. g \in prior[r] /\ g \in Answered /\ reply'[g] = reply[g]
    BY <1>1, <1>2, <1>4, <2>0 DEF History
  <2>2. CASE r = q
    <3>1. reply' # reply
      BY <1>5, <2>2
    <3>2. Above(i, g)
      BY <1>1, <1>2, <1>a, <2>1, <2>2 DEF ObjectAhead
    <3>3. /\ objs[i].logical \in Nat /\ Milli(objs[i].physical) \in Nat
          /\ reply[g].physical \in Nat /\ reply[g].logical \in Nat /\ Count[q] \in Nat
      BY <1>1, <2>1, Numbers
    <3> QED
      BY <1>6, <2>1, <2>2, <3>1, <3>2, <3>3 DEF Above, Exceeds
  <2>3. CASE r # q
    <3>1. r \in Answered /\ reply'[r] = reply[r]
      BY <1>4, <1>5, <2>3
    <3> QED
      BY <1>1, <2>1, <3>1 DEF MonotonicTimestamps, Exceeds
  <2> QED
    BY <2>2, <2>3
<1> QED
  BY <1>7, <1>14, <1>15, <1>16 DEF Ahead

(* Steps of the servers that leave the requests alone: it is enough that   *)
(* each window there is now lies above the one there was, or above all     *)
(* answers and objects.                                                    *)
LEMMA ServerStep ==
  ASSUME MInv, [Next]_vars,
         UNCHANGED <<rpc, srv, cur, reply, prior, synced>>,
         \A i \in DOMAIN objs : objs'[i] = objs[i],
         \A s \in Server : HasWindow(s)' =>
           /\ \A g \in Answered : (HasWindow(s) => Below(g, s)) => Below(g, s)'
           /\ \A i \in DOMAIN objs :
                (HasWindow(s) => i = ts[s] \/ objs[i].physical + Ms <= Low(s)) =>
                  i = ts'[s] \/ objs[i].physical + Ms <= Low(s)'
  PROVE  Ahead'
<1>1. TSOInv /\ TypeOK /\ Control /\ History /\ WindowAhead /\ ObjectAhead /\ MonotonicTimestamps
  BY DEF MInv, IInv, TSOInv
<1>2. Answered' = Answered
  BY DEF Answered
<1>3. History'
  BY <1>1, <1>2 DEF History
<1>4. \A r \in Req : rpc[r] = "add" => cur[r] \in DOMAIN objs
  BY <1>1 DEF Control, TypeOK
<1>5. WindowAhead'
  <2> SUFFICES ASSUME NEW s \in Server, HasWindow(s)'
               PROVE  /\ \A g \in Met(s)' : Below(g, s)'
                      /\ \A r \in Req : rpc'[r] = "load" /\ srv'[r] = s =>
                           \A g \in prior'[r] : Below(g, s)'
                      /\ \A r \in Req : rpc'[r] = "add" /\ srv'[r] = s =>
                           cur'[r] = ts'[s] \/ objs'[cur'[r]].physical + Ms <= Low(s)'
    BY DEF WindowAhead
  <2>1. Met(s)' = Met(s) /\ Met(s) \subseteq Answered
    BY <1>1, <1>2 DEF Met, History
  <2>2. \A g \in Answered : (HasWindow(s) => Below(g, s)) => Below(g, s)'
    OBVIOUS
  <2>3. \A g \in Met(s)' : Below(g, s)'
    BY <1>1, <2>1, <2>2 DEF WindowAhead
  <2>4. ASSUME NEW r \in Req, rpc'[r] = "load", srv'[r] = s, NEW g \in prior'[r]
        PROVE  Below(g, s)'
    BY <1>1, <2>2, <2>4 DEF WindowAhead, History
  <2>5. ASSUME NEW r \in Req, rpc'[r] = "add", srv'[r] = s
        PROVE  cur'[r] = ts'[s] \/ objs'[cur'[r]].physical + Ms <= Low(s)'
    <3>1. PICK i \in DOMAIN objs : i = cur[r]
      BY <1>4, <2>5
    <3>2. HasWindow(s) => i = ts[s] \/ objs[i].physical + Ms <= Low(s)
      BY <1>1, <2>5, <3>1 DEF WindowAhead
    <3>3. i = ts'[s] \/ objs[i].physical + Ms <= Low(s)'
      BY <3>2
    <3> QED
      BY <3>1, <3>3
  <2> QED
    BY <2>3, <2>4, <2>5
<1>6. ObjectAhead'
  BY <1>1, <1>4 DEF ObjectAhead, Above
<1>7. MonotonicTimestamps'
  BY <1>1, <1>2 DEF MonotonicTimestamps, Exceeds
<1> QED
  BY <1>3, <1>5, <1>6, <1>7 DEF Ahead

(* A new leader's first save opens a window above the saved timestamp, and *)
(* so above everything.                                                    *)
LEMMA SaveAhead ==
  ASSUME MInv, [Next]_vars, NEW t \in Server, SaveTimestamp(t), leaderKey = t
  PROVE  Ahead'
<1>1. TSOInv /\ TypeOK /\ Control /\ OnTheWay /\ PhysicalBelowSaved /\ Answers
  BY DEF MInv, IInv, TSOInv
<1>2. /\ UNCHANGED <<rpc, srv, cur, reply, prior, synced, objs, ts, next>>
      /\ pc[t] = "save" /\ pc' = [pc EXCEPT ![t] = "store"]
  BY DEF SaveTimestamp, LeaderTxn, Goto, reqVars
<1>3. \A s \in Server : Low(s)' = Low(s)
  BY <1>2 DEF Low
<1>4. \A s \in Server, g \in Answered : Below(g, s)' <=> Below(g, s)
  BY <1>2, <1>3 DEF Below
<1>5. ASSUME NEW s \in Server, HasWindow(s)', ~HasWindow(s)
      PROVE  /\ \A g \in Answered : Below(g, s)
             /\ \A i \in DOMAIN objs : objs[i].physical + Ms <= Low(s)
  <2>1. s = t /\ ts[t] = 0
    BY <1>1, <1>2, <1>5 DEF HasWindow, TypeOK
  <2>2. Low(s) = next[s] /\ saved + Ms <= next[s] /\ next[s] \in Nat
    BY <1>1, <1>2, <2>1 DEF Low, OnTheWay, TypeOK
  <2>3. \A g \in Answered : Below(g, s)
    BY <1>1, <2>2, AnswersBelowSaved DEF Below
  <2>4. ASSUME NEW i \in DOMAIN objs PROVE objs[i].physical + Ms <= Low(s)
    <3>1. objs[i].physical < saved
      BY <1>1 DEF PhysicalBelowSaved
    <3>2. objs[i].physical \in Nat /\ saved \in Nat /\ Ms \in Nat
      BY <1>1, WindowTypes
    <3> QED
      BY <2>2, <3>1, <3>2
  <2> QED
    BY <2>3, <2>4
<1>6. ASSUME NEW s \in Server, HasWindow(s)'
      PROVE  /\ \A g \in Answered : (HasWindow(s) => Below(g, s)) => Below(g, s)'
             /\ \A i \in DOMAIN objs :
                  (HasWindow(s) => i = ts[s] \/ objs[i].physical + Ms <= Low(s)) =>
                    i = ts'[s] \/ objs[i].physical + Ms <= Low(s)'
  <2>1. CASE HasWindow(s)
    BY <1>2, <1>3, <1>4, <2>1
  <2>2. CASE ~HasWindow(s)
    BY <1>2, <1>3, <1>4, <1>5, <1>6, <2>2
  <2> QED
    BY <2>1, <2>2
<1> QED
  BY <1>2, <1>6, ServerStep

(* A publication moves the lower end of the window up. *)
LEMMA StoreAhead ==
  ASSUME MInv, [Next]_vars, NEW t \in Server, StoreTimestamp(t)
  PROVE  Ahead'
<1>1. TSOInv /\ TypeOK /\ Control /\ OnTheWay
  BY DEF MInv, IInv, TSOInv
<1> DEFINE o == [physical |-> next[t], logical |-> 0]
<1>2. /\ UNCHANGED <<rpc, srv, cur, reply, prior, synced>>
      /\ objs' = Append(objs, o) /\ ts' = [ts EXCEPT ![t] = Len(objs) + 1]
      /\ next' = [next EXCEPT ![t] = 0]
      /\ pc[t] = "store" /\ \A s \in Server \ {t} : pc'[s] = pc[s]
  BY <1>1 DEF StoreTimestamp, Goto, TypeOK, reqVars
<1>3. o \in Object /\ o.physical = next[t]
  BY <1>1 DEF TypeOK, Object
<1> HIDE DEF o
<1>4. /\ \A i \in DOMAIN objs : objs'[i] = objs[i]
      /\ objs'[Len(objs) + 1] = o
      /\ Len(objs) + 1 # 0
  <2>1. /\ \A i \in 1 .. Len(objs) : Append(objs, o)[i] = objs[i]
        /\ Append(objs, o)[Len(objs) + 1] = o
    BY <1>1, <1>3, AppendObject
  <2>2. DOMAIN objs = 1 .. Len(objs) /\ Len(objs) \in Nat
    BY <1>1 DEF TypeOK
  <2> QED
    BY <1>2, <2>1, <2>2
<1>5. ts'[t] = Len(objs) + 1 /\ Low(t)' = next[t]
  BY <1>1, <1>2, <1>3, <1>4 DEF Low, TypeOK
<1>6. ASSUME NEW s \in Server \ {t}, HasWindow(s)'
      PROVE  /\ HasWindow(s) /\ ts'[s] = ts[s] /\ Low(s)' = Low(s)
             /\ \A g \in Answered : Below(g, s) => Below(g, s)'
  <2>1. ts'[s] = ts[s] /\ next'[s] = next[s] /\ HasWindow(s)
    BY <1>1, <1>2, <1>6 DEF TypeOK, HasWindow
  <2>2. ts[s] # 0 => ts[s] \in DOMAIN objs
    BY <1>1, WindowTypes
  <2>3. Low(s)' = Low(s)
    BY <1>4, <2>1, <2>2 DEF Low
  <2> QED
    BY <1>1, <2>1, <2>3, BelowCarries
<1>7. HasWindow(t) /\ Low(t) \in Nat /\ next[t] \in Nat
      /\ (ts[t] = 0 => Low(t) = next[t]) /\ (ts[t] # 0 => Low(t) + Ms <= next[t])
  BY <1>1, <1>2, WindowTypes DEF HasWindow, Low, OnTheWay
<1>8. ASSUME NEW g \in Answered, Below(g, t) PROVE Below(g, t)'
  <2>1. reply[g].physical < Milli(next[t])
    <3>1. CASE ts[t] = 0
      BY <1>7, <1>8, <3>1 DEF Below
    <3>2. CASE ts[t] # 0
      <4>1. Milli(Low(t)) < Milli(next[t])
        BY <1>7, <3>2, MilliApart
      <4>2. Milli(Low(t)) \in Nat /\ Milli(next[t]) \in Nat /\ reply[g].physical \in Nat
        BY <1>1, <1>7, MilliNat, Numbers
      <4>3. reply[g].physical <= Milli(Low(t))
        BY <1>8, <4>2 DEF Below
      <4> QED
        BY <4>1, <4>2, <4>3
    <3> QED
      BY <3>1, <3>2
  <2> QED
    BY <1>2, <1>5, <2>1 DEF Below
<1>9. ASSUME NEW i \in DOMAIN objs, i = ts[t] \/ objs[i].physical + Ms <= Low(t)
      PROVE  objs[i].physical + Ms <= Low(t)'
  <2>1. objs[i].physical \in Nat /\ Ms \in Nat
    BY <1>1, WindowTypes
  <2>2. CASE i = ts[t]
    <3>1. ts[t] # 0
      BY <1>1, <2>2 DEF TypeOK
    <3>2. Low(t) = objs[i].physical
      BY <2>2, <3>1 DEF Low
    <3> QED
      BY <1>5, <1>7, <3>1, <3>2
  <2>3. CASE objs[i].physical + Ms <= Low(t)
    <3>1. Low(t) <= next[t]
      BY <1>7, <2>1
    <3> QED
      BY <1>5, <1>7, <2>1, <2>3, <3>1
  <2> QED
    BY <1>9, <2>2, <2>3
<1>10. ASSUME NEW s \in Server, HasWindow(s)'
       PROVE  /\ \A g \in Answered : (HasWindow(s) => Below(g, s)) => Below(g, s)'
              /\ \A i \in DOMAIN objs :
                   (HasWindow(s) => i = ts[s] \/ objs[i].physical + Ms <= Low(s)) =>
                     i = ts'[s] \/ objs[i].physical + Ms <= Low(s)'
  <2>1. CASE s = t
    BY <1>7, <1>8, <1>9, <2>1
  <2>2. CASE s # t
    BY <1>6, <1>10, <2>2
  <2> QED
    BY <2>1, <2>2
<1> QED
  BY <1>2, <1>4, <1>10, ServerStep

(* Every step is one of these. *)
LEMMA StepKinds ==
  ASSUME TypeOK, Control, [Next]_vars
  PROVE  \/ \E r \in Req, s \in Server : Tso(r, s)
         \/ \E r \in Req : LoadTS(r)
         \/ \E r \in Req : AddTS(r)
         \/ \E s \in Server : SaveTimestamp(s) /\ leaderKey = s
         \/ \E s \in Server : StoreTimestamp(s)
         \/ /\ UNCHANGED <<srv, cur, reply, prior>>
            /\ \A r \in Req : rpc'[r] \in {rpc[r], "failed"}
            /\ \A s \in Server : synced'[s] = synced[s]
                                 \/ (synced'[s] = Answered /\ ~HasWindow(s)')
<1> DEFINE Rest == /\ UNCHANGED <<srv, cur, reply, prior>>
                   /\ \A r \in Req : rpc'[r] \in {rpc[r], "failed"}
                   /\ \A s \in Server : synced'[s] = synced[s]
                                        \/ (synced'[s] = Answered /\ ~HasWindow(s)')
<1>1. ASSUME UNCHANGED <<reqVars, synced>> PROVE Rest
  <2>1. UNCHANGED <<rpc, srv, cur, reply, prior>> /\ synced' = synced
    BY <1>1 DEF reqVars
  <2>2. \A r \in Req : rpc'[r] \in {rpc[r], "failed"}
    BY <2>1
  <2>3. \A s \in Server : synced'[s] = synced[s]
    BY <2>1
  <2> QED
    BY <2>1, <2>2, <2>3, Zenon
<1>2. ASSUME NEW t \in Server, SyncTimestamp(t) PROVE Rest
  <2>1. /\ pc[t] = "load" /\ ts' = ts /\ pc' = [pc EXCEPT ![t] = "save"]
        /\ synced' = [synced EXCEPT ![t] = Answered]
        /\ UNCHANGED <<rpc, srv, cur, reply, prior>>
    BY <1>2 DEF SyncTimestamp, Goto, reqVars
  <2>2. ~HasWindow(t)'
    BY <2>1 DEF HasWindow, Control, TypeOK
  <2>3. \A s \in Server : synced'[s] = IF s = t THEN Answered ELSE synced[s]
    BY <2>1 DEF TypeOK
  <2>4. \A s \in Server : synced'[s] = synced[s] \/ (synced'[s] = Answered /\ ~HasWindow(s)')
    <3> SUFFICES ASSUME NEW s \in Server
                 PROVE  synced'[s] = synced[s] \/ (synced'[s] = Answered /\ ~HasWindow(s)')
      OBVIOUS
    <3>1. CASE s = t
      BY <2>2, <2>3, <3>1, Zenon
    <3>2. CASE s # t
      BY <2>3, <3>2
    <3> QED
      BY <3>1, <3>2
  <2>5. \A r \in Req : rpc'[r] \in {rpc[r], "failed"}
    BY <2>1
  <2> QED
    BY <2>1, <2>4, <2>5, Zenon
<1>3. ASSUME NEW t \in Server, Crash(t) PROVE Rest
  <2>1. UNCHANGED <<srv, cur, reply, prior>> /\ synced' = synced
    BY <1>3 DEF Crash
  <2>2. \A r \in Req : rpc'[r] \in {rpc[r], "failed"}
    BY <1>3 DEF Crash
  <2>3. \A s \in Server : synced'[s] = synced[s]
    BY <2>1
  <2> QED
    BY <2>1, <2>2, <2>3, Zenon
<1>4. \/ UNCHANGED <<reqVars, synced>>
      \/ \E s \in Server : SyncTimestamp(s) \/ Crash(s)
      \/ \E r \in Req, s \in Server : Tso(r, s)
      \/ \E r \in Req : LoadTS(r) \/ AddTS(r)
  BY DEF Next, Steady, Fault, Compaction, Election, Serving, Request,
     GetLeader, DeleteLeaderKey, WatchDelete, WatchReturns, CampaignLeader,
     SaveTimestamp, StoreTimestamp, EnableLeader, UpdateTimestamp, DisableLeader,
     ClearTimestamp, EtcdLeaderLoop, MoveEtcdLeader, Restart,
     EtcdElects, LeaseExpires, EtcdLeaderChanges, ResignLeader, KeepAliveClosed,
     CampaignFails, WatchCanceled, DeleteError, CampaignError, SaveError,
     WatchCompacted, vars
<1> QED
  BY <1>1, <1>2, <1>3, <1>4

(* The first state has no answer and no window. *)
LEMMA InitMInv == Init => MInv
<1> SUFFICES ASSUME Init PROVE MInv
  OBVIOUS
<1>1. IInv
  BY InitIInv
<1>2. Answered = {} /\ \A s \in Server : ~HasWindow(s)
  BY DEF Init, Answered, HasWindow
<1>3. History /\ WindowAhead /\ ObjectAhead /\ MonotonicTimestamps
  BY <1>2 DEF Init, History, WindowAhead, ObjectAhead, MonotonicTimestamps
<1> QED
  BY <1>1, <1>3 DEF MInv

(* The invariant is inductive. *)
LEMMA NextMInv == MInv /\ [Next]_vars => MInv'
<1> SUFFICES ASSUME MInv, [Next]_vars PROVE MInv'
  OBVIOUS
<1>1. IInv /\ TypeOK /\ Control /\ OnTheWay /\ Saved
  BY DEF MInv, IInv, TSOInv
<1>2. IInv'
  BY <1>1, NextIInv
<1>3. Ahead'
  <2>1. ASSUME NEW r \in Req, NEW s \in Server, Tso(r, s) PROVE Ahead'
    BY <2>1, TsoStep
  <2>2. ASSUME NEW r \in Req, LoadTS(r) PROVE Ahead'
    BY <2>2, LoadTSStep
  <2>3. ASSUME NEW s \in Server, SaveTimestamp(s), leaderKey = s PROVE Ahead'
    BY <2>3, SaveAhead
  <2>4. ASSUME NEW s \in Server, StoreTimestamp(s) PROVE Ahead'
    BY <2>4, StoreAhead
  <2>5. CASE Quiet
    <3>1. ASSUME NEW r \in Req, AddTS(r) PROVE Ahead'
      BY <2>5, <3>1, AddTSStep
    <3>2. CASE /\ UNCHANGED <<srv, cur, reply, prior>>
               /\ \A r \in Req : rpc'[r] \in {rpc[r], "failed"}
               /\ \A s \in Server : synced'[s] = synced[s]
                                    \/ (synced'[s] = Answered /\ ~HasWindow(s)')
      BY <2>5, <3>2, IdleStep
    <3> QED
      BY <1>1, <2>1, <2>2, <2>3, <2>4, <3>1, <3>2, StepKinds
  <2> QED
    BY <1>1, <2>3, <2>4, <2>5, QuietActions
<1> QED
  BY <1>2, <1>3 DEF Ahead, MInv

(***************************************************************************)
(* Theorem                                                                 *)
(***************************************************************************)
(* Whoever asks one server again, or a leader that loaded the saved        *)
(* timestamp after the earlier answer, gets a later timestamp, however     *)
(* getRespTS, the elections, the clocks and the failures interleave.       *)
THEOREM TimestampsGrow == Spec => []MonotonicTimestamps
<1>1. MInv => MonotonicTimestamps
  BY DEF MInv
<1> QED
  BY <1>1, InitMInv, NextMInv, PTL DEF Spec
============================================================================
