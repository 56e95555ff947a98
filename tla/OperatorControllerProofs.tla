---------------------- MODULE OperatorControllerProofs ----------------------
(***************************************************************************)
(* The operator controller, for any number of regions, stores, operators   *)
(* and commands, and whatever the authors of operators propose: operator   *)
(* numbers, positions and buckets stay within their ranges (TypeOK), the   *)
(* halves of a merge stay side by side in their bucket, and the waiting    *)
(* operators are counted exactly; and what runs unfinished has its item in *)
(* the notifier queue, unless its position was set back.                   *)
(*                                                                         *)
(* None of them is inductive.  GetOperator takes two operators from a      *)
(* bucket whose head is a merge: that they are there, and that they belong *)
(* together, is a fact about the whole bucket (Bucket), which depends on   *)
(* how the operators in an author's hands are numbered (HandOK); an        *)
(* operator number that a goroutine holds between two locked sections has  *)
(* to be one still when it is used (DispOK).                               *)
(***************************************************************************)
EXTENDS OperatorController, SequenceTheorems, FiniteSetTheorems, NaturalsInduction, TLAPS

(***************************************************************************)
(* Sequences of no particular elements.                                    *)
(***************************************************************************)
IsSeq(s) == \E S : s \in Seq(S)

LEMMA SeqConcat ==
  ASSUME NEW s, NEW t, IsSeq(s), IsSeq(t)
  PROVE  /\ IsSeq(s \o t) /\ Len(s) \in Nat /\ Len(t) \in Nat
         /\ Len(s \o t) = Len(s) + Len(t)
         /\ \A i \in 1 .. Len(s) : (s \o t)[i] = s[i]
         /\ \A i \in 1 .. Len(t) : (s \o t)[Len(s) + i] = t[i]
<1>1. PICK S : s \in Seq(S)
  BY DEF IsSeq
<1>2. PICK T : t \in Seq(T)
  BY DEF IsSeq
<1> DEFINE U == S \union T
           m == Len(s)
           n == Len(t)
<1>3. s \in Seq(U) /\ t \in Seq(U)
  BY <1>1, <1>2
<1> HIDE DEF U
<1>4. /\ s \o t \in Seq(U) /\ m \in Nat /\ n \in Nat /\ Len(s \o t) = m + n
      /\ \A i \in 1 .. m + n : (s \o t)[i] = IF i <= m THEN s[i] ELSE t[i - m]
  BY <1>3, ConcatProperties
<1>5. ASSUME NEW i \in 1 .. n PROVE (s \o t)[m + i] = t[i]
  <2> HIDE DEF m, n
  <2>1. m + i \in 1 .. m + n /\ ~(m + i <= m) /\ m + i - m = i
    BY <1>4
  <2> QED
    BY <1>4, <2>1
<1>6. ASSUME NEW i \in 1 .. m PROVE (s \o t)[i] = s[i]
  <2> HIDE DEF m, n
  <2>1. i \in 1 .. m + n /\ i <= m
    BY <1>4
  <2> QED
    BY <1>4, <2>1
<1> QED
  BY <1>4, <1>5, <1>6 DEF IsSeq

LEMMA SeqFacts ==
  ASSUME NEW s, IsSeq(s)
  PROVE  /\ Len(s) \in Nat /\ DOMAIN s = 1 .. Len(s)
         /\ s # <<>> <=> Len(s) > 0
         /\ s # <<>> => IsSeq(Tail(s)) /\ Len(Tail(s)) = Len(s) - 1
<1>1. PICK S : s \in Seq(S)
  BY DEF IsSeq
<1>2. s # <<>> => Tail(s) \in Seq(S) /\ Len(Tail(s)) = Len(s) - 1
  BY <1>1
<1>3. Len(s) \in Nat /\ DOMAIN s = 1 .. Len(s) /\ (s # <<>> <=> Len(s) > 0)
  BY <1>1
<1> QED
  BY <1>2, <1>3 DEF IsSeq

LEMMA FunctionSeq ==
  ASSUME NEW n \in Nat, NEW f, DOMAIN f = 1 .. n, f = [i \in 1 .. n |-> f[i]]
  PROVE  IsSeq(f) /\ Len(f) = n
<1> DEFINE S == {f[i] : i \in 1 .. n}
<1>1. f \in [1 .. n -> S]
  OBVIOUS
<1> HIDE DEF S
<1>2. f \in Seq(S) /\ Len(f) = n
  BY <1>1
<1> QED
  BY <1>2 DEF IsSeq

LEMMA ShortSeqs ==
  /\ IsSeq(<<>>) /\ Len(<<>>) = 0
  /\ \A x : IsSeq(<<x>>) /\ Len(<<x>>) = 1
  /\ \A x, y : IsSeq(<<x, y>>) /\ Len(<<x, y>>) = 2
<1>1. <<>> \in Seq({}) /\ Len(<<>>) = 0
  OBVIOUS
<1>2. ASSUME NEW x PROVE IsSeq(<<x>>) /\ Len(<<x>>) = 1
  <2>1. <<x>> \in Seq({x})
    OBVIOUS
  <2> QED
    BY <2>1 DEF IsSeq
<1>3. ASSUME NEW x, NEW y PROVE IsSeq(<<x, y>>) /\ Len(<<x, y>>) = 2
  <2>1. <<x, y>> \in Seq({x, y})
    OBVIOUS
  <2> QED
    BY <2>1 DEF IsSeq
<1> QED
  BY <1>1, <1>2, <1>3 DEF IsSeq

(* Every nonempty set of natural numbers has a least element. *)
LEMMA Least ==
  ASSUME NEW T, T \subseteq Nat, T # {}
  PROVE  \E x \in T : \A y \in T : x <= y
<1> DEFINE R == OpToRel(<, Nat)
<1>1. IsWellFoundedOn(R, Nat)
  BY NatLessThanWellFounded, Zenon
<1> HIDE DEF R
<1>2. PICK x \in T : \A y \in T : ~(<<y, x>> \in R)
  BY <1>1, WFMin
<1>3. \A y \in T : ~(y < x)
  BY <1>2 DEF R, OpToRel
<1> QED
  BY <1>3

(* Check leaves an operator at a step or behind the last one. *)
LEMMA CheckRange ==
  ASSUME NEW o, NEW region, Len(o.steps) \in Nat, o.currentStep \in 1 .. Len(o.steps) + 1
  PROVE  Check(o, region) \in 1 .. Len(o.steps) + 1
<1> DEFINE n == Len(o.steps)
           U == {i \in o.currentStep .. n : ~IsFinish(o.steps[i], region)}
<1>1. Check(o, region) =
        IF U = {} THEN n + 1 ELSE CHOOSE i \in U : \A j \in U : i <= j
  BY DEF Check
<1>2. U \subseteq 1 .. n /\ U \subseteq Nat
  OBVIOUS
<1>3. n \in Nat
  OBVIOUS
<1> HIDE DEF U, n
<1>4. CASE U = {}
  BY <1>1, <1>3, <1>4 DEF n
<1>5. CASE U # {}
  <2>1. \E i \in U : \A j \in U : i <= j
    BY <1>2, <1>5, Least
  <2>2. (CHOOSE i \in U : \A j \in U : i <= j) \in U
    BY <2>1
  <2>3. Check(o, region) \in 1 .. n
    BY <1>1, <1>2, <1>5, <2>2
  <2> QED
    BY <1>3, <2>3 DEF n
<1> QED
  BY <1>4, <1>5

(***************************************************************************)
(* The inductive invariant.                                                *)
(***************************************************************************)
OpFields == {"desc", "region", "epoch", "kind", "steps", "currentStep", "level",
             "started"}

OpOK(x) ==
  /\ DOMAIN x = OpFields
  /\ x.region \in Region /\ x.desc \in Descs /\ x.level \in Level
  /\ Len(x.steps) \in Nat /\ x.currentStep \in 1 .. Len(x.steps) + 1

OpsOK ==
  /\ IsSeq(op) /\ Len(op) <= MaxOps
  /\ \A o \in 1 .. Len(op) : OpOK(op[o])

(* A region is known by its own number, until it is merged away. *)
RegionsOK ==
  /\ DOMAIN tikv = Region /\ DOMAIN cache = Region
  /\ \A r \in Region : /\ tikv[r] = Gone \/ ("id" \in DOMAIN tikv[r] /\ tikv[r].id = r)
                       /\ cache[r] = Gone \/ ("id" \in DOMAIN cache[r] /\ cache[r].id = r)

Runs(r) ==
  operators[r] # 0 =>
    operators[r] \in 1 .. Len(op) /\ op[operators[r]].region = r /\ op[operators[r]].started

RunningOK == operators \in [Region -> Nat] /\ \A r \in Region : Runs(r)

(* A region that a goroutine may have in its hand. *)
Seen(t) == t # Gone /\ "id" \in DOMAIN t /\ t.id \in Region

DispOK ==
  /\ DOMAIN disp = Goroutine
  /\ \A d \in Goroutine :
       \/ disp[d] = Idle
       \/ disp[d].pc \in {"put", "begin"} /\ Seen(disp[d].region)
       \/ /\ disp[d].pc \in {"check", "poll"} /\ disp[d].o \in 1 .. Len(op)
          /\ disp[d].step \in 1 .. Len(op[disp[d].o].steps) + 1
          /\ Seen(disp[d].region)
       \/ disp[d].pc = "remove" /\ disp[d].o \in 1 .. Len(op)

SetsOK ==
  /\ queue \subseteq 1 .. Len(op) /\ removing \subseteq 1 .. Len(op)
  /\ DOMAIN msgs = Region /\ \A r \in Region : IsSeq(msgs[r]) /\ Len(msgs[r]) <= MaxMsgs

IsMerge(x) == "merge" \in x.kind
Half(x) == Last(x.steps)

(* Operators x and y are the active and the passive half of a merge. *)
Paired(x, y) ==
  /\ IsMerge(x) /\ IsMerge(y)
  /\ "passive" \in DOMAIN Half(x)
  /\ Half(x) = [Half(y) EXCEPT !.passive = FALSE]
  /\ Half(y) = [Half(x) EXCEPT !.passive = TRUE]

(* No operator waits at a position beyond its number, so that a bucket is  *)
(* never longer than the operators there are.                              *)
Bucket(ops, b) ==
  /\ b \in Seq(Nat)
  /\ \A i \in 1 .. Len(b) :
       /\ b[i] \in 1 .. Len(ops) /\ i <= b[i]
       /\ IsMerge(ops[b[i]]) => \/ i + 1 \in 1 .. Len(b) /\ Paired(ops[b[i]], ops[b[i + 1]])
                                \/ i - 1 \in 1 .. Len(b) /\ Paired(ops[b[i - 1]], ops[b[i]])

WaitingOK == DOMAIN wop = Level /\ \A l \in Level : Bucket(op, wop[l])

(* The operators in an author's hands are the last that were made, and do  *)
(* not wait yet.                                                           *)
Below(w, n) == \A l \in Level : \A i \in 1 .. Len(w[l]) : w[l][i] <= n

HandOK ==
  LET n == Len(op)
  IN  \/ hand = NoHand
      \/ n >= 1 /\ hand.os = <<n>> /\ ~IsMerge(op[n]) /\ Below(wop, n - 1)
      \/ /\ n >= 2 /\ hand.os = <<n - 1, n>> /\ Paired(op[n - 1], op[n])
         /\ Below(wop, n - 2) /\ op[n - 1].level = op[n].level

Counted(x, d) == x.desc = d /\ (IsMerge(x) => ~Half(x).passive)

Waits(ops, w, d) ==
  {t \in Level \X (1 .. MaxOps) : t[2] \in DOMAIN w[t[1]] /\ Counted(ops[w[t[1]][t[2]]], d)}

CountOK ==
  /\ DOMAIN wopStatus = Descs
  /\ \A d \in Descs : wopStatus[d] = Cardinality(Waits(op, wop, d))

ControlInv ==
  /\ OpsOK /\ RegionsOK /\ RunningOK /\ DispOK /\ SetsOK
  /\ WaitingOK /\ HandOK /\ CountOK

(* What an action does to the operators that are there: at most it starts  *)
(* them or moves them to another step.                                     *)
Kept(x, y) ==
  /\ y.region = x.region /\ y.desc = x.desc /\ y.level = x.level
  /\ y.kind = x.kind /\ y.steps = x.steps
  /\ x.started => y.started

OpsKept ==
  /\ IsSeq(op') /\ Len(op) \in Nat /\ Len(op') \in Nat /\ Len(op) <= Len(op')
  /\ \A o \in 1 .. Len(op) : OpOK(op'[o]) /\ Kept(op[o], op'[o])

(* x with some of its moving parts replaced. *)
LEMMA OpUpdate ==
  ASSUME NEW x, OpOK(x), NEW pos \in 1 .. Len(x.steps) + 1
  PROVE  /\ LET y == [x EXCEPT !.currentStep = pos] IN OpOK(y) /\ Kept(x, y)
         /\ LET y == [x EXCEPT !.started = TRUE, !.currentStep = pos]
            IN OpOK(y) /\ Kept(x, y) /\ y.started
<1>0. \A f \in OpFields : f \in DOMAIN x
  BY DEF OpOK
<1>1. ASSUME NEW y, y = [x EXCEPT !.currentStep = pos] PROVE OpOK(y) /\ Kept(x, y)
  <2>1. DOMAIN y = DOMAIN x /\ y.currentStep = pos
    BY <1>0, <1>1 DEF OpFields
  <2>2. /\ y.region = x.region /\ y.desc = x.desc /\ y.level = x.level
        /\ y.kind = x.kind /\ y.steps = x.steps /\ y.started = x.started
    BY <1>0, <1>1 DEF OpFields
  <2> QED
    BY <2>1, <2>2 DEF OpOK, Kept
<1>2. ASSUME NEW y, y = [x EXCEPT !.started = TRUE, !.currentStep = pos]
      PROVE  OpOK(y) /\ Kept(x, y) /\ y.started
  <2>1. DOMAIN y = DOMAIN x /\ y.currentStep = pos
    BY <1>0, <1>2 DEF OpFields
  <2>2. /\ y.region = x.region /\ y.desc = x.desc /\ y.level = x.level
        /\ y.kind = x.kind /\ y.steps = x.steps /\ y.started = TRUE
    BY <1>0, <1>2 DEF OpFields
  <2> QED
    BY <2>1, <2>2 DEF OpOK, Kept
<1> QED
  BY <1>1, <1>2

(* An action that moves one operator. *)
LEMMA OneMoved ==
  ASSUME OpsOK, NEW o \in 1 .. Len(op), NEW y, OpOK(y), Kept(op[o], y),
         op' = [op EXCEPT ![o] = y]
  PROVE  OpsKept /\ Len(op') = Len(op) /\ op'[o] = y
<1>1. Len(op) \in Nat /\ DOMAIN op = 1 .. Len(op) /\ IsSeq(op)
  BY SeqFacts DEF OpsOK
<1>2. DOMAIN op' = 1 .. Len(op) /\ op' = [i \in 1 .. Len(op) |-> op'[i]]
  BY <1>1
<1>3. IsSeq(op') /\ Len(op') = Len(op)
  BY <1>1, <1>2, FunctionSeq
<1>4. ASSUME NEW i \in 1 .. Len(op) PROVE OpOK(op'[i]) /\ Kept(op[i], op'[i])
  <2>1. op'[i] = IF i = o THEN y ELSE op[i]
    BY <1>1
  <2> QED
    BY <2>1 DEF OpsOK, Kept
<1>5. op'[o] = y
  BY <1>1
<1> QED
  BY <1>1, <1>3, <1>4, <1>5 DEF OpsKept

LEMMA NoneMoved ==
  ASSUME OpsOK, op' = op
  PROVE  OpsKept /\ Len(op') = Len(op)
  BY SeqFacts DEF OpsOK, OpsKept, Kept

(***************************************************************************)
(* What the parts of the invariant owe to the operators.                   *)
(***************************************************************************)
LEMMA OpsKeptOK ==
  ASSUME OpsOK, OpsKept, Len(op') = Len(op)
  PROVE  OpsOK'
<1>1. IsSeq(op') /\ Len(op') = Len(op) /\ \A o \in 1 .. Len(op) : OpOK(op'[o])
  BY DEF OpsKept
<1> QED
  BY <1>1 DEF OpsOK

LEMMA RunningKept ==
  ASSUME OpsKept, RunningOK, operators' = operators
  PROVE  RunningOK'
  BY DEF OpsKept, RunningOK, Runs, Kept

LEMMA PairedKept ==
  ASSUME NEW x, NEW x1, NEW y, NEW y1, Kept(x, x1), Kept(y, y1)
  PROVE  /\ IsMerge(x1) <=> IsMerge(x)
         /\ Paired(x1, y1) <=> Paired(x, y)
         /\ \A d : Counted(x1, d) <=> Counted(x, d)
  BY DEF Kept, IsMerge, Paired, Half, Counted

LEMMA WaitingKept ==
  ASSUME OpsKept, NEW b, Bucket(op, b)
  PROVE  Bucket(op', b)
<1>1. Bucket(op, b) /\ Len(op) \in Nat /\ Len(op') \in Nat /\ Len(op) <= Len(op')
  BY DEF OpsKept
<1>0. \A o \in 1 .. Len(op) : Kept(op[o], op'[o])
  BY DEF OpsKept
<1>2. ASSUME NEW i \in 1 .. Len(b)
      PROVE  /\ b[i] \in 1 .. Len(op) /\ i <= b[i]
             /\ IsMerge(op'[b[i]]) =>
                  \/ i + 1 \in 1 .. Len(b) /\ Paired(op'[b[i]], op'[b[i + 1]])
                  \/ i - 1 \in 1 .. Len(b) /\ Paired(op'[b[i - 1]], op'[b[i]])
  <2>1. \A j \in 1 .. Len(b) : b[j] \in 1 .. Len(op) /\ Kept(op[b[j]], op'[b[j]])
    BY <1>0, <1>1 DEF Bucket
  <2>2. \A j \in 1 .. Len(b) : /\ IsMerge(op'[b[i]]) <=> IsMerge(op[b[i]])
                               /\ Paired(op'[b[i]], op'[b[j]]) <=> Paired(op[b[i]], op[b[j]])
                               /\ Paired(op'[b[j]], op'[b[i]]) <=> Paired(op[b[j]], op[b[i]])
    BY <2>1, PairedKept
  <2> DEFINE p == i + 1
             m == i - 1
  <2>3. /\ b[i] \in 1 .. Len(op) /\ i <= b[i]
        /\ IsMerge(op[b[i]]) => \/ p \in 1 .. Len(b) /\ Paired(op[b[i]], op[b[p]])
                                \/ m \in 1 .. Len(b) /\ Paired(op[b[m]], op[b[i]])
    BY <1>1 DEF Bucket
  <2> HIDE DEF p, m
  <2>4. IsMerge(op'[b[i]]) => \/ p \in 1 .. Len(b) /\ Paired(op'[b[i]], op'[b[p]])
                              \/ m \in 1 .. Len(b) /\ Paired(op'[b[m]], op'[b[i]])
    BY <2>2, <2>3
  <2> QED
    BY <2>3, <2>4 DEF p, m
<1>3. b \in Seq(Nat)
  BY <1>1 DEF Bucket
<1>4. \A i \in 1 .. Len(b) : b[i] \in 1 .. Len(op')
  BY <1>1, <1>2
<1> QED
  BY <1>2, <1>3, <1>4 DEF Bucket

LEMMA CountKept ==
  ASSUME OpsKept, NEW w, \A l \in Level : Bucket(op, w[l]), NEW d
  PROVE  Waits(op', w, d) = Waits(op, w, d)
<1>1. ASSUME NEW t \in Level \X (1 .. MaxOps), t[2] \in DOMAIN w[t[1]]
      PROVE  Counted(op'[w[t[1]][t[2]]], d) <=> Counted(op[w[t[1]][t[2]]], d)
  <2>1. t[1] \in Level
    OBVIOUS
  <2> DEFINE b == w[t[1]]
             i == t[2]
  <2>a. Bucket(op, b) /\ i \in DOMAIN b
    BY <1>1, <2>1
  <2> HIDE DEF b, i
  <2>2. Bucket(op, b) /\ i \in 1 .. Len(b)
    BY <2>a DEF Bucket
  <2>3. b[i] \in 1 .. Len(op)
    BY <2>2 DEF Bucket
  <2>4. Kept(op[b[i]], op'[b[i]])
    BY <2>3 DEF OpsKept
  <2>5. Counted(op'[b[i]], d) <=> Counted(op[b[i]], d)
    BY <2>4, PairedKept
  <2> QED
    BY <2>5 DEF b, i
<1> QED
  BY <1>1 DEF Waits

LEMMA HandKept ==
  ASSUME OpsOK, OpsKept, Len(op') = Len(op), HandOK, hand' = hand,
         \A n \in Nat : Below(wop, n) => Below(wop', n)
  PROVE  HandOK'
<1> DEFINE n == Len(op)
<1>0. n \in Nat /\ Len(op') = n /\ \A o \in 1 .. n : Kept(op[o], op'[o])
  BY SeqFacts DEF OpsOK, OpsKept
<1> HIDE DEF n
<1>1. CASE hand = NoHand
  BY <1>1 DEF HandOK
<1>2. CASE n >= 1 /\ hand.os = <<n>> /\ ~IsMerge(op[n]) /\ Below(wop, n - 1)
  <2>1. n \in 1 .. n
    BY <1>0, <1>2
  <2>2. ~IsMerge(op'[n])
    BY <1>0, <1>2, <2>1, PairedKept
  <2>3. Below(wop', n - 1)
    BY <1>0, <1>2
  <2> QED
    BY <1>0, <1>2, <2>2, <2>3 DEF HandOK
<1>3. CASE /\ n >= 2 /\ hand.os = <<n - 1, n>> /\ Paired(op[n - 1], op[n])
           /\ Below(wop, n - 2) /\ op[n - 1].level = op[n].level
  <2>1. n \in 1 .. n /\ n - 1 \in 1 .. n
    BY <1>0, <1>3
  <2>2. Kept(op[n], op'[n]) /\ Kept(op[n - 1], op'[n - 1])
    BY <1>0, <2>1
  <2>3. Paired(op'[n - 1], op'[n]) /\ op'[n - 1].level = op'[n].level
    BY <1>3, <2>2, PairedKept DEF Kept
  <2>4. Below(wop', n - 2)
    BY <1>0, <1>3
  <2> QED
    BY <1>0, <1>3, <2>3, <2>4 DEF HandOK
<1> QED
  BY <1>1, <1>2, <1>3 DEF HandOK, n

LEMMA DispKept ==
  ASSUME OpsKept, DispOK, disp' = disp
  PROVE  DispOK'
<1>1. /\ 1 .. Len(op) \subseteq 1 .. Len(op')
      /\ \A o \in 1 .. Len(op) : op'[o].steps = op[o].steps
  BY DEF OpsKept, Kept
<1> QED
  BY <1>1 DEF DispOK

LEMMA SetsKept ==
  ASSUME OpsKept, SetsOK, queue' = queue, removing' = removing, msgs' = msgs
  PROVE  SetsOK'
  BY DEF OpsKept, SetsOK

(***************************************************************************)
(* The regions.                                                            *)
(***************************************************************************)
KnownAs(t, r) == t = Gone \/ ("id" \in DOMAIN t /\ t.id = r)

LEMMA BumpKnown ==
  ASSUME NEW t, NEW f, NEW id, "id" \in DOMAIN t, t.id = id
  PROVE  "id" \in DOMAIN bump(t, f) /\ bump(t, f).id = id
  BY DEF bump

LEMMA AbsorbKnown ==
  ASSUME NEW t, NEW u, NEW id, "id" \in DOMAIN t, t.id = id
  PROVE  "id" \in DOMAIN absorb(t, u) /\ absorb(t, u).id = id
<1> DEFINE a == IF u.start < t.start THEN u.start ELSE t.start
           b == IF u.end > t.end THEN u.end ELSE t.end
           w == [t EXCEPT !.start = a, !.end = b]
<1>1. absorb(t, u) = bump(w, 2)
  BY DEF absorb
<1> HIDE DEF a, b
<1>2. "id" \in DOMAIN w /\ w.id = id
  OBVIOUS
<1> HIDE DEF w
<1>3. "id" \in DOMAIN bump(w, 2) /\ bump(w, 2).id = id
  BY <1>2, BumpKnown
<1> QED
  BY <1>1, <1>3

LEMMA ApplyKnown ==
  ASSUME NEW t, NEW st, NEW r, "id" \in DOMAIN t, t.id = r
  PROVE  KnownAs(apply(t, st), r)
<1> DEFINE A == [t EXCEPT !.leader = st.to]
           L == [t EXCEPT !.peers = @ @@ (st.to :> [id |-> st.id, learner |-> TRUE]),
                          !.pending = @ \cup {st.to}]
           V == [t EXCEPT !.peers = @ @@ (st.to :> [id |-> st.id, learner |-> FALSE]),
                          !.pending = @ \cup {st.to}]
           P == [t EXCEPT !.peers[st.to].learner = FALSE]
           D == [t EXCEPT !.peers = [s \in DOMAIN @ \ {st.from} |-> @[s]],
                          !.pending = @ \ {st.from}]
<1>1. "id" \in DOMAIN A /\ A.id = r
  OBVIOUS
<1>2. "id" \in DOMAIN L /\ L.id = r
  OBVIOUS
<1>3. "id" \in DOMAIN V /\ V.id = r
  OBVIOUS
<1>4. "id" \in DOMAIN P /\ P.id = r
  OBVIOUS
<1>5. "id" \in DOMAIN D /\ D.id = r
  OBVIOUS
<1>6. apply(t, st) =
        CASE st.type = "TransferLeader" /\ GetStoreVoter(t, st.to) -> A
          [] st.type \in {"AddLearner", "AddLightLearner"} /\ ~GetStorePeer(t, st.to) -> bump(L, 1)
          [] st.type \in {"AddPeer", "AddLightPeer"} /\ ~GetStorePeer(t, st.to) -> bump(V, 1)
          [] st.type = "PromoteLearner" /\ GetStoreLearner(t, st.to) /\ t.peers[st.to].id = st.id
               -> bump(P, 1)
          [] st.type = "RemovePeer" /\ GetStorePeer(t, st.from) /\ t.leader # st.from -> bump(D, 1)
          [] OTHER -> t
  BY DEF apply
<1> HIDE DEF A, L, V, P, D
<1>7. apply(t, st) \in {A, bump(L, 1), bump(V, 1), bump(P, 1), bump(D, 1), t}
  BY <1>6
<1>8. \A u \in {A, bump(L, 1), bump(V, 1), bump(P, 1), bump(D, 1), t} :
        "id" \in DOMAIN u /\ u.id = r
  BY <1>1, <1>2, <1>3, <1>4, <1>5, BumpKnown
<1> QED
  BY <1>7, <1>8 DEF KnownAs

LEMMA RegionsShape ==
  RegionsOK <=> /\ DOMAIN tikv = Region /\ DOMAIN cache = Region
                /\ \A r \in Region : KnownAs(tikv[r], r) /\ KnownAs(cache[r], r)
  BY DEF RegionsOK, KnownAs

LEMMA ExecuteRegions ==
  ASSUME RegionsOK, NEW r \in Region, TiKVExecute(r)
  PROVE  RegionsOK'
<1> DEFINE m == Head(msgs[r])
           t == tikv[r]
           q == m.step.target
<1>0. /\ DOMAIN tikv = Region /\ DOMAIN cache = Region
      /\ \A x \in Region : KnownAs(tikv[x], x) /\ KnownAs(cache[x], x)
      /\ t # Gone /\ cache' = cache
  BY RegionsShape DEF TiKVExecute, accepted
<1>t. "id" \in DOMAIN t /\ t.id = r
  BY <1>0 DEF KnownAs
<1>1. CASE m.step.type = "MergeRegion"
  <2>1. tikv[q] # Gone /\ tikv' = [tikv EXCEPT ![r] = Gone, ![q] = absorb(tikv[q], t)]
    BY <1>1 DEF TiKVExecute
  <2> DEFINE v == absorb(tikv[q], t)
  <2>2. q \in Region => KnownAs(v, q)
    <3> SUFFICES ASSUME q \in Region PROVE "id" \in DOMAIN v /\ v.id = q
      BY DEF KnownAs
    <3>1. "id" \in DOMAIN tikv[q] /\ tikv[q].id = q
      BY <1>0, <2>1 DEF KnownAs
    <3> QED
      BY <3>1, AbsorbKnown
  <2> HIDE DEF v, q
  <2>3. DOMAIN tikv' = Region
    BY <1>0, <2>1
  <2>4. ASSUME NEW x \in Region PROVE KnownAs(tikv'[x], x)
    <3>1. tikv'[x] = IF x = q THEN v ELSE IF x = r THEN Gone ELSE tikv[x]
      BY <1>0, <2>1 DEF v
    <3>2. KnownAs(Gone, x)
      BY DEF KnownAs
    <3> QED
      BY <1>0, <2>2, <3>1, <3>2
  <2> QED
    BY <1>0, <2>3, <2>4 DEF RegionsOK, KnownAs
<1>2. CASE m.step.type # "MergeRegion"
  <2>1. tikv' = [tikv EXCEPT ![r] = apply(t, m.step)]
    BY <1>2 DEF TiKVExecute
  <2>2. KnownAs(apply(t, m.step), r)
    BY <1>t, ApplyKnown
  <2>3. DOMAIN tikv' = Region /\ \A x \in Region : KnownAs(tikv'[x], x)
    BY <1>0, <2>1, <2>2
  <2> QED
    BY <1>0, <2>3 DEF RegionsOK, KnownAs
<1> QED
  BY <1>1, <1>2

(***************************************************************************)
(* addOperatorLocked.                                                      *)
(***************************************************************************)
LEMMA CommandSeq ==
  ASSUME NEW region, NEW step
  PROVE  IsSeq(SendScheduleCommand(region, step))
  BY ShortSeqs DEF SendScheduleCommand

LEMMA AddLocked ==
  ASSUME OpsOK, RunningOK, SetsOK, NEW os, ToSet(os) \subseteq 1 .. Len(op),
         addOperatorLocked(os)
  PROVE  /\ OpsKept /\ Len(op') = Len(op) /\ RunningOK' /\ queue' \subseteq 1 .. Len(op)
         /\ DOMAIN msgs' = Region /\ \A r \in Region : IsSeq(msgs'[r]) /\ Len(msgs'[r]) <= MaxMsgs
<1> DEFINE new(r)   == {o \in ToSet(os) : op[o].region = r}
           fresh(r) == CHOOSE o \in new(r) : TRUE
           pos(o)   == Check(op[o], cache[op[o].region])
           cmd(o)   == IF pos(o) > Len(op[o].steps) THEN <<>>
                       ELSE SendScheduleCommand(cache[op[o].region], op[o].steps[pos(o)])
<1>1. /\ \A r \in Region : new(r) # {} => Len(msgs[r] \o cmd(fresh(r))) <= MaxMsgs
      /\ operators' = [r \in Region |-> IF new(r) = {} THEN operators[r] ELSE fresh(r)]
      /\ op' = [o \in DOMAIN op |-> IF o \in ToSet(os) THEN start(o, pos(o)) ELSE op[o]]
      /\ queue' = queue \union ToSet(os)
      /\ msgs' = [r \in Region |-> IF new(r) = {} THEN msgs[r] ELSE msgs[r] \o cmd(fresh(r))]
  BY DEF addOperatorLocked, notify
<1>2. Len(op) \in Nat /\ DOMAIN op = 1 .. Len(op) /\ \A o \in 1 .. Len(op) : OpOK(op[o])
  BY SeqFacts DEF OpsOK
<1>3. \A o \in 1 .. Len(op) : pos(o) \in 1 .. Len(op[o].steps) + 1
  BY <1>2, CheckRange DEF OpOK
<1>4. \A o : IsSeq(cmd(o))
  BY ShortSeqs, CommandSeq
<1>5. \A r : new(r) # {} => fresh(r) \in ToSet(os) /\ op[fresh(r)].region = r
  OBVIOUS
<1>6. \A r : new(r) \subseteq ToSet(os)
  OBVIOUS
<1> HIDE DEF new, fresh, pos, cmd
<1>7. OpsKept /\ Len(op') = Len(op)
  <2>1. DOMAIN op' = 1 .. Len(op) /\ op' = [i \in 1 .. Len(op) |-> op'[i]]
    BY <1>1, <1>2
  <2>2. IsSeq(op') /\ Len(op') = Len(op)
    BY <1>2, <2>1, FunctionSeq
  <2>3. ASSUME NEW o \in 1 .. Len(op)
        PROVE  OpOK(op'[o]) /\ Kept(op[o], op'[o]) /\ (o \in ToSet(os) => op'[o].started)
    <3>0. OpOK(op[o])
      BY <1>2
    <3>1. CASE o \in ToSet(os)
      <4>1. op'[o] = [op[o] EXCEPT !.started = TRUE, !.currentStep = pos(o)]
        BY <1>1, <1>2, <3>1 DEF start
      <4>2. pos(o) \in 1 .. Len(op[o].steps) + 1
        BY <1>3
      <4> DEFINE x == op[o]
                 p == pos(o)
      <4>3. OpOK(x) /\ p \in 1 .. Len(x.steps) + 1
        BY <3>0, <4>2
      <4> HIDE DEF x, p
      <4>4. LET y == [x EXCEPT !.started = TRUE, !.currentStep = p]
            IN OpOK(y) /\ Kept(x, y) /\ y.started
        BY <4>3, OpUpdate
      <4> QED
        BY <4>1, <4>4 DEF x, p
    <3>2. CASE o \notin ToSet(os)
      <4>1. op'[o] = op[o]
        BY <1>1, <1>2, <3>2
      <4> QED
        BY <3>0, <3>2, <4>1 DEF Kept
    <3> QED
      BY <3>1, <3>2
  <2> QED
    BY <1>2, <2>2, <2>3 DEF OpsKept
<1>8. RunningOK'
  <2>1. DOMAIN operators' = Region /\ Len(op') = Len(op)
    BY <1>1, <1>7
  <2>2. ASSUME NEW r \in Region PROVE operators'[r] \in Nat /\ Runs(r)'
    <3>1. CASE new(r) = {}
      <4>1. operators'[r] = operators[r]
        BY <1>1, <3>1
      <4> QED
        BY <1>7, <2>1, <4>1 DEF RunningOK, Runs, OpsKept, Kept
    <3>2. CASE new(r) # {}
      <4> DEFINE o == fresh(r)
      <4>1. operators'[r] = o
        BY <1>1, <3>2
      <4>2. o \in ToSet(os) /\ op[o].region = r /\ o \in 1 .. Len(op)
        BY <1>5, <3>2
      <4> HIDE DEF o
      <4>3. op'[o].region = r
        BY <1>7, <4>2 DEF OpsKept, Kept
      <4>4. op'[o].started
        <5>1. op'[o] = [op[o] EXCEPT !.started = TRUE, !.currentStep = pos(o)]
          BY <1>1, <1>2, <4>2 DEF start
        <5>2. "started" \in DOMAIN op[o]
          BY <1>2, <4>2 DEF OpOK, OpFields
        <5>3. op'[o].started = TRUE
          BY <5>1, <5>2
        <5> QED
          BY <5>3
      <4> QED
        BY <2>1, <4>1, <4>2, <4>3, <4>4 DEF Runs
    <3> QED
      BY <3>1, <3>2
  <2>3. operators' \in [Region -> Nat]
    BY <1>1, <2>2
  <2> QED
    BY <2>2, <2>3 DEF RunningOK
<1>9. queue' \subseteq 1 .. Len(op)
  BY <1>1 DEF SetsOK
<1>10. DOMAIN msgs' = Region
  BY <1>1
<1>11. ASSUME NEW r \in Region PROVE IsSeq(msgs'[r]) /\ Len(msgs'[r]) <= MaxMsgs
  <2>1. IsSeq(msgs[r]) /\ Len(msgs[r]) <= MaxMsgs
    BY DEF SetsOK
  <2>2. CASE new(r) = {}
    BY <1>1, <2>1, <2>2
  <2>3. CASE new(r) # {}
    <3>1. msgs'[r] = msgs[r] \o cmd(fresh(r)) /\ Len(msgs'[r]) <= MaxMsgs
      BY <1>1, <2>3
    <3>2. IsSeq(msgs[r] \o cmd(fresh(r)))
      BY <1>4, <2>1, SeqConcat
    <3> QED
      BY <3>1, <3>2
  <2> QED
    BY <2>2, <2>3
<1> QED
  BY <1>7, <1>8, <1>9, <1>10, <1>11

(***************************************************************************)
(* Buckets.                                                                *)
(***************************************************************************)
LEMMA PassiveHalf ==
  ASSUME NEW x, NEW y, Paired(x, y)
  PROVE  /\ Half(x).passive = FALSE /\ Half(y).passive = TRUE /\ IsMerge(x) /\ IsMerge(y)
<1> DEFINE a == Half(x)
           b == Half(y)
<1>1. /\ "passive" \in DOMAIN a /\ a = [b EXCEPT !.passive = FALSE]
      /\ b = [a EXCEPT !.passive = TRUE]
      /\ IsMerge(x) /\ IsMerge(y)
  BY DEF Paired
<1> HIDE DEF a, b
<1>2. b.passive = TRUE /\ DOMAIN b = DOMAIN a
  BY <1>1
<1>3. a.passive = FALSE
  BY <1>1, <1>2
<1> QED
  BY <1>1, <1>2, <1>3 DEF a, b

(* The operator at the head of a bucket, and what stays of the bucket when *)
(* it is taken with the other half of its merge.                           *)
Remains(ops, b, k, c) ==
  /\ k \in 1 .. Len(b) /\ Bucket(ops, c) /\ Len(c) = Len(b) - k
  /\ \A i \in 1 .. Len(c) : c[i] = b[i + k]
  /\ k = 2 => Paired(ops[b[1]], ops[b[2]])

LEMMA PopBucket ==
  ASSUME NEW ops, NEW b, Bucket(ops, b), b # <<>>, NEW k, NEW c,
         k = IF IsMerge(ops[b[1]]) THEN 2 ELSE 1, c = SubSeq(b, k + 1, Len(b))
  PROVE  Remains(ops, b, k, c)
<1> DEFINE n == Len(b)
<1>0. n \in Nat /\ n >= 1 /\ b \in Seq(Nat) /\ k \in {1, 2}
  BY DEF Bucket
<1>1. ASSUME NEW i \in 1 .. n
      PROVE  /\ b[i] \in 1 .. Len(ops) /\ i <= b[i]
             /\ IsMerge(ops[b[i]]) => \/ i + 1 \in 1 .. n /\ Paired(ops[b[i]], ops[b[i + 1]])
                                      \/ i - 1 \in 1 .. n /\ Paired(ops[b[i - 1]], ops[b[i]])
  BY DEF Bucket
<1> HIDE DEF n
<1>2. k = 2 => 2 \in 1 .. n /\ Paired(ops[b[1]], ops[b[2]])
  <2> SUFFICES ASSUME k = 2 PROVE 2 \in 1 .. n /\ Paired(ops[b[1]], ops[b[2]])
    OBVIOUS
  <2>1. 1 \in 1 .. n /\ IsMerge(ops[b[1]])
    BY <1>0
  <2>2. \/ 1 + 1 \in 1 .. n /\ Paired(ops[b[1]], ops[b[1 + 1]])
        \/ 1 - 1 \in 1 .. n /\ Paired(ops[b[1 - 1]], ops[b[1]])
    BY <1>1, <2>1
  <2>3. 1 + 1 = 2 /\ 1 - 1 \notin 1 .. n
    BY <1>0
  <2> QED
    BY <2>2, <2>3
<1>3. k \in 1 .. n
  BY <1>0, <1>2
<1>4. c \in Seq(Nat) /\ Len(c) = n - k /\ \A i \in 1 .. n - k : c[i] = b[i + k]
  <2>1. c = SubSeq(b, k + 1, n)
    BY DEF n
  <2>2. k + 1 \in 1 .. n + 1
    BY <1>0, <1>3
  <2>3. n = Len(b)
    BY DEF n
  <2>4. \A i \in k + 1 .. n : b[i] \in Nat
    BY <1>0, <1>1
  <2> DEFINE m == k + 1
  <2>5. m \in Int /\ n \in Int /\ n - m + 1 = n - k /\ (m <= n \/ (n - k = 0 /\ ~(m <= n)))
    BY <1>0, <1>3
  <2>6. /\ SubSeq(b, m, n) \in Seq(Nat)
        /\ Len(SubSeq(b, m, n)) = IF m <= n THEN n - m + 1 ELSE 0
        /\ \A i \in 1 .. n - m + 1 : SubSeq(b, m, n)[i] = b[m + i - 1]
    <3>1. \A i \in m .. n : b[i] \in Nat
      BY <2>4
    <3> HIDE DEF m
    <3> QED
      BY <2>5, <3>1, SubSeqProperties
  <2>7. \A i \in 1 .. n - k : m + i - 1 = i + k
    BY <1>0
  <2>8. c = SubSeq(b, m, n)
    BY <2>1
  <2> HIDE DEF m
  <2>9. c \in Seq(Nat) /\ Len(c) = n - k
    BY <2>5, <2>6, <2>8
  <2>10. \A i \in 1 .. n - k : c[i] = b[i + k]
    BY <2>5, <2>6, <2>7, <2>8
  <2> QED
    BY <2>9, <2>10
<1>5. ASSUME NEW i \in 1 .. n - k
      PROVE  /\ c[i] \in 1 .. Len(ops) /\ i <= c[i]
             /\ IsMerge(ops[c[i]]) => \/ i + 1 \in 1 .. n - k /\ Paired(ops[c[i]], ops[c[i + 1]])
                                      \/ i - 1 \in 1 .. n - k /\ Paired(ops[c[i - 1]], ops[c[i]])
  <2> DEFINE j == i + k
  <2>0. j \in 1 .. n /\ i <= j /\ i \in Nat
    BY <1>0, <1>3
  <2>1. c[i] = b[j] /\ j \in 1 .. n
    BY <1>4, <2>0
  <2>3. c[i] \in 1 .. Len(ops) /\ i <= c[i]
    <3>1. b[j] \in 1 .. Len(ops) /\ j <= b[j] /\ b[j] \in Nat
      BY <1>0, <1>1, <2>1
    <3> HIDE DEF j
    <3>2. i <= b[j]
      BY <2>0, <3>1
    <3> QED
      BY <2>1, <3>1, <3>2
  <2>4. ASSUME IsMerge(ops[c[i]])
        PROVE  \/ i + 1 \in 1 .. n - k /\ Paired(ops[c[i]], ops[c[i + 1]])
               \/ i - 1 \in 1 .. n - k /\ Paired(ops[c[i - 1]], ops[c[i]])
    <3>1. \/ j + 1 \in 1 .. n /\ Paired(ops[b[j]], ops[b[j + 1]])
          \/ j - 1 \in 1 .. n /\ Paired(ops[b[j - 1]], ops[b[j]])
      <4> HIDE DEF j
      <4> QED
        BY <1>1, <2>1, <2>4
    <3>2. CASE j + 1 \in 1 .. n /\ Paired(ops[b[j]], ops[b[j + 1]])
      <4>1. i + 1 \in 1 .. n - k /\ i + 1 + k = j + 1
        BY <1>0, <1>3, <3>2
      <4>2. c[i + 1] = b[j + 1]
        BY <1>4, <4>1
      <4> QED
        BY <2>1, <3>2, <4>1, <4>2
    <3>3. CASE j - 1 \in 1 .. n /\ Paired(ops[b[j - 1]], ops[b[j]]) /\ i # 1
      <4>1. i - 1 \in 1 .. n - k /\ i - 1 + k = j - 1
        BY <1>0, <1>3, <3>3
      <4>2. c[i - 1] = b[j - 1]
        BY <1>4, <4>1
      <4> QED
        BY <2>1, <3>3, <4>1, <4>2
    <3>4. CASE j - 1 \in 1 .. n /\ Paired(ops[b[j - 1]], ops[b[j]]) /\ i = 1
      <4>1. j - 1 = k
        BY <1>0, <3>4
      <4>2. Paired(ops[b[k]], ops[b[j]])
        BY <3>4, <4>1
      <4>3. CASE k = 1
        <5>1. ~IsMerge(ops[b[1]])
          BY <4>3
        <5> QED
          BY <4>2, <4>3, <5>1 DEF Paired
      <4>4. CASE k = 2
        <5>1. Half(ops[b[2]]).passive = TRUE
          BY <1>2, <4>4, PassiveHalf
        <5>2. Half(ops[b[2]]).passive = FALSE
          BY <4>2, <4>4, PassiveHalf
        <5> QED
          BY <5>1, <5>2
      <4> QED
        BY <1>0, <4>3, <4>4
    <3> QED
      BY <3>1, <3>2, <3>3, <3>4
  <2> QED
    BY <2>3, <2>4
<1>6. Bucket(ops, c)
  BY <1>4, <1>5 DEF Bucket
<1> QED
  BY <1>2, <1>3, <1>4, <1>6 DEF n, Remains

LEMMA BucketLen ==
  ASSUME NEW ops, NEW b, Bucket(ops, b), NEW n \in Nat, \A i \in 1 .. Len(b) : b[i] <= n
  PROVE  Len(b) \in Nat /\ Len(b) <= n
<1> DEFINE m == Len(b)
<1>1. m \in Nat
  BY DEF Bucket
<1>2. m # 0 => b[m] \in Nat /\ m <= b[m] /\ b[m] <= n
  <2>1. m # 0 => m \in 1 .. m
    BY <1>1
  <2> QED
    BY <2>1 DEF Bucket
<1> HIDE DEF m
<1>3. m <= n
  BY <1>1, <1>2
<1> QED
  BY <1>1, <1>3 DEF m

(* The operators in an author's hands go to the end of a bucket. *)
Fits(ops, b, n, os) ==
  /\ Bucket(ops, b) /\ n \in Nat /\ Len(ops) \in Nat
  /\ \A i \in 1 .. Len(b) : b[i] <= n
  /\ \/ os = <<n + 1>> /\ n + 1 <= Len(ops) /\ ~IsMerge(ops[n + 1])
     \/ os = <<n + 1, n + 2>> /\ n + 2 <= Len(ops) /\ Paired(ops[n + 1], ops[n + 2])

Appended(ops, b, n, os, c) ==
  /\ Bucket(ops, c) /\ Len(c) = Len(b) + Len(os) /\ Len(os) \in {1, 2}
  /\ \A i \in 1 .. Len(b) : c[i] = b[i]
  /\ c[Len(b) + 1] = n + 1 /\ (Len(os) = 2 => c[Len(b) + 2] = n + 2)

LEMMA AppendBucket ==
  ASSUME NEW ops, NEW b, NEW n, NEW os, Fits(ops, b, n, os), NEW c, c = b \o os
  PROVE  Appended(ops, b, n, os, c)
<1>a. /\ Bucket(ops, b) /\ n \in Nat /\ Len(ops) \in Nat
      /\ \A i \in 1 .. Len(b) : b[i] <= n
      /\ \/ os = <<n + 1>> /\ n + 1 <= Len(ops) /\ ~IsMerge(ops[n + 1])
         \/ os = <<n + 1, n + 2>> /\ n + 2 <= Len(ops) /\ Paired(ops[n + 1], ops[n + 2])
  BY DEF Fits
<1> DEFINE m == Len(b)
           k == Len(os)
<1>1. m \in Nat /\ m <= n
  BY <1>a, BucketLen
<1>2. /\ k \in {1, 2} /\ os \in Seq(Nat) /\ os[1] = n + 1 /\ (k = 2 => os[2] = n + 2)
      /\ k = 1 => n + 1 <= Len(ops) /\ ~IsMerge(ops[n + 1])
      /\ k = 2 => n + 2 <= Len(ops) /\ Paired(ops[n + 1], ops[n + 2])
  <2>1. CASE os = <<n + 1>> /\ n + 1 <= Len(ops) /\ ~IsMerge(ops[n + 1])
    BY <1>a, <2>1
  <2>2. CASE os = <<n + 1, n + 2>> /\ n + 2 <= Len(ops) /\ Paired(ops[n + 1], ops[n + 2])
    BY <1>a, <2>2
  <2> QED
    BY <1>a, <2>1, <2>2
<1>3. /\ c \in Seq(Nat) /\ Len(c) = m + k
      /\ \A i \in 1 .. m : c[i] = b[i]
      /\ \A i \in 1 .. k : c[m + i] = os[i]
  <2>1. b \in Seq(Nat)
    BY <1>a DEF Bucket
  <2>2. c \in Seq(Nat)
    BY <1>2, <2>1
  <2>3. IsSeq(b) /\ IsSeq(os)
    BY <1>2, <2>1 DEF IsSeq
  <2> QED
    BY <2>2, <2>3, SeqConcat
<1>4. \A i \in 1 .. m : /\ b[i] \in 1 .. Len(ops) /\ i <= b[i]
        /\ IsMerge(ops[b[i]]) => \/ i + 1 \in 1 .. m /\ Paired(ops[b[i]], ops[b[i + 1]])
                                 \/ i - 1 \in 1 .. m /\ Paired(ops[b[i - 1]], ops[b[i]])
  BY <1>a DEF Bucket
<1> HIDE DEF m, k
<1>5. c[m + 1] = n + 1 /\ (k = 2 => c[m + 2] = n + 2)
  <2>1. 1 \in 1 .. k /\ (k = 2 => 2 \in 1 .. k)
    BY <1>2
  <2> QED
    BY <1>2, <1>3, <2>1
<1>6. ASSUME NEW i \in 1 .. m + k
      PROVE  /\ c[i] \in 1 .. Len(ops) /\ i <= c[i]
             /\ IsMerge(ops[c[i]]) => \/ i + 1 \in 1 .. m + k /\ Paired(ops[c[i]], ops[c[i + 1]])
                                      \/ i - 1 \in 1 .. m + k /\ Paired(ops[c[i - 1]], ops[c[i]])
  <2> DEFINE p == i + 1
             q == i - 1
             N == m + k
             Goal == /\ c[i] \in 1 .. Len(ops) /\ i <= c[i]
                     /\ IsMerge(ops[c[i]]) => \/ p \in 1 .. N /\ Paired(ops[c[i]], ops[c[p]])
                                              \/ q \in 1 .. N /\ Paired(ops[c[q]], ops[c[i]])
  <2>0. N \in Nat /\ m <= N /\ N = m + k
    BY <1>1, <1>2
  <2>1. ASSUME i \in 1 .. m PROVE Goal
    <3>1. /\ b[i] \in 1 .. Len(ops) /\ i <= b[i]
          /\ IsMerge(ops[b[i]]) => \/ p \in 1 .. m /\ Paired(ops[b[i]], ops[b[p]])
                                   \/ q \in 1 .. m /\ Paired(ops[b[q]], ops[b[i]])
      BY <1>a, <2>1 DEF Bucket, m
    <3> HIDE DEF p, q, N
    <3>2. c[i] = b[i]
      BY <1>3, <2>1
    <3>3. \A j \in 1 .. m : j \in 1 .. N /\ c[j] = b[j]
      BY <1>1, <1>3, <2>0
    <3>4. IsMerge(ops[b[i]]) => \/ p \in 1 .. N /\ Paired(ops[b[i]], ops[c[p]])
                                \/ q \in 1 .. N /\ Paired(ops[c[q]], ops[b[i]])
      BY <3>1, <3>3
    <3> QED
      BY <3>1, <3>2, <3>4
  <2>2. ASSUME i = m + 1 PROVE Goal
    <3>a. c[i] = n + 1
      BY <1>5, <2>2
    <3>b. n + 1 \in 1 .. Len(ops)
      <4>1. n + 1 <= Len(ops)
        BY <1>2, <1>a
      <4> QED
        BY <1>a, <4>1
    <3>c. i <= n + 1
      BY <1>1, <1>a, <2>2
    <3>1. c[i] = n + 1 /\ n + 1 \in 1 .. Len(ops) /\ i <= n + 1
      BY <3>a, <3>b, <3>c
    <3>2. CASE k = 1
      <4>1. ~IsMerge(ops[c[i]])
        BY <1>2, <3>1, <3>2
      <4> QED
        BY <3>1, <4>1
    <3>3. CASE k = 2
      <4>1. p \in 1 .. N /\ p = m + 2
        BY <1>1, <2>2, <3>3
      <4>2. c[p] = n + 2
        BY <1>5, <3>3, <4>1
      <4> HIDE DEF p
      <4>3. Paired(ops[c[i]], ops[c[p]])
        BY <1>2, <3>1, <3>3, <4>2
      <4> QED
        BY <3>1, <4>1, <4>3
    <3> QED
      BY <1>2, <3>2, <3>3
  <2>3. ASSUME i = m + 2, k = 2 PROVE Goal
    <3>a. c[i] = n + 2
      BY <1>5, <2>3
    <3>b. n + 2 \in 1 .. Len(ops)
      <4>1. n + 2 <= Len(ops)
        BY <1>2, <2>3
      <4> QED
        BY <1>a, <4>1
    <3>c. i <= n + 2
      BY <1>1, <1>a, <2>3
    <3>1. c[i] = n + 2 /\ n + 2 \in 1 .. Len(ops) /\ i <= n + 2
      BY <3>a, <3>b, <3>c
    <3>2. q \in 1 .. N /\ q = m + 1
      BY <1>1, <2>3
    <3>3. c[q] = n + 1
      BY <1>5, <3>2
    <3> HIDE DEF q
    <3>4. Paired(ops[c[q]], ops[c[i]])
      BY <1>2, <2>3, <3>1, <3>3
    <3> QED
      BY <3>1, <3>2, <3>4
  <2>4. i \in 1 .. m \/ i = m + 1 \/ (i = m + 2 /\ k = 2)
    BY <1>1, <1>2
  <2>5. Goal
    <3> HIDE DEF Goal
    <3> QED
      BY <2>1, <2>2, <2>3, <2>4
  <2> QED
    BY <2>5
<1>7. Bucket(ops, c)
  BY <1>3, <1>6 DEF Bucket
<1> QED
  BY <1>2, <1>3, <1>5, <1>7 DEF m, k, Appended

(***************************************************************************)
(* Counting.                                                               *)
(***************************************************************************)
LEMMA WaitsFinite ==
  ASSUME NEW ops, NEW w, NEW d
  PROVE  IsFiniteSet(Waits(ops, w, d)) /\ Cardinality(Waits(ops, w, d)) \in Nat
<1>1. IsFiniteSet(0 .. 2) /\ IsFiniteSet(1 .. MaxOps)
  <2>1. 0 \in Int /\ 2 \in Int /\ 1 \in Int /\ MaxOps \in Int
    BY ControllerAssumption
  <2> QED
    BY <2>1, FS_Interval
<1>2. IsFiniteSet(Level \X (1 .. MaxOps))
  BY <1>1, FS_Product DEF Level
<1>3. Waits(ops, w, d) \subseteq Level \X (1 .. MaxOps)
  BY DEF Waits
<1>4. IsFiniteSet(Waits(ops, w, d))
  BY <1>2, <1>3, FS_Subset
<1> QED
  BY <1>4, FS_CardinalityType

LEMMA InWaits ==
  ASSUME NEW ops, NEW w, NEW d, \A l \in Level : w[l] \in Seq(Nat)
  PROVE  /\ Waits(ops, w, d) \subseteq Level \X (1 .. MaxOps)
         /\ \A l \in Level : \A i \in 1 .. MaxOps :
              <<l, i>> \in Waits(ops, w, d) <=>
                i \in 1 .. Len(w[l]) /\ Counted(ops[w[l][i]], d)
<1>1. ASSUME NEW l \in Level, NEW i \in 1 .. MaxOps
      PROVE  <<l, i>> \in Waits(ops, w, d) <=>
               i \in 1 .. Len(w[l]) /\ Counted(ops[w[l][i]], d)
  <2>1. DOMAIN w[l] = 1 .. Len(w[l])
    OBVIOUS
  <2>2. <<l, i>> \in Level \X (1 .. MaxOps) /\ <<l, i>>[1] = l /\ <<l, i>>[2] = i
    OBVIOUS
  <2> QED
    BY <2>1, <2>2 DEF Waits
<1> QED
  BY <1>1 DEF Waits

LEMMA CountedOnce ==
  ASSUME NEW x, NEW d, Counted(x, d)
  PROVE  d = x.desc
  BY DEF Counted

LEMMA HeadCounted ==
  ASSUME NEW x
  PROVE  /\ ~IsMerge(x) => Counted(x, x.desc)
         /\ \A y : Paired(x, y) => Counted(x, x.desc) /\ \A d : ~Counted(y, d)
  BY PassiveHalf DEF Counted

(* The operators os, counted as one, are put behind the bucket of level l. *)
AddedAs(ops, w, l, c, w1, e) ==
  /\ c \in Seq(Nat) /\ l \in Level
  /\ \A m \in Level : w[m] \in Seq(Nat)
  /\ \A m \in Level : w1[m] = IF m = l THEN c ELSE w[m]
  /\ Len(w[l]) + 1 \in 1 .. MaxOps
  /\ Len(c) >= Len(w[l]) + 1 /\ \A i \in 1 .. Len(w[l]) : c[i] = w[l][i]
  /\ Counted(ops[c[Len(w[l]) + 1]], e)
  /\ \A i \in 1 .. Len(c) : i > Len(w[l]) + 1 => \A d : ~Counted(ops[c[i]], d)

LEMMA WaitsAdd ==
  ASSUME NEW ops, NEW w, NEW l, NEW c, NEW w1, NEW e, AddedAs(ops, w, l, c, w1, e), NEW d
  PROVE  Cardinality(Waits(ops, w1, d)) =
           Cardinality(Waits(ops, w, d)) + (IF d = e THEN 1 ELSE 0)
<1>a. /\ c \in Seq(Nat) /\ l \in Level
      /\ \A m \in Level : w[m] \in Seq(Nat)
      /\ \A m \in Level : w1[m] = IF m = l THEN c ELSE w[m]
      /\ Len(w[l]) + 1 \in 1 .. MaxOps
      /\ Len(c) >= Len(w[l]) + 1 /\ \A i \in 1 .. Len(w[l]) : c[i] = w[l][i]
      /\ Counted(ops[c[Len(w[l]) + 1]], e)
      /\ \A i \in 1 .. Len(c) : i > Len(w[l]) + 1 => ~Counted(ops[c[i]], d)
  BY DEF AddedAs
<1> DEFINE n == Len(w[l])
           t == <<l, n + 1>>
           A == Waits(ops, w, d)
           B == Waits(ops, w1, d)
<1>0. n \in Nat /\ n + 1 \in 1 .. MaxOps /\ Len(c) \in Nat /\ Len(c) >= n + 1
  BY <1>a
<1>1. \A m \in Level : w1[m] \in Seq(Nat)
  BY <1>a
<1>2. /\ A \subseteq Level \X (1 .. MaxOps)
      /\ \A m \in Level : \A i \in 1 .. MaxOps :
           <<m, i>> \in A <=> i \in 1 .. Len(w[m]) /\ Counted(ops[w[m][i]], d)
  BY <1>a, InWaits
<1>3. /\ B \subseteq Level \X (1 .. MaxOps)
      /\ \A m \in Level : \A i \in 1 .. MaxOps :
           <<m, i>> \in B <=> i \in 1 .. Len(w1[m]) /\ Counted(ops[w1[m][i]], d)
  BY <1>1, InWaits
<1>4. Counted(ops[c[n + 1]], d) <=> d = e
  BY <1>a, CountedOnce
<1>5. \A i \in 1 .. n : c[i] = w[l][i]
  BY <1>a
<1>6. \A i \in 1 .. Len(c) : i > n + 1 => ~Counted(ops[c[i]], d)
  BY <1>a
<1>7. IsFiniteSet(A) /\ Cardinality(A) \in Nat
  BY WaitsFinite
<1>n. n = Len(w[l])
  OBVIOUS
<1> HIDE DEF n, A, B
<1>8. ASSUME NEW m \in Level, NEW i \in 1 .. MaxOps
      PROVE  <<m, i>> \in B <=> <<m, i>> \in A \/ (d = e /\ m = l /\ i = n + 1)
  <2>1. CASE m # l
    <3>1. w1[m] = w[m]
      BY <1>a, <2>1
    <3> QED
      BY <1>2, <1>3, <2>1, <3>1
  <2>2. CASE m = l
    <3>1. w1[m] = c /\ Len(w[m]) = n
      BY <1>a, <2>2, <1>n
    <3>2. CASE i \in 1 .. n
      <4>1. i \in 1 .. Len(c) /\ i # n + 1
        BY <1>0, <3>2
      <4>2. c[i] = w[m][i]
        BY <1>5, <2>2, <3>2
      <4> QED
        BY <1>2, <1>3, <3>1, <3>2, <4>1, <4>2
    <3>3. CASE i = n + 1
      <4>1. i \in 1 .. Len(c) /\ i \notin 1 .. n
        BY <1>0, <3>3
      <4> QED
        BY <1>2, <1>3, <1>4, <2>2, <3>1, <3>3, <4>1
    <3>4. CASE i \notin 1 .. n /\ i # n + 1
      <4>1. i > n + 1
        BY <1>0, <3>4
      <4>2. i \in 1 .. Len(c) => ~Counted(ops[c[i]], d)
        BY <1>6, <4>1
      <4> QED
        BY <1>2, <1>3, <3>1, <3>4, <4>2
    <3> QED
      BY <3>2, <3>3, <3>4
  <2> QED
    BY <2>1, <2>2
<1>9. CASE d = e
  <2>1. t \notin A
    <3>1. n + 1 \notin 1 .. n
      BY <1>0
    <3> QED
      BY <1>0, <1>2, <1>a, <1>n, <3>1
  <2>2. B = A \union {t}
    <3>1. ASSUME NEW u \in B PROVE u \in A \/ u = t
      <4>1. PICK m \in Level, i \in 1 .. MaxOps : u = <<m, i>>
        BY <1>3
      <4> QED
        BY <1>8, <4>1
    <3>2. ASSUME NEW u \in A PROVE u \in B
      <4>1. PICK m \in Level, i \in 1 .. MaxOps : u = <<m, i>>
        BY <1>2
      <4> QED
        BY <1>8, <4>1
    <3>3. t \in B
      BY <1>0, <1>a, <1>8, <1>9
    <3> QED
      BY <3>1, <3>2, <3>3
  <2> HIDE DEF t
  <2>3. Cardinality(A \union {t}) = Cardinality(A) + 1
    BY <1>7, <2>1, FS_AddElement
  <2> QED
    BY <1>9, <2>2, <2>3 DEF A, B
<1>10. CASE d # e
  <2>1. B = A
    <3>1. ASSUME NEW u \in B PROVE u \in A
      <4>1. PICK m \in Level, i \in 1 .. MaxOps : u = <<m, i>>
        BY <1>3
      <4> QED
        BY <1>8, <1>10, <4>1
    <3>2. ASSUME NEW u \in A PROVE u \in B
      <4>1. PICK m \in Level, i \in 1 .. MaxOps : u = <<m, i>>
        BY <1>2
      <4> QED
        BY <1>8, <4>1
    <3> QED
      BY <3>1, <3>2
  <2> QED
    BY <1>7, <1>10, <2>1 DEF A, B
<1> QED
  BY <1>9, <1>10

LEMMA Shifted ==
  ASSUME NEW n \in Nat, NEW N \in Nat, n <= N, NEW k \in {1, 2}, k <= n, NEW i \in 1 .. n - k
  PROVE  i + k \in 1 .. n /\ i + k \in 1 .. N
  OBVIOUS

(* The k operators at the head of the bucket of level l, counted as one,   *)
(* are taken.                                                              *)
TakenAs(ops, w, l, k, c, w1, e) ==
  /\ c \in Seq(Nat) /\ l \in Level /\ k \in {1, 2}
  /\ \A m \in Level : w[m] \in Seq(Nat)
  /\ \A m \in Level : w1[m] = IF m = l THEN c ELSE w[m]
  /\ Len(w[l]) <= MaxOps /\ k <= Len(w[l])
  /\ Len(c) = Len(w[l]) - k /\ \A i \in 1 .. Len(c) : c[i] = w[l][i + k]
  /\ Counted(ops[w[l][1]], e)
  /\ k = 2 => \A d : ~Counted(ops[w[l][2]], d)

LEMMA WaitsDrop ==
  ASSUME NEW ops, NEW w, NEW l, NEW k, NEW c, NEW w1, NEW e,
         TakenAs(ops, w, l, k, c, w1, e), NEW d
  PROVE  Cardinality(Waits(ops, w1, d)) =
           Cardinality(Waits(ops, w, d)) - (IF d = e THEN 1 ELSE 0)
<1>a. /\ c \in Seq(Nat) /\ l \in Level /\ k \in {1, 2}
      /\ \A m \in Level : w[m] \in Seq(Nat)
      /\ \A m \in Level : w1[m] = IF m = l THEN c ELSE w[m]
      /\ Len(w[l]) <= MaxOps /\ k <= Len(w[l])
      /\ Len(c) = Len(w[l]) - k /\ \A i \in 1 .. Len(c) : c[i] = w[l][i + k]
      /\ Counted(ops[w[l][1]], e)
      /\ k = 2 => ~Counted(ops[w[l][2]], d)
  BY DEF TakenAs
<1> DEFINE n == Len(w[l])
           t == <<l, 1>>
           A == Waits(ops, w, d)
           B == Waits(ops, w1, d)
           C == A \ {t}
           f == [u \in B |-> IF u[1] = l THEN <<l, u[2] + k>> ELSE u]
<1>0. /\ n \in Nat /\ Len(c) = n - k /\ k <= n /\ n <= MaxOps /\ MaxOps \in Nat /\ k \in {1, 2}
      /\ l \in Level
  BY <1>a, ControllerAssumption
<1>1. \A m \in Level : w1[m] \in Seq(Nat)
  BY <1>a
<1>2. /\ A \subseteq Level \X (1 .. MaxOps)
      /\ \A m \in Level : \A i \in 1 .. MaxOps :
           <<m, i>> \in A <=> i \in 1 .. Len(w[m]) /\ Counted(ops[w[m][i]], d)
  BY <1>a, InWaits
<1>3. /\ B \subseteq Level \X (1 .. MaxOps)
      /\ \A m \in Level : \A i \in 1 .. MaxOps :
           <<m, i>> \in B <=> i \in 1 .. Len(w1[m]) /\ Counted(ops[w1[m][i]], d)
  BY <1>1, InWaits
<1>4. Counted(ops[w[l][1]], d) <=> d = e
  BY <1>a, CountedOnce
<1>5. \A i \in 1 .. n - k : c[i] = w[l][i + k]
  BY <1>0, <1>a
<1>6. k = 2 => ~Counted(ops[w[l][2]], d)
  BY <1>a
<1>7. IsFiniteSet(A) /\ Cardinality(A) \in Nat /\ IsFiniteSet(B)
  BY WaitsFinite
<1>n. n = Len(w[l])
  OBVIOUS
<1> HIDE DEF n, A, B
<1>8. ASSUME NEW i \in 1 .. MaxOps
      PROVE  /\ <<l, i>> \in B <=> i \in 1 .. n - k /\ <<l, i + k>> \in A
             /\ <<l, i>> \in B => i + k \in 1 .. MaxOps
  <2>1. w1[l] = c /\ Len(w1[l]) = n - k
    BY <1>0, <1>a
  <2>2. <<l, i>> \in B <=> i \in 1 .. n - k /\ Counted(ops[c[i]], d)
    BY <1>0, <1>3, <2>1
  <2>3. ASSUME i \in 1 .. n - k
        PROVE  i + k \in 1 .. MaxOps /\ (Counted(ops[c[i]], d) <=> <<l, i + k>> \in A)
    <3> DEFINE j == i + k
    <3>1. j \in 1 .. MaxOps /\ j \in 1 .. n
      BY <1>0, <2>3, Shifted
    <3>2. c[i] = w[l][j]
      BY <1>5, <2>3
    <3> HIDE DEF j
    <3>3. <<l, j>> \in A <=> Counted(ops[c[i]], d)
      BY <1>0, <1>2, <1>n, <3>1, <3>2
    <3> QED
      BY <3>1, <3>3 DEF j
  <2> QED
    BY <2>2, <2>3
<1>9. ASSUME NEW m \in Level, m # l, NEW i \in 1 .. MaxOps
      PROVE  <<m, i>> \in B <=> <<m, i>> \in A
  <2>1. w1[m] = w[m]
    BY <1>a, <1>9
  <2> QED
    BY <1>2, <1>3, <2>1
<1>10. ASSUME NEW i \in 1 .. MaxOps, <<l, i>> \in C
       PROVE  i - k \in 1 .. MaxOps /\ <<l, i - k>> \in B /\ i - k + k = i
  <2>1. <<l, i>> \in A /\ i # 1
    BY <1>10
  <2>2. i \in 1 .. n /\ Counted(ops[w[l][i]], d)
    BY <1>0, <1>2, <1>n, <2>1
  <2>3. ~(k = 2 /\ i = 2)
    BY <1>6, <2>2
  <2> DEFINE j == i - k
  <2>4. j \in 1 .. MaxOps /\ j \in 1 .. n - k /\ j + k = i
    BY <1>0, <2>1, <2>2, <2>3
  <2> HIDE DEF j
  <2>5. <<l, j>> \in B
    BY <1>8, <2>1, <2>4
  <2> QED
    BY <2>4, <2>5 DEF j
<1>11. ASSUME NEW u \in B PROVE f[u] \in C
  <2>1. PICK m \in Level, i \in 1 .. MaxOps : u = <<m, i>>
    BY <1>3
  <2>2. u[1] = m /\ u[2] = i
    BY <2>1
  <2>3. CASE m = l
    <3>1. f[u] = <<l, i + k>>
      BY <2>2, <2>3
    <3>2. i + k # 1 /\ <<l, i + k>> # t
      BY <1>0
    <3>3. <<l, i + k>> \in A
      BY <1>8, <2>1, <2>3
    <3> QED
      BY <3>1, <3>2, <3>3
  <2>4. CASE m # l
    <3>1. f[u] = u /\ u # t
      BY <2>1, <2>2, <2>4
    <3>2. u \in A
      BY <1>9, <2>1, <2>4
    <3> QED
      BY <3>1, <3>2
  <2> QED
    BY <2>3, <2>4
<1>12. ASSUME NEW u \in B, NEW v \in B, f[u] = f[v] PROVE u = v
  <2>1. PICK m \in Level, i \in 1 .. MaxOps : u = <<m, i>>
    BY <1>3
  <2>2. PICK p \in Level, j \in 1 .. MaxOps : v = <<p, j>>
    BY <1>3
  <2>3. f[u] = IF m = l THEN <<l, i + k>> ELSE <<m, i>>
    BY <2>1
  <2>4. f[v] = IF p = l THEN <<l, j + k>> ELSE <<p, j>>
    BY <2>2
  <2>5. CASE m = l /\ p = l
    <3>1. <<l, i + k>> = <<l, j + k>>
      BY <1>12, <2>3, <2>4, <2>5
    <3>2. i + k = j + k
      BY <3>1
    <3>3. i = j
      BY <1>0, <3>2
    <3> QED
      BY <2>1, <2>2, <2>5, <3>3
  <2>6. CASE m # l \/ p # l
    <3> HIDE DEF f
    <3> QED
      BY <1>12, <2>1, <2>2, <2>3, <2>4, <2>6
  <2> QED
    BY <2>5, <2>6
<1>13. ASSUME NEW v \in C PROVE \E u \in B : f[u] = v
  <2>1. PICK m \in Level, i \in 1 .. MaxOps : v = <<m, i>>
    BY <1>2
  <2>2. CASE m = l
    <3> DEFINE j == i - k
    <3>1. j \in 1 .. MaxOps /\ <<l, j>> \in B /\ j + k = i
      BY <1>10, <2>1, <2>2
    <3> HIDE DEF j
    <3>2. f[<<l, j>>] = <<l, j + k>>
      BY <3>1
    <3> QED
      BY <2>1, <2>2, <3>1, <3>2
  <2>3. CASE m # l
    <3>1. v \in B
      BY <1>9, <2>1, <2>3
    <3>2. f[v] = v
      BY <2>1, <2>3, <3>1
    <3> QED
      BY <3>1, <3>2
  <2> QED
    BY <2>2, <2>3
<1>14. DOMAIN f = B /\ f = [u \in B |-> f[u]]
  OBVIOUS
<1> HIDE DEF f, C
<1>15. f \in Bijection(B, C)
  BY <1>11, <1>12, <1>13, <1>14 DEF Bijection, Injection, Surjection, IsInjective
<1>16. IsFiniteSet(C) /\ Cardinality(C) = Cardinality(B)
  <2>1. IsFiniteSet(C)
    BY <1>7, FS_Subset DEF C
  <2> QED
    BY <1>7, <1>15, <2>1, FS_Bijection DEF ExistsBijection
<1>17. t \in A <=> d = e
  <2>1. 1 \in 1 .. MaxOps /\ 1 \in 1 .. n
    BY <1>0
  <2> QED
    BY <1>0, <1>2, <1>4, <1>n, <2>1
<1>18. Cardinality(C) = Cardinality(A) - (IF d = e THEN 1 ELSE 0)
  <2> HIDE DEF t
  <2>1. Cardinality(A \ {t}) = IF t \in A THEN Cardinality(A) - 1 ELSE Cardinality(A)
    BY <1>7, FS_RemoveElement
  <2> QED
    BY <1>7, <1>17, <2>1 DEF C
<1> QED
  BY <1>16, <1>18 DEF A, B

(***************************************************************************)
(* The initial states.                                                     *)
(***************************************************************************)
LEMMA InitControl ==
  ASSUME Init
  PROVE  ControlInv
<1>1. OpsOK
  <2>1. op = <<>> /\ IsSeq(op) /\ Len(op) = 0
    BY ShortSeqs DEF Init
  <2> QED
    BY <2>1, ControllerAssumption DEF OpsOK
<1>2. RegionsOK
  <2>1. tikv = InitRegion /\ cache = InitRegion
    BY DEF Init
  <2> QED
    BY <2>1, ControllerAssumption DEF RegionsOK
<1>3. RunningOK
  BY DEF Init, RunningOK, Runs
<1>4. DispOK
  BY DEF Init, DispOK, Goroutine
<1>5. SetsOK
  <2>1. /\ queue = {} /\ removing = {} /\ DOMAIN msgs = Region
        /\ \A r \in Region : msgs[r] = <<>>
    BY DEF Init
  <2> QED
    BY <2>1, ShortSeqs, ControllerAssumption DEF SetsOK
<1>6. DOMAIN wop = Level /\ \A l \in Level : wop[l] = <<>>
  BY DEF Init
<1>7. WaitingOK
  <2>1. <<>> \in Seq(Nat) /\ 1 .. Len(<<>>) = {}
    OBVIOUS
  <2>2. Bucket(op, <<>>)
    BY <2>1 DEF Bucket
  <2> QED
    BY <1>6, <2>2 DEF WaitingOK
<1>8. HandOK
  BY DEF Init, HandOK
<1>9. ASSUME NEW d \in Descs PROVE wopStatus[d] = Cardinality(Waits(op, wop, d))
  <2>1. Waits(op, wop, d) = {}
    BY <1>6 DEF Waits
  <2> QED
    BY <2>1, FS_EmptySet DEF Init
<1>10. CountOK
  BY <1>9 DEF Init, CountOK
<1> QED
  BY <1>1, <1>2, <1>3, <1>4, <1>5, <1>7, <1>8, <1>10 DEF ControlInv

(* An action that leaves the buckets and the author's hands alone. *)
LEMMA NoneWaits ==
  ASSUME ControlInv, OpsKept, Len(op') = Len(op),
         wop' = wop, wopStatus' = wopStatus, hand' = hand
  PROVE  OpsOK' /\ WaitingOK' /\ HandOK' /\ CountOK'
<1>1. OpsOK'
  BY OpsKeptOK DEF ControlInv
<1>2. DOMAIN wop = Level /\ \A l \in Level : Bucket(op, wop[l])
  BY DEF ControlInv, WaitingOK
<1>3. WaitingOK'
  BY <1>2, WaitingKept DEF WaitingOK
<1>4. HandOK'
  BY HandKept DEF ControlInv
<1>5. \A d : Waits(op', wop, d) = Waits(op, wop, d)
  BY <1>2, CountKept
<1>6. CountOK'
  BY <1>5 DEF ControlInv, CountOK
<1> QED
  BY <1>1, <1>3, <1>4, <1>6

(* The same when the hands are emptied. *)
LEMMA HandsEmptied ==
  ASSUME ControlInv, OpsKept, Len(op') = Len(op),
         wop' = wop, wopStatus' = wopStatus, hand' = NoHand
  PROVE  OpsOK' /\ WaitingOK' /\ HandOK' /\ CountOK'
<1>1. OpsOK'
  BY OpsKeptOK DEF ControlInv
<1>2. DOMAIN wop = Level /\ \A l \in Level : Bucket(op, wop[l])
  BY DEF ControlInv, WaitingOK
<1>3. WaitingOK'
  BY <1>2, WaitingKept DEF WaitingOK
<1>4. HandOK'
  BY DEF HandOK
<1>5. \A d : Waits(op', wop, d) = Waits(op, wop, d)
  BY <1>2, CountKept
<1>6. CountOK'
  BY <1>5 DEF ControlInv, CountOK
<1> QED
  BY <1>1, <1>3, <1>4, <1>6

(***************************************************************************)
(* One lemma per action.                                                   *)
(***************************************************************************)
LEMMA AuthoredOK ==
  ASSUME NEW o, authored(o), NEW x, x = created(o)
  PROVE  OpOK(x) /\ x.kind = o.kind /\ x.steps = o.steps /\ x.level = o.level
<1>2. /\ DOMAIN o = {"desc", "region", "epoch", "kind", "steps", "currentStep", "level"}
      /\ o.region \in Region /\ o.desc \in Descs /\ o.level \in Level
      /\ Len(o.steps) \in Nat /\ o.currentStep = 1
  BY DEF authored
<1>3. x = [f \in DOMAIN o \union {"started"} |->
            IF f \in DOMAIN o THEN o[f] ELSE FALSE]
  BY DEF created
<1>4. DOMAIN x = OpFields
  BY <1>2, <1>3 DEF OpFields
<1>5. \A f \in DOMAIN o : x[f] = o[f]
  BY <1>3
<1>6. /\ x.region = o.region /\ x.desc = o.desc /\ x.level = o.level /\ x.kind = o.kind
      /\ x.steps = o.steps /\ x.currentStep = o.currentStep
  BY <1>2, <1>5
<1> QED
  BY <1>2, <1>4, <1>6 DEF OpOK

LEMMA StepPropose ==
  ASSUME ControlInv, Propose
  PROVE  ControlInv'
<1>1. PICK p \in Proposals(cache, op) :
        /\ wellFormed(p.ops)
        /\ Len(op) + Len(p.ops) <= MaxOps
        /\ op' = op \o [i \in DOMAIN p.ops |-> created(p.ops[i])]
        /\ hand' = [os |-> [i \in DOMAIN p.ops |-> Len(op) + i], wait |-> p.wait]
  BY DEF Propose
<1> DEFINE n == Len(op)
           os == p.ops
           a == created(os[1])
           b == created(os[2])
           T == [i \in DOMAIN os |-> created(os[i])]
           H == [i \in DOMAIN os |-> n + i]
<1>2. IsSeq(op) /\ n \in Nat /\ \A o \in 1 .. n : OpOK(op[o])
  BY SeqFacts DEF ControlInv, OpsOK
<1>3. Below(wop, n)
  BY DEF ControlInv, WaitingOK, Bucket, Below
<1>4. op' = op \o T /\ hand'.os = H /\ n + Len(os) <= MaxOps /\ wellFormed(os)
  BY <1>1
<1>5. ASSUME NEW k \in Nat, IsSeq(T), Len(T) = k, \A i \in 1 .. k : OpOK(T[i]), n + k <= MaxOps
      PROVE  /\ OpsKept /\ OpsOK' /\ Len(op') = n + k
             /\ \A i \in 1 .. k : op'[n + i] = T[i]
  <2> HIDE DEF T
  <2>1. /\ IsSeq(op') /\ Len(op') = n + k
        /\ \A i \in 1 .. n : op'[i] = op[i]
        /\ \A i \in 1 .. k : op'[n + i] = T[i]
    <3>1. op' = op \o T /\ IsSeq(op) /\ IsSeq(T)
      BY <1>2, <1>4, <1>5
    <3>2. /\ IsSeq(op \o T) /\ Len(op \o T) = Len(op) + Len(T)
          /\ \A i \in 1 .. Len(op) : (op \o T)[i] = op[i]
          /\ \A i \in 1 .. Len(T) : (op \o T)[Len(op) + i] = T[i]
      BY <3>1, SeqConcat
    <3> QED
      BY <1>5, <3>1, <3>2
  <2> HIDE DEF n
  <2>2. \A i \in 1 .. n + k : OpOK(op'[i])
    <3> SUFFICES ASSUME NEW i \in 1 .. n + k PROVE OpOK(op'[i])
      OBVIOUS
    <3>1. CASE i \in 1 .. n
      BY <1>2, <2>1, <3>1
    <3>2. CASE i \notin 1 .. n
      <4> DEFINE j == i - n
      <4>1. j \in 1 .. k /\ n + j = i
        BY <1>2, <1>5, <3>2
      <4> HIDE DEF j
      <4>2. op'[n + j] = T[j] /\ OpOK(T[j])
        BY <1>5, <2>1, <4>1
      <4> QED
        BY <4>1, <4>2
    <3> QED
      BY <3>1, <3>2
  <2>3. OpsOK'
    BY <1>5, <2>1, <2>2 DEF OpsOK
  <2>4. \A i \in 1 .. n : OpOK(op'[i]) /\ Kept(op[i], op'[i])
    BY <1>2, <2>1 DEF Kept
  <2>5. Len(op') \in Nat /\ n <= Len(op')
    BY <1>2, <1>5, <2>1
  <2>6. OpsKept
    BY <1>2, <2>1, <2>4, <2>5 DEF OpsKept, n
  <2> QED
    BY <2>1, <2>3, <2>6
<1>6. wop' = wop
  BY DEF Propose
<1>7. OpsKept /\ OpsOK' /\ HandOK'
  <2>1. CASE "merge" \in os[1].kind
    <3>1. /\ os = <<os[1], os[2]>> /\ authored(os[1]) /\ authored(os[2])
          /\ mergeHalves(os[1], os[2])
      BY <1>4, <2>1 DEF wellFormed
    <3>2. DOMAIN os = 1 .. 2 /\ Len(os) = 2
      <4> DEFINE x == os[1]
                 y == os[2]
      <4>1. os = <<x, y>>
        BY <3>1
      <4> HIDE DEF os, x, y
      <4> QED
        BY <4>1
    <3>3. T = <<a, b>>
      BY <3>2
    <3>4. H = <<n + 1, n + 2>>
      BY <1>2, <3>2
    <3>5. OpOK(a) /\ a.kind = os[1].kind /\ a.steps = os[1].steps /\ a.level = os[1].level
      BY <3>1, AuthoredOK
    <3>6. OpOK(b) /\ b.kind = os[2].kind /\ b.steps = os[2].steps /\ b.level = os[2].level
      BY <3>1, AuthoredOK
    <3>7. Paired(a, b) /\ a.level = b.level
      BY <3>1, <3>5, <3>6 DEF mergeHalves, Paired, IsMerge, Half
    <3> HIDE DEF a, b
    <3>8. IsSeq(T) /\ Len(T) = 2 /\ T[1] = a /\ T[2] = b
      BY <3>3, ShortSeqs
    <3> HIDE DEF T, H
    <3>9. /\ OpsKept /\ OpsOK' /\ Len(op') = n + 2
          /\ \A i \in 1 .. 2 : op'[n + i] = T[i]
      <4>1. \A i \in 1 .. 2 : OpOK(T[i])
        BY <3>5, <3>6, <3>8
      <4> QED
        BY <1>4, <1>5, <3>2, <3>8, <4>1
    <3>10. op'[n + 1] = a /\ op'[n + 2] = b
      BY <3>8, <3>9
    <3>11. HandOK'
      <4> HIDE DEF n
      <4> DEFINE N == Len(op')
      <4>1. N >= 2 /\ N - 1 = n + 1 /\ N - 2 = n /\ N = n + 2
        BY <1>2, <3>9
      <4>2. hand'.os = <<N - 1, N>>
        BY <1>4, <3>4, <4>1
      <4>3. Paired(op'[N - 1], op'[N]) /\ op'[N - 1].level = op'[N].level
        BY <3>7, <3>10, <4>1
      <4>4. Below(wop', N - 2)
        BY <1>3, <1>6, <4>1
      <4> QED
        BY <4>1, <4>2, <4>3, <4>4 DEF HandOK
    <3> QED
      BY <3>9, <3>11
  <2>2. CASE "merge" \notin os[1].kind
    <3>1. os = <<os[1]>> /\ authored(os[1])
      BY <1>4, <2>2 DEF wellFormed
    <3>2. DOMAIN os = 1 .. 1 /\ Len(os) = 1
      <4> DEFINE x == os[1]
      <4>1. os = <<x>>
        BY <3>1
      <4> HIDE DEF os, x
      <4> QED
        BY <4>1
    <3>3. T = <<a>>
      BY <3>2
    <3>4. H = <<n + 1>>
      BY <1>2, <3>2
    <3>5. OpOK(a) /\ a.kind = os[1].kind /\ a.steps = os[1].steps /\ a.level = os[1].level
      BY <3>1, AuthoredOK
    <3>6. ~IsMerge(a)
      BY <2>2, <3>5 DEF IsMerge
    <3> HIDE DEF a
    <3>8. IsSeq(T) /\ Len(T) = 1 /\ T[1] = a
      BY <3>3, ShortSeqs
    <3> HIDE DEF T, H
    <3>9. /\ OpsKept /\ OpsOK' /\ Len(op') = n + 1
          /\ \A i \in 1 .. 1 : op'[n + i] = T[i]
      <4>1. \A i \in 1 .. 1 : OpOK(T[i])
        BY <3>5, <3>8
      <4> QED
        BY <1>4, <1>5, <3>2, <3>8, <4>1
    <3>10. op'[n + 1] = a
      BY <3>8, <3>9
    <3>11. HandOK'
      <4> HIDE DEF n
      <4> DEFINE N == Len(op')
      <4>1. N >= 1 /\ N - 1 = n /\ N = n + 1
        BY <1>2, <3>9
      <4>2. hand'.os = <<N>>
        BY <1>4, <3>4, <4>1
      <4>3. ~IsMerge(op'[N])
        BY <3>6, <3>10, <4>1
      <4>4. Below(wop', N - 1)
        BY <1>3, <1>6, <4>1
      <4> QED
        BY <4>1, <4>2, <4>3, <4>4 DEF HandOK
    <3> QED
      BY <3>9, <3>11
  <2> QED
    BY <2>1, <2>2
<1>8. RegionsOK' /\ RunningOK' /\ DispOK' /\ SetsOK'
  <2>1. RegionsOK'
    BY DEF ControlInv, RegionsOK, Propose
  <2>2. RunningOK' /\ DispOK' /\ SetsOK'
    BY <1>7, RunningKept, DispKept, SetsKept DEF ControlInv, Propose
  <2> QED
    BY <2>1, <2>2
<1>9. DOMAIN wop = Level /\ \A l \in Level : Bucket(op, wop[l])
  BY DEF ControlInv, WaitingOK
<1>10. WaitingOK'
  BY <1>6, <1>7, <1>9, WaitingKept DEF WaitingOK
<1>11. \A d : Waits(op', wop, d) = Waits(op, wop, d)
  BY <1>7, <1>9, CountKept
<1>12. CountOK'
  BY <1>6, <1>11 DEF ControlInv, CountOK, Propose
<1> QED
  BY <1>7, <1>8, <1>10, <1>12 DEF ControlInv

LEMMA HandRange ==
  ASSUME ControlInv, hand # NoHand
  PROVE  hand.os # <<>> /\ ToSet(hand.os) \subseteq 1 .. Len(op)
<1> DEFINE n == Len(op)
<1>1. n \in Nat
  BY SeqFacts DEF ControlInv, OpsOK
<1>2. \/ n >= 1 /\ hand.os = <<n>>
      \/ n >= 2 /\ hand.os = <<n - 1, n>>
  BY DEF ControlInv, HandOK
<1> HIDE DEF n
<1>3. CASE n >= 1 /\ hand.os = <<n>>
  <2>1. ToSet(hand.os) = {n}
    BY <1>3 DEF ToSet
  <2> QED
    BY <1>1, <1>3, <2>1 DEF n
<1>4. CASE n >= 2 /\ hand.os = <<n - 1, n>>
  <2> DEFINE m == n - 1
  <2>1. m \in 1 .. n /\ n \in 1 .. n
    BY <1>1, <1>4
  <2>2. hand.os = <<m, n>>
    BY <1>4
  <2> HIDE DEF m
  <2>3. ToSet(hand.os) = {m, n}
    BY <2>2 DEF ToSet
  <2> QED
    BY <2>1, <2>2, <2>3 DEF n
<1> QED
  BY <1>2, <1>3, <1>4

LEMMA StepAddOperator ==
  ASSUME ControlInv, AddOperator
  PROVE  ControlInv'
<1>1. /\ hand # NoHand /\ hand' = NoHand
      /\ tikv' = tikv /\ cache' = cache /\ wop' = wop /\ wopStatus' = wopStatus
      /\ disp' = disp /\ removing' = removing
  BY DEF AddOperator
<1>2. OpsOK /\ RunningOK /\ SetsOK
  BY DEF ControlInv
<1>3. /\ OpsKept /\ Len(op') = Len(op) /\ RunningOK' /\ SetsOK'
  <2>1. CASE addOperatorLocked(hand.os)
    <3>1. /\ OpsKept /\ Len(op') = Len(op) /\ RunningOK' /\ queue' \subseteq 1 .. Len(op)
          /\ DOMAIN msgs' = Region
          /\ \A r \in Region : IsSeq(msgs'[r]) /\ Len(msgs'[r]) <= MaxMsgs
      BY <1>1, <1>2, <2>1, HandRange, AddLocked
    <3> QED
      BY <1>1, <1>2, <3>1 DEF SetsOK
  <2>2. CASE UNCHANGED <<operators, age, op, queue, msgs>>
    <3>1. OpsKept /\ Len(op') = Len(op)
      BY <1>2, <2>2, NoneMoved
    <3> QED
      BY <1>1, <1>2, <2>2, <3>1, RunningKept, SetsKept
  <2> QED
    BY <2>1, <2>2 DEF AddOperator
<1>4. OpsOK' /\ WaitingOK' /\ HandOK' /\ CountOK'
  BY <1>1, <1>3, HandsEmptied
<1>5. RegionsOK' /\ DispOK'
  BY <1>1, <1>3, DispKept DEF ControlInv, RegionsOK
<1> QED
  BY <1>3, <1>4, <1>5 DEF ControlInv

LEMMA StepAddWaiting ==
  ASSUME ControlInv, AddWaitingOperator
  PROVE  ControlInv'
<1> DEFINE os == hand.os
           l  == op[os[1]].level
           e  == op[os[1]].desc
           N  == Len(op)
<1>1. /\ hand # NoHand /\ hand' = NoHand
      /\ tikv' = tikv /\ cache' = cache /\ op' = op /\ operators' = operators
      /\ queue' = queue /\ msgs' = msgs /\ disp' = disp /\ removing' = removing
  BY DEF AddWaitingOperator
<1>2. OpsOK /\ RunningOK /\ SetsOK /\ DispOK /\ WaitingOK /\ HandOK /\ CountOK /\ N \in Nat
  BY SeqFacts DEF ControlInv, OpsOK
<1>3. OpsKept /\ Len(op') = Len(op)
  BY <1>1, <1>2, NoneMoved
<1>4. OpsOK' /\ RunningOK' /\ SetsOK' /\ DispOK' /\ RegionsOK' /\ HandOK'
  <2>1. OpsOK' /\ RunningOK' /\ SetsOK' /\ DispOK'
    BY <1>1, <1>2, <1>3, OpsKeptOK, RunningKept, SetsKept, DispKept
  <2>2. RegionsOK'
    BY <1>1 DEF ControlInv, RegionsOK
  <2>3. HandOK'
    BY <1>1 DEF HandOK
  <2> QED
    BY <2>1, <2>2, <2>3
<1>5. CASE wop' = wop /\ wopStatus' = wopStatus
  BY <1>1, <1>3, <1>4, <1>5, HandsEmptied DEF ControlInv
<1>6. CASE /\ wop' = [wop EXCEPT ![l] = @ \o os]
           /\ wopStatus' = [wopStatus EXCEPT ![e] = @ + 1]
  <2>1. PICK n \in Nat :
          /\ \/ os = <<n + 1>> /\ n + 1 <= N /\ ~IsMerge(op[n + 1])
             \/ os = <<n + 1, n + 2>> /\ n + 2 <= N /\ Paired(op[n + 1], op[n + 2])
          /\ Below(wop, n) /\ n + 1 \in 1 .. N
    <3> HIDE DEF N
    <3>1. \/ N >= 1 /\ os = <<N>> /\ ~IsMerge(op[N]) /\ Below(wop, N - 1)
          \/ N >= 2 /\ os = <<N - 1, N>> /\ Paired(op[N - 1], op[N]) /\ Below(wop, N - 2)
      BY <1>1, <1>2 DEF HandOK, N
    <3>2. CASE N >= 1 /\ os = <<N>> /\ ~IsMerge(op[N]) /\ Below(wop, N - 1)
      <4> DEFINE n == N - 1
      <4>1. n \in Nat /\ n + 1 = N /\ n + 1 \in 1 .. N
        BY <1>2, <3>2
      <4>2. Below(wop, n)
        BY <3>2
      <4> HIDE DEF n
      <4>3. os = <<n + 1>> /\ n + 1 <= N /\ ~IsMerge(op[n + 1])
        BY <1>2, <3>2, <4>1
      <4> QED
        BY <4>1, <4>2, <4>3
    <3>3. CASE N >= 2 /\ os = <<N - 1, N>> /\ Paired(op[N - 1], op[N]) /\ Below(wop, N - 2)
      <4> DEFINE n == N - 2
      <4>1. n \in Nat /\ n + 1 = N - 1 /\ n + 2 = N /\ n + 1 \in 1 .. N
        BY <1>2, <3>3
      <4>2. Below(wop, n)
        BY <3>3
      <4> HIDE DEF n
      <4>3. os = <<n + 1, n + 2>> /\ n + 2 <= N /\ Paired(op[n + 1], op[n + 2])
        BY <1>2, <3>3, <4>1
      <4> QED
        BY <4>1, <4>2, <4>3
    <3> QED
      BY <3>1, <3>2, <3>3
  <2>2. os[1] = n + 1
    BY <2>1
  <2>3. l \in Level /\ e \in Descs
    BY <1>2, <2>1, <2>2 DEF OpsOK, OpOK
  <2> DEFINE b == wop[l]
             c == b \o os
  <2>4. Bucket(op, b) /\ DOMAIN wop = Level /\ \A m \in Level : Bucket(op, wop[m])
    BY <1>2, <2>3 DEF WaitingOK
  <2>5. \A i \in 1 .. Len(b) : b[i] <= n
    BY <2>1, <2>3 DEF Below
  <2>6. /\ wop' = [wop EXCEPT ![l] = c] /\ DOMAIN wop' = Level
        /\ \A m \in Level : wop'[m] = IF m = l THEN c ELSE wop[m]
    BY <1>6, <2>3, <2>4
  <2> HIDE DEF N, l, e, c
  <2>7. /\ Bucket(op, c) /\ Len(c) = Len(b) + Len(os) /\ Len(os) \in {1, 2}
        /\ \A i \in 1 .. Len(b) : c[i] = b[i]
        /\ c[Len(b) + 1] = n + 1 /\ (Len(os) = 2 => c[Len(b) + 2] = n + 2)
    <3> HIDE DEF b, os
    <3>1. Fits(op, b, n, os)
      BY <1>2, <2>1, <2>4, <2>5 DEF Fits, N
    <3>2. Appended(op, b, n, os, c)
      BY <3>1, AppendBucket DEF c
    <3> QED
      BY <3>2 DEF Appended
  <2>8. Len(b) \in Nat /\ Len(b) <= n
    <3> HIDE DEF b
    <3> QED
      BY <2>4, <2>5, BucketLen
  <2>9. WaitingOK'
    BY <1>1, <2>4, <2>6, <2>7 DEF WaitingOK
  <2>10. Counted(op[n + 1], e) /\ (Len(os) = 2 => \A d : ~Counted(op[n + 2], d))
    <3>1. e = op[n + 1].desc
      BY <2>2 DEF e
    <3> DEFINE x == op[n + 1]
               y == op[n + 2]
    <3>2. CASE os = <<n + 1>> /\ ~IsMerge(x)
      <4>1. Len(os) = 1
        BY <3>2
      <4> QED
        BY <3>1, <3>2, <4>1, HeadCounted
    <3>3. CASE Paired(x, y)
      <4> HIDE DEF x, y
      <4>1. Counted(x, x.desc) /\ \A d : ~Counted(y, d)
        BY <3>3, HeadCounted
      <4> QED
        BY <3>1, <4>1 DEF x, y
    <3> QED
      BY <2>1, <3>2, <3>3
  <2>11. ASSUME NEW d \in Descs
         PROVE  Cardinality(Waits(op, wop', d)) =
                  Cardinality(Waits(op, wop, d)) + (IF d = e THEN 1 ELSE 0)
    <3>1. \A m \in Level : wop[m] \in Seq(Nat)
      BY <2>4 DEF Bucket
    <3>2. c \in Seq(Nat)
      BY <2>7 DEF Bucket
    <3>3. Len(b) + 1 \in 1 .. MaxOps
      <4>1. N <= MaxOps /\ N \in Nat /\ MaxOps \in Nat
        BY <1>2, ControllerAssumption DEF OpsOK, N
      <4> HIDE DEF b
      <4> QED
        BY <2>1, <2>8, <4>1
    <3>a. /\ Len(c) \in Nat /\ Len(c) >= Len(b) + 1 /\ Len(c) <= Len(b) + 2
          /\ Len(c) = Len(b) + 2 => Len(os) = 2
      <4> DEFINE B == Len(b)
                 C == Len(c)
                 K == Len(os)
      <4>1. C = B + K /\ K \in {1, 2} /\ B \in Nat
        BY <2>7, <2>8
      <4> HIDE DEF B, C, K
      <4>2. C \in Nat /\ C >= B + 1 /\ C <= B + 2 /\ (C = B + 2 => K = 2)
        BY <4>1
      <4> QED
        BY <4>2 DEF B, C, K
    <3>4. Len(c) >= Len(b) + 1
      BY <3>a
    <3>5. \A i \in 1 .. Len(c) : i > Len(b) + 1 => \A x : ~Counted(op[c[i]], x)
      <4> SUFFICES ASSUME NEW i \in 1 .. Len(c), i > Len(b) + 1
                   PROVE  \A x : ~Counted(op[c[i]], x)
        OBVIOUS
      <4>1. Len(os) = 2 /\ i = Len(b) + 2
        <5> DEFINE B == Len(b)
                   C == Len(c)
        <5>1. /\ C \in Nat /\ B \in Nat /\ C <= B + 2 /\ i \in 1 .. C /\ i > B + 1
              /\ C = B + 2 => Len(os) = 2
          BY <2>8, <3>a
        <5> HIDE DEF B, C
        <5>2. i = B + 2 /\ C = B + 2
          BY <5>1
        <5> QED
          BY <5>1, <5>2 DEF B
      <4>2. c[i] = n + 2
        BY <2>7, <4>1
      <4> QED
        BY <2>10, <4>1, <4>2
    <3>6. Counted(op[c[Len(b) + 1]], e)
      BY <2>7, <2>10
    <3> HIDE DEF os
    <3> QED
      <4>1. \A m \in Level : wop'[m] = IF m = l THEN c ELSE wop[m]
        BY <2>6
      <4>2. \A i \in 1 .. Len(b) : c[i] = b[i]
        BY <2>7
      <4>3. AddedAs(op, wop, l, c, wop', e)
        BY <2>3, <3>1, <3>2, <3>3, <3>4, <3>5, <3>6, <4>1, <4>2 DEF AddedAs
      <4> QED
        BY <4>3, WaitsAdd
  <2>12. CountOK'
    <3>1. ASSUME NEW d \in Descs PROVE wopStatus'[d] = Cardinality(Waits(op, wop', d))
      <4>1. DOMAIN wopStatus = Descs /\ wopStatus[d] = Cardinality(Waits(op, wop, d))
        BY <1>2 DEF CountOK
      <4>2. Cardinality(Waits(op, wop, d)) \in Nat
        BY WaitsFinite
      <4>3. wopStatus'[d] = wopStatus[d] + (IF d = e THEN 1 ELSE 0)
        BY <1>6, <2>3, <4>1, <4>2
      <4> QED
        BY <2>11, <4>1, <4>3
    <3>2. DOMAIN wopStatus' = Descs
      BY <1>2, <1>6 DEF CountOK
    <3> QED
      BY <1>1, <3>1, <3>2 DEF CountOK
  <2> QED
    BY <1>4, <2>9, <2>12 DEF ControlInv
<1> QED
  BY <1>5, <1>6 DEF AddWaitingOperator

(* Taking the head of a bucket: what is left waits as before, counted one  *)
(* less.                                                                   *)
Popped(l, os) ==
  /\ os # <<>> /\ ToSet(os) \subseteq 1 .. Len(op)
  /\ DOMAIN wop' = Level /\ \A m \in Level : Bucket(op, wop'[m])
  /\ \A n \in Nat : Below(wop, n) => Below(wop', n)
  /\ DOMAIN wopStatus' = Descs
  /\ \A d \in Descs : wopStatus'[d] = Cardinality(Waits(op, wop', d))

LEMMA PopHead ==
  ASSUME ControlInv, NEW l \in Level, wop[l] # <<>>, NEW os, os = GetOperator(l),
         drop(l, os), leave(os)
  PROVE  Popped(l, os)
<1> DEFINE b == wop[l]
           k == IF IsMerge(op[b[1]]) THEN 2 ELSE 1
           c == SubSeq(b, k + 1, Len(b))
           e == op[b[1]].desc
<1>1. Bucket(op, b) /\ DOMAIN wop = Level /\ \A m \in Level : Bucket(op, wop[m])
  BY DEF ControlInv, WaitingOK
<1>2. OpsOK /\ CountOK /\ Len(op) \in Nat /\ Len(op) <= MaxOps /\ MaxOps \in Nat
  BY SeqFacts, ControllerAssumption DEF ControlInv, OpsOK
<1>3. os = SubSeq(b, 1, k)
  BY DEF GetOperator, IsMerge
<1>4. /\ k \in 1 .. Len(b) /\ Bucket(op, c) /\ Len(c) = Len(b) - k
      /\ \A i \in 1 .. Len(c) : c[i] = b[i + k]
      /\ k = 2 => Paired(op[b[1]], op[b[2]])
  <2>1. b # <<>> /\ k = IF IsMerge(op[b[1]]) THEN 2 ELSE 1
    OBVIOUS
  <2>2. c = SubSeq(b, k + 1, Len(b))
    OBVIOUS
  <2> HIDE DEF b, k, c
  <2>3. Remains(op, b, k, c)
    BY <1>1, <2>1, <2>2, PopBucket
  <2> QED
    BY <2>3 DEF Remains
<1>5. k \in {1, 2} /\ (k = 1 => ~IsMerge(op[b[1]]))
  OBVIOUS
<1>6. wop' = [wop EXCEPT ![l] = SubSeq(@, Len(os) + 1, Len(@))]
  BY DEF drop
<1>7. wopStatus' = [wopStatus EXCEPT ![op[os[1]].desc] = @ - 1]
  BY DEF leave
<1>8. b \in Seq(Nat) /\ Len(b) \in Nat /\ \A i \in 1 .. Len(b) : b[i] \in 1 .. Len(op)
  BY <1>1 DEF Bucket
<1> HIDE DEF b, k, c
<1>9. /\ Len(os) = k /\ DOMAIN os = 1 .. k /\ \A i \in 1 .. k : os[i] = b[i]
  <2>0. k \in Nat /\ 1 <= k /\ k <= Len(b)
    BY <1>4, <1>5, <1>8
  <2>1. \A i \in 1 .. k : b[i] \in Nat
    BY <1>8, <2>0
  <2>2. /\ SubSeq(b, 1, k) \in Seq(Nat)
        /\ Len(SubSeq(b, 1, k)) = IF 1 <= k THEN k - 1 + 1 ELSE 0
        /\ \A i \in 1 .. k - 1 + 1 : SubSeq(b, 1, k)[i] = b[1 + i - 1]
    BY <2>0, <2>1, SubSeqProperties
  <2>3. k - 1 + 1 = k /\ \A i \in 1 .. k : 1 + i - 1 = i
    BY <2>0
  <2>4. Len(os) = k /\ os \in Seq(Nat)
    BY <1>3, <2>0, <2>2, <2>3
  <2>5. \A i \in 1 .. k : os[i] = b[i]
    BY <1>3, <2>2, <2>3
  <2> QED
    BY <2>4, <2>5
<1>10. os # <<>> /\ ToSet(os) \subseteq 1 .. Len(op) /\ os[1] = b[1]
  <2>1. \A i \in 1 .. k : i \in 1 .. Len(b)
    BY <1>4, <1>5, <1>8
  <2>2. ToSet(os) \subseteq 1 .. Len(op)
    BY <1>8, <1>9, <2>1 DEF ToSet
  <2>3. 1 \in 1 .. k
    BY <1>5
  <2> QED
    BY <1>9, <2>2, <2>3
<1>11. e \in Descs
  <2>1. 1 \in 1 .. Len(b)
    BY <1>4, <1>8
  <2> QED
    BY <1>2, <1>8, <2>1 DEF OpsOK, OpOK
<1>e. e = op[os[1]].desc
  BY <1>10
<1> HIDE DEF e
<1>12. /\ DOMAIN wop' = Level
       /\ \A m \in Level : wop'[m] = IF m = l THEN c ELSE wop[m]
  <2>1. c = SubSeq(wop[l], Len(os) + 1, Len(wop[l]))
    BY <1>9 DEF b, c
  <2> HIDE DEF c
  <2> QED
    BY <1>1, <1>6, <2>1
<1>13. \A m \in Level : Bucket(op, wop'[m])
  BY <1>1, <1>4, <1>12
<1>14. ASSUME NEW n \in Nat, Below(wop, n) PROVE Below(wop', n)
  <2> SUFFICES ASSUME NEW m \in Level, NEW i \in 1 .. Len(wop'[m]) PROVE wop'[m][i] <= n
    BY DEF Below
  <2>1. CASE m # l
    BY <1>12, <1>14, <2>1 DEF Below
  <2>2. CASE m = l
    <3>1. wop'[m] = c /\ i \in 1 .. Len(c)
      BY <1>12, <2>2
    <3> DEFINE j == i + k
    <3>2. j \in 1 .. Len(b)
      <4> DEFINE B == Len(b)
                 C == Len(c)
      <4>1. C = B - k /\ B \in Nat /\ k \in {1, 2} /\ i \in 1 .. C /\ k \in 1 .. B
        BY <1>4, <1>5, <1>8, <3>1
      <4> HIDE DEF B, C
      <4>2. j \in 1 .. B
        BY <4>1
      <4> QED
        BY <4>2 DEF B
    <3>3. c[i] = b[j]
      BY <1>4, <3>1
    <3> HIDE DEF j
    <3>4. b[j] <= n
      BY <1>14, <3>2 DEF Below, b
    <3> QED
      BY <3>1, <3>3, <3>4
  <2> QED
    BY <2>1, <2>2
<1>15. TakenAs(op, wop, l, k, c, wop', e)
  <2>1. c \in Seq(Nat) /\ \A m \in Level : wop[m] \in Seq(Nat)
    BY <1>1, <1>4 DEF Bucket
  <2>2. Len(b) <= MaxOps
    <3>1. Len(b) <= Len(op)
      BY <1>1, <1>2, <1>8, BucketLen
    <3> QED
      BY <1>2, <1>8, <3>1
  <2>3. k <= Len(b)
    BY <1>4, <1>8
  <2>4. Counted(op[b[1]], e) /\ (k = 2 => \A d : ~Counted(op[b[2]], d))
    <3> DEFINE x == op[b[1]]
               y == op[b[2]]
    <3>1. e = x.desc
      BY DEF e
    <3>2. (k = 1 => ~IsMerge(x)) /\ (k = 2 => Paired(x, y)) /\ k \in {1, 2}
      BY <1>4, <1>5
    <3> HIDE DEF x, y
    <3>3. Counted(x, x.desc) /\ (k = 2 => \A d : ~Counted(y, d))
      BY <3>2, HeadCounted
    <3> QED
      BY <3>1, <3>3 DEF x, y
  <2>5. Len(c) = Len(b) - k /\ \A i \in 1 .. Len(c) : c[i] = b[i + k]
    BY <1>4
  <2> QED
    BY <1>5, <1>12, <2>1, <2>2, <2>3, <2>4, <2>5 DEF TakenAs, b
<1>16. ASSUME NEW d \in Descs PROVE wopStatus'[d] = Cardinality(Waits(op, wop', d))
  <2>1. DOMAIN wopStatus = Descs /\ wopStatus[d] = Cardinality(Waits(op, wop, d))
    BY <1>2 DEF CountOK
  <2>2. Cardinality(Waits(op, wop', d)) =
          Cardinality(Waits(op, wop, d)) - (IF d = e THEN 1 ELSE 0)
    BY <1>15, WaitsDrop
  <2>3. Cardinality(Waits(op, wop, d)) \in Nat
    BY WaitsFinite
  <2>4. wopStatus'[d] = wopStatus[d] - (IF d = e THEN 1 ELSE 0)
    BY <1>7, <1>11, <1>e, <2>1, <2>3
  <2> QED
    BY <2>1, <2>2, <2>4
<1>17. DOMAIN wopStatus' = Descs
  BY <1>2, <1>7 DEF CountOK
<1> QED
  BY <1>10, <1>12, <1>13, <1>14, <1>16, <1>17 DEF Popped

(* The operators taken are started or not. *)
LEMMA PopKept ==
  ASSUME ControlInv, NEW l, NEW os, Popped(l, os), OpsKept, Len(op') = Len(op), hand' = hand
  PROVE  OpsOK' /\ WaitingOK' /\ HandOK' /\ CountOK'
<1>1. OpsOK'
  BY OpsKeptOK DEF ControlInv
<1>2. /\ DOMAIN wop' = Level /\ \A m \in Level : Bucket(op, wop'[m])
      /\ \A n \in Nat : Below(wop, n) => Below(wop', n)
      /\ DOMAIN wopStatus' = Descs
      /\ \A d \in Descs : wopStatus'[d] = Cardinality(Waits(op, wop', d))
  BY DEF Popped
<1>3. \A m \in Level : Bucket(op', wop'[m])
  BY <1>2, WaitingKept
<1>4. WaitingOK'
  BY <1>2, <1>3 DEF WaitingOK
<1>5. HandOK'
  BY <1>2, HandKept DEF ControlInv
<1>6. \A d : Waits(op', wop', d) = Waits(op, wop', d)
  BY <1>2, CountKept
<1>7. CountOK'
  BY <1>2, <1>6 DEF CountOK
<1> QED
  BY <1>1, <1>4, <1>5, <1>7

LEMMA StepPromote ==
  ASSUME ControlInv, PromoteWaitingOperator
  PROVE  ControlInv'
<1>1. /\ tikv' = tikv /\ cache' = cache /\ disp' = disp /\ removing' = removing
      /\ hand' = hand
  BY DEF PromoteWaitingOperator
<1>2. OpsOK /\ RunningOK /\ SetsOK /\ DispOK
  BY DEF ControlInv
<1>3. ASSUME OpsKept, Len(op') = Len(op), RunningOK', SetsOK',
             OpsOK' /\ WaitingOK' /\ HandOK' /\ CountOK'
      PROVE  ControlInv'
  <2>1. RegionsOK' /\ DispOK'
    BY <1>1, <1>2, <1>3, DispKept DEF ControlInv, RegionsOK
  <2> QED
    BY <1>3, <2>1 DEF ControlInv
<1>4. ASSUME UNCHANGED <<operators, age, op, queue, msgs>>
      PROVE  OpsKept /\ Len(op') = Len(op) /\ RunningOK' /\ SetsOK'
  <2>1. OpsKept /\ Len(op') = Len(op)
    BY <1>2, <1>4, NoneMoved
  <2> QED
    BY <1>1, <1>2, <1>4, <2>1, RunningKept, SetsKept
<1>5. CASE PromoteCancel
  <2>1. PICK l \in Level : wop[l] # <<>> /\ drop(l, GetOperator(l)) /\ leave(GetOperator(l))
    BY <1>5 DEF PromoteCancel
  <2>2. Popped(l, GetOperator(l))
    BY <2>1, PopHead
  <2>3. UNCHANGED <<operators, age, op, queue, msgs>>
    BY <1>5 DEF PromoteCancel
  <2>4. OpsKept /\ Len(op') = Len(op) /\ RunningOK' /\ SetsOK'
    BY <1>4, <2>3
  <2>5. OpsOK' /\ WaitingOK' /\ HandOK' /\ CountOK'
    BY <1>1, <2>2, <2>4, PopKept
  <2> QED
    BY <1>3, <2>4, <2>5
<1>6. CASE PromoteStart
  <2>1. PICK l \in Level : /\ wop[l] # <<>> /\ drop(l, GetOperator(l)) /\ leave(GetOperator(l))
                           /\ addOperatorLocked(GetOperator(l))
    BY <1>6 DEF PromoteStart
  <2>2. Popped(l, GetOperator(l))
    BY <2>1, PopHead
  <2>3. ToSet(GetOperator(l)) \subseteq 1 .. Len(op)
    BY <2>2 DEF Popped
  <2>4. /\ OpsKept /\ Len(op') = Len(op) /\ RunningOK' /\ queue' \subseteq 1 .. Len(op)
        /\ DOMAIN msgs' = Region
        /\ \A r \in Region : IsSeq(msgs'[r]) /\ Len(msgs'[r]) <= MaxMsgs
    BY <1>2, <2>1, <2>3, AddLocked
  <2>5. SetsOK'
    BY <1>1, <1>2, <2>4 DEF SetsOK
  <2>6. OpsOK' /\ WaitingOK' /\ HandOK' /\ CountOK'
    BY <1>1, <2>2, <2>4, PopKept
  <2> QED
    BY <1>3, <2>4, <2>5, <2>6
<1>7. CASE PromoteNothing
  <2>1. UNCHANGED <<operators, age, op, queue, msgs>> /\ wop' = wop /\ wopStatus' = wopStatus
    BY <1>7 DEF PromoteNothing
  <2>2. OpsKept /\ Len(op') = Len(op) /\ RunningOK' /\ SetsOK'
    BY <1>4, <2>1
  <2>3. OpsOK' /\ WaitingOK' /\ HandOK' /\ CountOK'
    BY <1>1, <2>1, <2>2, NoneWaits
  <2> QED
    BY <1>3, <2>2, <2>3
<1> QED
  BY <1>5, <1>6, <1>7 DEF PromoteWaitingOperator

(***************************************************************************)
(* Dispatch.                                                               *)
(***************************************************************************)
(* What a goroutine may carry from one locked section to the next. *)
Carries(ops, x) ==
  \/ x = Idle
  \/ x.pc \in {"put", "begin"} /\ Seen(x.region)
  \/ /\ x.pc \in {"check", "poll"} /\ x.o \in 1 .. Len(ops)
     /\ x.step \in 1 .. Len(ops[x.o].steps) + 1
     /\ Seen(x.region)
  \/ x.pc = "remove" /\ x.o \in 1 .. Len(ops)

LEMMA DispShape ==
  DispOK <=> DOMAIN disp = Goroutine /\ \A d \in Goroutine : Carries(op, disp[d])
  BY DEF DispOK, Carries

LEMMA CarriesKept ==
  ASSUME OpsKept, NEW x, Carries(op, x)
  PROVE  Carries(op', x)
<1>1. /\ 1 .. Len(op) \subseteq 1 .. Len(op')
      /\ \A o \in 1 .. Len(op) : op'[o].steps = op[o].steps
  BY DEF OpsKept, Kept
<1> QED
  BY <1>1 DEF Carries

(* One goroutine moves on. *)
LEMMA OneDispatches ==
  ASSUME OpsKept, DispOK, NEW d \in Goroutine, NEW x, Carries(op', x),
         disp' = [disp EXCEPT ![d] = x]
  PROVE  DispOK'
<1>1. DOMAIN disp = Goroutine /\ \A g \in Goroutine : Carries(op, disp[g])
  BY DispShape
<1>2. DOMAIN disp' = Goroutine /\ \A g \in Goroutine : disp'[g] = IF g = d THEN x ELSE disp[g]
  BY <1>1
<1>3. \A g \in Goroutine : Carries(op', disp'[g])
  BY <1>1, <1>2, CarriesKept
<1> QED
  BY <1>2, <1>3 DEF DispOK, Carries

(* currentStep of operator o moves to pos. *)
LEMMA PositionMoved ==
  ASSUME OpsOK, NEW o \in 1 .. Len(op), NEW pos \in 1 .. Len(op[o].steps) + 1,
         op' = [op EXCEPT ![o].currentStep = pos]
  PROVE  OpsKept /\ Len(op') = Len(op)
<1> DEFINE x == op[o]
           y == [x EXCEPT !.currentStep = pos]
<1>1. OpOK(x) /\ pos \in 1 .. Len(x.steps) + 1
  BY DEF OpsOK
<1>2. op' = [op EXCEPT ![o] = y]
  OBVIOUS
<1>3. OpOK(y) /\ Kept(x, y)
  <2> HIDE DEF x
  <2> QED
    BY <1>1, OpUpdate
<1> HIDE DEF y
<1> QED
  BY <1>2, <1>3, OneMoved

(* Operator.Check, whose store may come late. *)
LEMMA StoredKept ==
  ASSUME OpsOK, NEW g, disp[g].o \in 1 .. Len(op), stored(g),
         disp[g].step \in 1 .. Len(op[disp[g].o].steps) + 1
  PROVE  /\ OpsKept /\ Len(op') = Len(op)
         /\ checked(g) \in 1 .. Len(op[disp[g].o].steps) + 1
<1> DEFINE o    == disp[g].o
           step == disp[g].step
           z    == op[o]
           y    == [z EXCEPT !.currentStep = step]
           pos  == checked(g)
<1>1. OpOK(z) /\ step \in 1 .. Len(z.steps) + 1
  BY DEF OpsOK
<1>2. pos = Check(y, disp[g].region)
  BY DEF checked
<1>3. pos \in 1 .. Len(z.steps) + 1
  <2> HIDE DEF z, step
  <2>1. OpOK(y) /\ Kept(z, y)
    BY <1>1, OpUpdate
  <2>2. y.steps = z.steps
    BY <2>1 DEF Kept
  <2> HIDE DEF y
  <2>3. Check(y, disp[g].region) \in 1 .. Len(y.steps) + 1
    BY <2>1, CheckRange DEF OpOK
  <2> QED
    BY <1>2, <2>2, <2>3
<1>4. op' = op \/ op' = [op EXCEPT ![o].currentStep = pos]
  BY DEF stored
<1> HIDE DEF pos
<1>5. OpsKept /\ Len(op') = Len(op)
  <2>1. CASE op' = op
    BY <2>1, NoneMoved
  <2>2. CASE op' = [op EXCEPT ![o].currentStep = pos]
    <3>1. o \in 1 .. Len(op) /\ pos \in 1 .. Len(op[o].steps) + 1
      BY <1>3
    <3> HIDE DEF o, z
    <3> QED
      BY <2>2, <3>1, PositionMoved
  <2> QED
    BY <1>4, <2>1, <2>2
<1> QED
  BY <1>3, <1>5 DEF pos

LEMMA StepPoll ==
  ASSUME ControlInv, pollNeedDispatchRegion
  PROVE  ControlInv'
<1>1. /\ tikv' = tikv /\ cache' = cache /\ operators' = operators /\ wop' = wop
      /\ wopStatus' = wopStatus /\ msgs' = msgs /\ removing' = removing /\ hand' = hand
      /\ op' = op
  BY DEF pollNeedDispatchRegion
<1>2. OpsOK /\ RunningOK /\ SetsOK /\ DispOK /\ RegionsOK /\ Len(op) \in Nat
  BY SeqFacts DEF ControlInv, OpsOK
<1>3. PICK item \in queue :
        LET r == op[item].region
            o == operators[r]
        IN  IF o = 0 \/ cache[r] = Gone
            THEN queue' = queue \ {item} /\ UNCHANGED disp
            ELSE /\ disp' = [disp EXCEPT ![Pusher] =
                               [pc |-> "poll", item |-> item, region |-> cache[r], o |-> o,
                                step |-> op[o].currentStep]]
                 /\ UNCHANGED queue
  BY DEF pollNeedDispatchRegion
<1> DEFINE r == op[item].region
           o == operators[r]
           x == [pc |-> "poll", item |-> item, region |-> cache[r], o |-> o,
                 step |-> op[o].currentStep]
<1>4. item \in 1 .. Len(op) /\ r \in Region
  BY <1>2 DEF SetsOK, OpsOK, OpOK
<1>5. OpsKept /\ Len(op') = Len(op)
  BY <1>1, <1>2, NoneMoved
<1>6. queue' \subseteq queue
  BY <1>3
<1>7. disp' = disp \/ (o # 0 /\ cache[r] # Gone /\ disp' = [disp EXCEPT ![Pusher] = x])
  BY <1>3
<1>8. DispOK'
  <2>1. CASE disp' = disp
    BY <1>2, <1>5, <2>1, DispKept
  <2>2. CASE o # 0 /\ cache[r] # Gone /\ disp' = [disp EXCEPT ![Pusher] = x]
    <3>1. o \in 1 .. Len(op)
      BY <1>2, <1>4, <2>2 DEF RunningOK, Runs
    <3>2. op[o].currentStep \in 1 .. Len(op[o].steps) + 1
      BY <1>2, <3>1 DEF OpsOK, OpOK
    <3>3. Seen(cache[r])
      BY <1>2, <1>4, <2>2 DEF RegionsOK, Seen
    <3>4. /\ x.pc = "poll" /\ x.o = o /\ x.step = op[o].currentStep /\ x.region = cache[r]
      OBVIOUS
    <3>5. disp' = [disp EXCEPT ![Pusher] = x] /\ Pusher \in Goroutine
      BY <2>2 DEF Goroutine
    <3> HIDE DEF x, o, r
    <3>6. Carries(op', x)
      BY <1>1, <3>1, <3>2, <3>3, <3>4 DEF Carries
    <3> QED
      BY <1>2, <1>5, <3>5, <3>6, OneDispatches
  <2> QED
    BY <1>7, <2>1, <2>2
<1>9. OpsOK' /\ WaitingOK' /\ HandOK' /\ CountOK'
  BY <1>1, <1>5, NoneWaits
<1>10. RunningOK'
  BY <1>1, <1>2, <1>5, RunningKept
<1>11. SetsOK'
  BY <1>1, <1>2, <1>6 DEF SetsOK
<1>12. RegionsOK'
  BY <1>1, <1>2 DEF RegionsOK
<1> QED
  BY <1>8, <1>9, <1>10, <1>11, <1>12 DEF ControlInv

LEMMA StepPollCheck ==
  ASSUME ControlInv, pollCheck
  PROVE  ControlInv'
<1>1. /\ tikv' = tikv /\ cache' = cache /\ operators' = operators /\ wop' = wop
      /\ wopStatus' = wopStatus /\ msgs' = msgs /\ removing' = removing /\ hand' = hand
      /\ disp[Pusher].pc = "poll" /\ stored(Pusher) /\ queue' \subseteq queue
      /\ \/ disp' = [disp EXCEPT ![Pusher] = Idle]
         \/ disp' = [disp EXCEPT ![Pusher] = [pc |-> "begin", region |-> disp[Pusher].region]]
  BY DEF pollCheck, Locked
<1>2. OpsOK /\ RunningOK /\ SetsOK /\ DispOK /\ RegionsOK /\ Pusher \in Goroutine
  BY DEF ControlInv, Goroutine
<1>3. /\ disp[Pusher].o \in 1 .. Len(op)
      /\ disp[Pusher].step \in 1 .. Len(op[disp[Pusher].o].steps) + 1
      /\ Seen(disp[Pusher].region)
  BY <1>1, <1>2 DEF DispOK, Idle
<1>4. OpsKept /\ Len(op') = Len(op)
  BY <1>1, <1>2, <1>3, StoredKept
<1>5. DispOK'
  <2> DEFINE x == [pc |-> "begin", region |-> disp[Pusher].region]
  <2>1. x.pc = "begin" /\ x.region = disp[Pusher].region
    OBVIOUS
  <2>2. disp' = [disp EXCEPT ![Pusher] = Idle] \/ disp' = [disp EXCEPT ![Pusher] = x]
    BY <1>1
  <2> HIDE DEF x
  <2>3. Carries(op', x) /\ Carries(op', Idle)
    BY <1>3, <2>1 DEF Carries
  <2> QED
    BY <1>2, <1>4, <2>2, <2>3, OneDispatches
<1>6. RunningOK' /\ RegionsOK'
  BY <1>1, <1>2, <1>4, RunningKept DEF RegionsOK
<1>7. SetsOK'
  BY <1>1, <1>2, <1>4 DEF SetsOK
<1>8. OpsOK' /\ WaitingOK' /\ HandOK' /\ CountOK'
  BY <1>1, <1>4, NoneWaits
<1> QED
  BY <1>5, <1>6, <1>7, <1>8 DEF ControlInv

LEMMA StepDispatchCheck ==
  ASSUME ControlInv, NEW d \in Goroutine, DispatchCheck(d)
  PROVE  ControlInv'
<1> DEFINE o    == disp[d].o
           reg  == disp[d].region
           next == checked(d) <= Len(op[o].steps) /\ ~disp[d].timeout
           cmd  == IF next THEN SendScheduleCommand(reg, op[o].steps[checked(d)]) ELSE <<>>
           x    == IF ~next /\ (OpIsFinish(op'[o]) \/ disp[d].timeout)
                   THEN [pc |-> "remove", o |-> o] ELSE Idle
<1>1. /\ tikv' = tikv /\ cache' = cache /\ operators' = operators /\ wop' = wop
      /\ wopStatus' = wopStatus /\ queue' = queue /\ removing' = removing /\ hand' = hand
      /\ disp[d].pc = "check" /\ stored(d)
  BY DEF DispatchCheck
<1>2. /\ Len(msgs[reg.id] \o cmd) <= MaxMsgs
      /\ msgs' = [msgs EXCEPT ![reg.id] = @ \o cmd]
      /\ disp' = [disp EXCEPT ![d] = x]
  BY DEF DispatchCheck
<1>3. OpsOK /\ RunningOK /\ SetsOK /\ DispOK /\ RegionsOK
  BY DEF ControlInv
<1>4. /\ o \in 1 .. Len(op) /\ disp[d].step \in 1 .. Len(op[o].steps) + 1
      /\ reg.id \in Region
  BY <1>1, <1>3 DEF DispOK, Idle, Seen
<1>8. IsSeq(cmd)
  BY ShortSeqs, CommandSeq
<1>9. x = Idle \/ x = [pc |-> "remove", o |-> o]
  OBVIOUS
<1>10. OpsKept /\ Len(op') = Len(op)
  BY <1>1, <1>3, <1>4, StoredKept
<1> HIDE DEF cmd, x
<1>11. DispOK'
  <2> HIDE DEF o
  <2>1. Carries(op', x)
    BY <1>4, <1>9, <1>10 DEF Carries
  <2> QED
    BY <1>2, <1>3, <1>10, <2>1, OneDispatches
<1>12. SetsOK'
  <2> HIDE DEF reg
  <2>1. /\ DOMAIN msgs = Region /\ \A r \in Region : IsSeq(msgs[r]) /\ Len(msgs[r]) <= MaxMsgs
        /\ queue \subseteq 1 .. Len(op) /\ removing \subseteq 1 .. Len(op)
    BY <1>3 DEF SetsOK
  <2>2. IsSeq(msgs[reg.id] \o cmd)
    BY <1>4, <1>8, <2>1, SeqConcat
  <2>3. DOMAIN msgs' = Region
    BY <1>2, <2>1
  <2>4. \A r \in Region : msgs'[r] = IF r = reg.id THEN msgs[reg.id] \o cmd ELSE msgs[r]
    BY <1>2, <2>1
  <2>5. \A r \in Region : IsSeq(msgs'[r]) /\ Len(msgs'[r]) <= MaxMsgs
    BY <1>2, <2>1, <2>2, <2>4
  <2> QED
    BY <1>1, <1>10, <2>1, <2>3, <2>5 DEF SetsOK
<1>13. OpsOK' /\ WaitingOK' /\ HandOK' /\ CountOK'
  BY <1>1, <1>10, NoneWaits
<1>14. RunningOK' /\ RegionsOK'
  BY <1>1, <1>3, <1>10, RunningKept DEF RegionsOK
<1> QED
  BY <1>11, <1>12, <1>13, <1>14 DEF ControlInv

(***************************************************************************)
(* Removal, time, and the outside world.                                   *)
(***************************************************************************)
LEMMA RemoveRunning ==
  ASSUME RunningOK, OpsOK, NEW o \in 1 .. Len(op), removeOperatorLocked(o), op' = op
  PROVE  RunningOK'
<1> DEFINE q == op[o].region
<1>1. operators' = [operators EXCEPT ![q] = 0] /\ q \in Region
  BY DEF removeOperatorLocked, OpsOK, OpOK
<1>2. operators \in [Region -> Nat] /\ \A r \in Region : Runs(r)
  BY DEF RunningOK
<1> HIDE DEF q
<1>3. operators' \in [Region -> Nat]
  BY <1>1, <1>2
<1>4. ASSUME NEW r \in Region PROVE Runs(r)'
  <2>1. operators'[r] = IF r = q THEN 0 ELSE operators[r]
    BY <1>1, <1>2
  <2>2. CASE r = q
    BY <2>1, <2>2 DEF Runs
  <2>3. CASE r # q
    <3>1. operators'[r] = operators[r]
      BY <2>1, <2>3
    <3> QED
      BY <1>2, <3>1 DEF Runs
  <2> QED
    BY <2>2, <2>3
<1> QED
  BY <1>3, <1>4 DEF RunningOK

LEMMA StepDispatchRemove ==
  ASSUME ControlInv, NEW d \in Goroutine, DispatchRemove(d)
  PROVE  ControlInv'
<1>1. /\ tikv' = tikv /\ cache' = cache /\ op' = op /\ wop' = wop /\ wopStatus' = wopStatus
      /\ queue' = queue /\ msgs' = msgs /\ removing' = removing /\ hand' = hand
      /\ disp[d].pc = "remove" /\ removeOperatorLocked(disp[d].o)
      /\ disp' = [disp EXCEPT ![d] = Idle]
  BY DEF DispatchRemove
<1>2. OpsOK /\ RunningOK /\ SetsOK /\ DispOK /\ RegionsOK
  BY DEF ControlInv
<1>3. disp[d].o \in 1 .. Len(op)
  BY <1>1, <1>2 DEF DispOK, Idle
<1>4. OpsKept /\ Len(op') = Len(op)
  BY <1>1, <1>2, NoneMoved
<1>5. RunningOK'
  BY <1>1, <1>2, <1>3, RemoveRunning
<1>6. DispOK'
  <2>1. Carries(op', Idle)
    BY DEF Carries
  <2> QED
    BY <1>1, <1>2, <1>4, <2>1, OneDispatches
<1>7. SetsOK' /\ RegionsOK'
  BY <1>1, <1>2, <1>4, SetsKept DEF RegionsOK
<1>8. OpsOK' /\ WaitingOK' /\ HandOK' /\ CountOK'
  BY <1>1, <1>4, NoneWaits
<1> QED
  BY <1>5, <1>6, <1>7, <1>8 DEF ControlInv

(* Handler.RemoveOperator and checkOperators, before they remove. *)
LEMMA StepFound ==
  ASSUME ControlInv, NEW r \in Region, HandlerRemoveOperator(r) \/ checkOperators(r)
  PROVE  ControlInv'
<1>1. /\ operators[r] # 0 /\ removing' = removing \union {operators[r]}
      /\ tikv' = tikv /\ cache' = cache /\ op' = op /\ operators' = operators /\ wop' = wop
      /\ wopStatus' = wopStatus /\ queue' = queue /\ msgs' = msgs /\ disp' = disp
      /\ hand' = hand
  BY DEF HandlerRemoveOperator, checkOperators
<1>2. OpsOK /\ RunningOK /\ SetsOK /\ DispOK /\ RegionsOK
  BY DEF ControlInv
<1>3. operators[r] \in 1 .. Len(op)
  BY <1>1, <1>2 DEF RunningOK, Runs
<1>4. OpsKept /\ Len(op') = Len(op)
  BY <1>1, <1>2, NoneMoved
<1>5. SetsOK'
  BY <1>1, <1>2, <1>3, <1>4 DEF SetsOK
<1>6. RunningOK' /\ DispOK' /\ RegionsOK'
  BY <1>1, <1>2, <1>4, RunningKept, DispKept DEF RegionsOK
<1>7. OpsOK' /\ WaitingOK' /\ HandOK' /\ CountOK'
  BY <1>1, <1>4, NoneWaits
<1> QED
  BY <1>5, <1>6, <1>7 DEF ControlInv

LEMMA StepRemove ==
  ASSUME ControlInv, NEW o \in DOMAIN op, RemoveOperator(o)
  PROVE  ControlInv'
<1>1. /\ o \in removing /\ removing' = removing \ {o} /\ removeOperatorLocked(o)
      /\ tikv' = tikv /\ cache' = cache /\ op' = op /\ wop' = wop
      /\ wopStatus' = wopStatus /\ queue' = queue /\ msgs' = msgs /\ disp' = disp
      /\ hand' = hand
  BY DEF RemoveOperator
<1>2. OpsOK /\ RunningOK /\ SetsOK /\ DispOK /\ RegionsOK
  BY DEF ControlInv
<1>3. o \in 1 .. Len(op)
  BY <1>1, <1>2 DEF SetsOK
<1>4. OpsKept /\ Len(op') = Len(op)
  BY <1>1, <1>2, NoneMoved
<1>5. RunningOK'
  BY <1>1, <1>2, <1>3, RemoveRunning
<1>6. SetsOK'
  BY <1>1, <1>2, <1>4 DEF SetsOK
<1>7. DispOK' /\ RegionsOK'
  BY <1>1, <1>2, <1>4, DispKept DEF RegionsOK
<1>8. OpsOK' /\ WaitingOK' /\ HandOK' /\ CountOK'
  BY <1>1, <1>4, NoneWaits
<1> QED
  BY <1>5, <1>6, <1>7, <1>8 DEF ControlInv

LEMMA StepExpire ==
  ASSUME ControlInv, NEW o \in DOMAIN op, Expire(o)
  PROVE  ControlInv'
<1>1. /\ op' = op /\ tikv' = tikv /\ cache' = cache /\ operators' = operators /\ wop' = wop
      /\ wopStatus' = wopStatus /\ queue' = queue /\ msgs' = msgs /\ disp' = disp
      /\ removing' = removing /\ hand' = hand
  BY DEF Expire
<1>2. OpsOK /\ RunningOK /\ SetsOK /\ DispOK /\ RegionsOK
  BY DEF ControlInv
<1>4. OpsKept /\ Len(op') = Len(op)
  BY <1>1, <1>2, NoneMoved
<1>5. RunningOK' /\ DispOK' /\ SetsOK' /\ RegionsOK'
  BY <1>1, <1>2, <1>4, RunningKept, DispKept, SetsKept DEF RegionsOK
<1>6. OpsOK' /\ WaitingOK' /\ HandOK' /\ CountOK'
  BY <1>1, <1>4, NoneWaits
<1> QED
  BY <1>5, <1>6 DEF ControlInv

(* Only a goroutine moves on. *)
LEMMA StepGoroutine ==
  ASSUME ControlInv, NEW g \in Goroutine, NEW x, Carries(op, x),
         disp' = [disp EXCEPT ![g] = x], UNCHANGED <<tikv, cache, op, operators, wop>>,
         UNCHANGED <<wopStatus, queue, msgs, removing, hand>>
  PROVE  ControlInv'
<1>1. /\ op' = op /\ tikv' = tikv /\ cache' = cache /\ operators' = operators /\ wop' = wop
      /\ wopStatus' = wopStatus /\ queue' = queue /\ msgs' = msgs
      /\ removing' = removing /\ hand' = hand
  OBVIOUS
<1>2. OpsOK /\ RunningOK /\ SetsOK /\ DispOK /\ RegionsOK
  BY DEF ControlInv
<1>3. OpsKept /\ Len(op') = Len(op)
  BY <1>1, <1>2, NoneMoved
<1>4. Carries(op', x)
  BY <1>1
<1>5. DispOK'
  BY <1>2, <1>3, <1>4, OneDispatches
<1>6. RunningOK' /\ SetsOK' /\ RegionsOK'
  BY <1>1, <1>2, <1>3, RunningKept, SetsKept DEF RegionsOK
<1>7. OpsOK' /\ WaitingOK' /\ HandOK' /\ CountOK'
  BY <1>1, <1>3, NoneWaits
<1> QED
  BY <1>5, <1>6, <1>7 DEF ControlInv

LEMMA StepHeartbeat ==
  ASSUME ControlInv, NEW r \in Region, RegionHeartbeat(r)
  PROVE  ControlInv'
<1> DEFINE t == tikv[r]
           g == Stream(t.leader)
           x == [pc |-> IF saveCache(t) THEN "put" ELSE "begin", region |-> t]
<1>1. /\ t # Gone /\ g \in Goroutine /\ disp' = [disp EXCEPT ![g] = x]
      /\ UNCHANGED <<tikv, cache, op, operators, wop>>
      /\ UNCHANGED <<wopStatus, queue, msgs, removing, hand>>
  BY DEF RegionHeartbeat
<1>2. Seen(t)
  BY <1>1 DEF ControlInv, RegionsOK, Seen
<1>3. x.pc \in {"put", "begin"} /\ x.region = t
  OBVIOUS
<1> HIDE DEF x, g, t
<1>4. Carries(op, x)
  BY <1>2, <1>3 DEF Carries
<1> QED
  BY <1>1, <1>4, StepGoroutine

LEMMA StepDispatch ==
  ASSUME ControlInv, NEW g \in Goroutine, Dispatch(g)
  PROVE  ControlInv'
<1> DEFINE t == disp[g].region
           o == operators[t.id]
           y == [pc |-> "check", region |-> t, o |-> o, timeout |-> IsTimeout(o),
                 step |-> op[o].currentStep]
           x == IF o = 0 THEN Idle ELSE y
<1>1. /\ disp[g].pc = "begin" /\ disp' = [disp EXCEPT ![g] = x]
      /\ UNCHANGED <<tikv, cache, op, operators, wop>>
      /\ UNCHANGED <<wopStatus, queue, msgs, removing, hand>>
  BY DEF Dispatch
<1>2. OpsOK /\ RunningOK /\ Seen(t)
  BY <1>1 DEF ControlInv, DispOK, Idle
<1>3. Carries(op, x)
  <2>1. CASE o = 0
    BY <2>1 DEF Carries
  <2>2. CASE o # 0
    <3>1. o \in 1 .. Len(op)
      BY <1>2, <2>2 DEF RunningOK, Runs, Seen
    <3>2. op[o].currentStep \in 1 .. Len(op[o].steps) + 1
      BY <1>2, <3>1 DEF OpsOK, OpOK
    <3>3. y.pc = "check" /\ y.o = o /\ y.step = op[o].currentStep /\ y.region = t
      OBVIOUS
    <3>4. x = y
      BY <2>2
    <3> HIDE DEF x, y, o, t
    <3> QED
      BY <1>2, <3>1, <3>2, <3>3, <3>4 DEF Carries
  <2> QED
    BY <2>1, <2>2
<1> HIDE DEF x
<1> QED
  BY <1>1, <1>3, StepGoroutine

LEMMA StepPut ==
  ASSUME ControlInv, NEW g \in Goroutine, HeartbeatPut(g)
  PROVE  ControlInv'
<1> DEFINE t == disp[g].region
           x == [disp[g] EXCEPT !.pc = "begin"]
<1>1. /\ op' = op /\ tikv' = tikv /\ operators' = operators /\ wop' = wop
      /\ wopStatus' = wopStatus /\ queue' = queue /\ msgs' = msgs
      /\ removing' = removing /\ hand' = hand /\ disp[g].pc = "put"
      /\ DOMAIN cache' = Region
      /\ \A q \in Region : cache'[q] \in {cache[q], Gone} \/ (q = t.id /\ cache'[q] = t)
      /\ disp' = [disp EXCEPT ![g].pc = "begin"]
  BY DEF HeartbeatPut
<1>2. OpsOK /\ RunningOK /\ SetsOK /\ DispOK /\ RegionsOK /\ Seen(t)
  BY <1>1 DEF ControlInv, DispOK, Idle
<1>3. OpsKept /\ Len(op') = Len(op)
  BY <1>1, <1>2, NoneMoved
<1>4. DispOK'
  <2>1. disp' = [disp EXCEPT ![g] = x]
    BY <1>1
  <2>2. Carries(op', x)
    <3>1. Carries(op, disp[g])
      BY <1>2, DispShape
    <3> DEFINE y == disp[g]
    <3>2. y.pc = "put" /\ Seen(y.region)
      BY <1>1, <1>2
    <3>4. x.pc = "begin" \/ x.pc = y.pc
      OBVIOUS
    <3>5. x.region = y.region
      OBVIOUS
    <3> HIDE DEF x, y
    <3> QED
      BY <1>2, <3>2, <3>4, <3>5 DEF Carries
  <2> HIDE DEF x
  <2> QED
    BY <1>2, <1>3, <2>1, <2>2, OneDispatches
<1>5. RegionsOK'
  <2>1. /\ DOMAIN tikv = Region
        /\ \A q \in Region : KnownAs(tikv[q], q) /\ KnownAs(cache[q], q)
    BY <1>2, RegionsShape
  <2>2. \A q \in Region : KnownAs(cache'[q], q)
    <3>1. \A q : KnownAs(Gone, q)
      BY DEF KnownAs
    <3>2. \A q \in Region : q = t.id => KnownAs(t, q)
      BY <1>2 DEF KnownAs, Seen
    <3> QED
      BY <1>1, <2>1, <3>1, <3>2
  <2> QED
    BY <1>1, <2>1, <2>2 DEF RegionsOK, KnownAs
<1>6. RunningOK' /\ SetsOK'
  BY <1>1, <1>2, <1>3, RunningKept, SetsKept
<1>7. OpsOK' /\ WaitingOK' /\ HandOK' /\ CountOK'
  BY <1>1, <1>3, NoneWaits
<1> QED
  BY <1>4, <1>5, <1>6, <1>7 DEF ControlInv

(* A command leaves its queue; the regions may change with it. *)
LEMMA StepCommand ==
  ASSUME ControlInv, NEW r \in Region, StreamDrop(r) \/ TiKVExecute(r)
  PROVE  ControlInv'
<1>1. /\ msgs[r] # <<>> /\ msgs' = [msgs EXCEPT ![r] = Tail(@)]
      /\ op' = op /\ operators' = operators /\ wop' = wop /\ wopStatus' = wopStatus
      /\ queue' = queue /\ disp' = disp /\ removing' = removing /\ hand' = hand
  BY DEF StreamDrop, TiKVExecute
<1>2. OpsOK /\ RunningOK /\ SetsOK /\ DispOK /\ RegionsOK
  BY DEF ControlInv
<1>3. OpsKept /\ Len(op') = Len(op)
  BY <1>1, <1>2, NoneMoved
<1>4. RegionsOK'
  <2>1. CASE StreamDrop(r)
    BY <1>2, <2>1 DEF StreamDrop, RegionsOK
  <2>2. CASE TiKVExecute(r)
    BY <1>2, <2>2, ExecuteRegions
  <2> QED
    BY <2>1, <2>2
<1>5. SetsOK'
  <2>1. /\ DOMAIN msgs = Region /\ \A q \in Region : IsSeq(msgs[q]) /\ Len(msgs[q]) <= MaxMsgs
        /\ queue \subseteq 1 .. Len(op) /\ removing \subseteq 1 .. Len(op)
    BY <1>2 DEF SetsOK
  <2>2. IsSeq(Tail(msgs[r])) /\ Len(Tail(msgs[r])) = Len(msgs[r]) - 1 /\ Len(msgs[r]) \in Nat
    BY <1>1, <2>1, SeqFacts
  <2>3. Len(Tail(msgs[r])) <= MaxMsgs
    BY <2>1, <2>2, ControllerAssumption
  <2>4. /\ DOMAIN msgs' = Region
        /\ \A q \in Region : msgs'[q] = IF q = r THEN Tail(msgs[r]) ELSE msgs[q]
    BY <1>1, <2>1
  <2> QED
    BY <1>1, <1>3, <2>1, <2>2, <2>3, <2>4 DEF SetsOK
<1>6. RunningOK' /\ DispOK'
  BY <1>1, <1>2, <1>3, RunningKept, DispKept
<1>7. OpsOK' /\ WaitingOK' /\ HandOK' /\ CountOK'
  BY <1>1, <1>3, NoneWaits
<1> QED
  BY <1>4, <1>5, <1>6, <1>7 DEF ControlInv

LEMMA StepCatchUp ==
  ASSUME ControlInv, NEW r \in Region, CatchUp(r)
  PROVE  ControlInv'
<1>1. /\ tikv[r] # Gone /\ tikv' = [tikv EXCEPT ![r].pending = {}] /\ cache' = cache
      /\ op' = op /\ operators' = operators /\ wop' = wop /\ wopStatus' = wopStatus
      /\ queue' = queue /\ msgs' = msgs /\ disp' = disp /\ removing' = removing
      /\ hand' = hand
  BY DEF CatchUp
<1>2. OpsOK /\ RunningOK /\ SetsOK /\ DispOK /\ RegionsOK
  BY DEF ControlInv
<1>3. OpsKept /\ Len(op') = Len(op)
  BY <1>1, <1>2, NoneMoved
<1>4. RegionsOK'
  <2>1. /\ DOMAIN tikv = Region /\ DOMAIN cache = Region
        /\ \A q \in Region : KnownAs(tikv[q], q) /\ KnownAs(cache[q], q)
    BY <1>2, RegionsShape
  <2> DEFINE t == tikv[r]
             u == [t EXCEPT !.pending = {}]
  <2>2. "id" \in DOMAIN t /\ t.id = r
    BY <1>1, <2>1 DEF KnownAs
  <2>3. tikv' = [tikv EXCEPT ![r] = u]
    BY <1>1
  <2> HIDE DEF t
  <2>4. "id" \in DOMAIN u /\ u.id = r
    BY <2>2
  <2> HIDE DEF u
  <2>5. KnownAs(u, r)
    BY <2>4 DEF KnownAs
  <2>6. DOMAIN tikv' = Region /\ \A q \in Region : KnownAs(tikv'[q], q)
    BY <2>1, <2>3, <2>5
  <2> QED
    BY <1>1, <2>1, <2>6 DEF RegionsOK, KnownAs
<1>5. RunningOK' /\ DispOK' /\ SetsOK'
  BY <1>1, <1>2, <1>3, RunningKept, DispKept, SetsKept
<1>6. OpsOK' /\ WaitingOK' /\ HandOK' /\ CountOK'
  BY <1>1, <1>3, NoneWaits
<1> QED
  BY <1>4, <1>5, <1>6 DEF ControlInv

LEMMA StepStutter ==
  ASSUME ControlInv, UNCHANGED vars
  PROVE  ControlInv'
<1>1. /\ tikv' = tikv /\ cache' = cache /\ op' = op /\ operators' = operators /\ wop' = wop
      /\ wopStatus' = wopStatus /\ queue' = queue /\ msgs' = msgs /\ disp' = disp
      /\ removing' = removing /\ hand' = hand
  BY DEF vars
<1>2. OpsOK /\ RunningOK /\ SetsOK /\ DispOK /\ RegionsOK
  BY DEF ControlInv
<1>3. OpsKept /\ Len(op') = Len(op)
  BY <1>1, <1>2, NoneMoved
<1>4. RunningOK' /\ DispOK' /\ SetsOK' /\ RegionsOK'
  BY <1>1, <1>2, <1>3, RunningKept, DispKept, SetsKept DEF RegionsOK
<1>5. OpsOK' /\ WaitingOK' /\ HandOK' /\ CountOK'
  BY <1>1, <1>3, NoneWaits
<1> QED
  BY <1>4, <1>5 DEF ControlInv

(***************************************************************************)
(* Only a running operator is overdue or slipped.                          *)
(***************************************************************************)
AgeOK == overdue \union slipped \subseteq {r \in Region : operators[r] # 0}

LEMMA AgeAdd ==
  ASSUME OpsOK, AgeOK, NEW os, ToSet(os) \subseteq 1 .. Len(op), addOperatorLocked(os)
  PROVE  AgeOK'
<1> DEFINE new(r)   == {o \in ToSet(os) : op[o].region = r}
           fresh(r) == CHOOSE o \in new(r) : TRUE
<1>1. /\ operators' = [r \in Region |-> IF new(r) = {} THEN operators[r] ELSE fresh(r)]
      /\ overdue' = {r \in overdue : new(r) = {}}
      /\ slipped' = {r \in slipped : new(r) = {}}
  BY DEF addOperatorLocked
<1> HIDE DEF new, fresh
<1> QED
  BY <1>1 DEF AgeOK

LEMMA AgeRemove ==
  ASSUME OpsOK, RunningOK, AgeOK, NEW o \in 1 .. Len(op), removeOperatorLocked(o)
  PROVE  AgeOK'
<1> DEFINE q == op[o].region
<1>1. /\ operators' = [operators EXCEPT ![q] = 0] /\ overdue' = overdue \ {q}
      /\ slipped' = slipped \ {q} /\ DOMAIN operators = Region
  BY DEF removeOperatorLocked, RunningOK
<1> HIDE DEF q
<1> QED
  BY <1>1 DEF AgeOK

LEMMA AgeStored ==
  ASSUME OpsOK, AgeOK, NEW g, disp[g].o \in 1 .. Len(op), stored(g),
         operators' = operators, overdue' = overdue
  PROVE  AgeOK'
<1> DEFINE o == disp[g].o
           q == op[o].region
<1>1. o # 0 /\ q \in Region
  BY DEF OpsOK, OpOK
<1>2. slipped' \in {slipped, slipped \union {q}} /\ (slipped' # slipped => operators[q] = o)
  BY DEF stored
<1> HIDE DEF o, q
<1> QED
  BY <1>1, <1>2 DEF AgeOK

LEMMA AgeStep ==
  ASSUME ControlInv, AgeOK, [Next]_vars
  PROVE  AgeOK'
<1>0. OpsOK /\ RunningOK /\ DispOK /\ SetsOK /\ DOMAIN op = 1 .. Len(op)
  BY SeqFacts DEF ControlInv, OpsOK
<1>1. ASSUME UNCHANGED <<operators, overdue, slipped>> PROVE AgeOK'
  BY <1>1 DEF AgeOK
<1>2. CASE Propose \/ AddWaitingOperator \/ pollNeedDispatchRegion \/ UNCHANGED vars
  BY <1>1, <1>2 DEF Propose, AddWaitingOperator, pollNeedDispatchRegion, vars, age
<1>3. CASE AddOperator
  <2>1. CASE addOperatorLocked(hand.os)
    BY <1>0, <1>3, <2>1, HandRange, AgeAdd DEF AddOperator
  <2>2. CASE UNCHANGED <<operators, age, op, queue, msgs>>
    BY <1>1, <2>2 DEF age
  <2> QED
    BY <1>3, <2>1, <2>2 DEF AddOperator
<1>4. CASE PromoteWaitingOperator
  <2>1. CASE PromoteStart
    <3>1. PICK l \in Level : /\ wop[l] # <<>> /\ addOperatorLocked(GetOperator(l))
                            /\ drop(l, GetOperator(l)) /\ leave(GetOperator(l))
      BY <2>1 DEF PromoteStart
    <3>2. ToSet(GetOperator(l)) \subseteq 1 .. Len(op)
      BY <3>1, PopHead DEF Popped
    <3> QED
      BY <1>0, <3>1, <3>2, AgeAdd
  <2>2. CASE PromoteCancel \/ PromoteNothing
    BY <1>1, <2>2 DEF PromoteCancel, PromoteNothing, age
  <2> QED
    BY <1>4, <2>1, <2>2 DEF PromoteWaitingOperator
<1>5. CASE pollCheck
  <2>1. disp[Pusher].o \in 1 .. Len(op)
    BY <1>0, <1>5 DEF pollCheck, Locked, DispOK, Goroutine, Idle
  <2> QED
    BY <1>0, <1>5, <2>1, AgeStored DEF pollCheck
<1>6. ASSUME NEW d \in Goroutine, HeartbeatPut(d) PROVE AgeOK'
  <2>1. /\ slipped' = slipped \union {q \in overlaps(disp[d].region) : operators[q] # 0}
        /\ operators' = operators /\ overdue' = overdue
    BY <1>6 DEF HeartbeatPut
  <2>2. overlaps(disp[d].region) \subseteq Region
    BY DEF overlaps
  <2> QED
    BY <2>1, <2>2 DEF AgeOK
<1>7. ASSUME NEW d \in Goroutine, Dispatch(d) PROVE AgeOK'
  BY <1>1, <1>7 DEF Dispatch, age
<1>8. ASSUME NEW d \in Goroutine, DispatchCheck(d) PROVE AgeOK'
  <2>1. disp[d].o \in 1 .. Len(op)
    BY <1>0, <1>8 DEF DispatchCheck, DispOK, Idle
  <2>2. stored(d) /\ operators' = operators /\ overdue' = overdue
    BY <1>8 DEF DispatchCheck
  <2> QED
    BY <1>0, <2>1, <2>2, AgeStored
<1>9. ASSUME NEW d \in Goroutine, DispatchRemove(d) PROVE AgeOK'
  <2>1. disp[d].o \in 1 .. Len(op)
    BY <1>0, <1>9 DEF DispatchRemove, DispOK, Idle
  <2> QED
    BY <1>0, <1>9, <2>1, AgeRemove DEF DispatchRemove
<1>10. CASE \E r \in Region :
              \/ RegionHeartbeat(r) \/ HandlerRemoveOperator(r) \/ checkOperators(r)
              \/ StreamDrop(r) \/ TiKVExecute(r) \/ CatchUp(r)
  BY <1>1, <1>10 DEF RegionHeartbeat, HandlerRemoveOperator, checkOperators, StreamDrop,
                     TiKVExecute, CatchUp, age
<1>11. ASSUME NEW o \in DOMAIN op, RemoveOperator(o) PROVE AgeOK'
  BY <1>0, <1>11, AgeRemove DEF RemoveOperator
<1>12. ASSUME NEW o \in DOMAIN op, Expire(o) PROVE AgeOK'
  <2> DEFINE q == op[o].region
  <2>1. /\ operators' = operators /\ slipped' = slipped /\ overdue' = overdue \union {q}
        /\ operators[q] = o
    BY <1>12 DEF Expire
  <2>2. q \in Region /\ o # 0
    BY <1>0 DEF OpsOK, OpOK
  <2> HIDE DEF q
  <2> QED
    BY <2>1, <2>2 DEF AgeOK
<1> QED
  BY <1>2, <1>3, <1>4, <1>5, <1>6, <1>7, <1>8, <1>9, <1>10, <1>11, <1>12 DEF Next

(***************************************************************************)
(* The theorems.                                                           *)
(***************************************************************************)
LEMMA ControlStep ==
  ASSUME ControlInv, [Next]_vars
  PROVE  ControlInv'
<1>1. CASE Propose \/ AddOperator \/ AddWaitingOperator \/ PromoteWaitingOperator
           \/ pollNeedDispatchRegion \/ pollCheck
  BY <1>1, StepPropose, StepAddOperator, StepAddWaiting, StepPromote, StepPoll,
     StepPollCheck
<1>2. CASE \E d \in Goroutine :
             HeartbeatPut(d) \/ Dispatch(d) \/ DispatchCheck(d) \/ DispatchRemove(d)
  BY <1>2, StepPut, StepDispatch, StepDispatchCheck, StepDispatchRemove
<1>3. CASE \E r \in Region :
             \/ RegionHeartbeat(r) \/ HandlerRemoveOperator(r) \/ checkOperators(r)
             \/ StreamDrop(r) \/ TiKVExecute(r) \/ CatchUp(r)
  BY <1>3, StepHeartbeat, StepFound, StepCommand, StepCatchUp
<1>4. CASE \E o \in DOMAIN op : RemoveOperator(o) \/ Expire(o)
  BY <1>4, StepRemove, StepExpire
<1>5. CASE UNCHANGED vars
  BY <1>5, StepStutter
<1> QED
  BY <1>1, <1>2, <1>3, <1>4, <1>5 DEF Next

LEMMA ControlInvariant ==
  Spec => []ControlInv
<1>1. Init => ControlInv
  BY InitControl
<1>2. ControlInv /\ [Next]_vars => ControlInv'
  BY ControlStep
<1> QED
  BY <1>1, <1>2, PTL DEF Spec

LEMMA AgeInvariant ==
  Spec => []AgeOK
<1>1. Init => AgeOK
  BY DEF Init, AgeOK
<1>2. ControlInv /\ AgeOK /\ [Next]_vars => AgeOK'
  BY AgeStep
<1> QED
  BY <1>1, <1>2, ControlInvariant, PTL DEF Spec

(* Operator numbers, positions, buckets and command queues stay within     *)
(* their ranges, and what runs on a region is an operator of that region   *)
(* that was started, whatever the goroutines of operator_controller.go do  *)
(* between each other's locked sections.                                   *)
THEOREM ControllerTypeOK == Spec => []TypeOK
<1>1. ASSUME ControlInv, AgeOK PROVE TypeOK
  <2>1. Len(op) \in Nat /\ Len(op) <= MaxOps /\ DOMAIN op = 1 .. Len(op)
    BY <1>1, SeqFacts DEF ControlInv, OpsOK
  <2>2. \A o \in DOMAIN op : op[o].currentStep \in 1 .. Len(op[o].steps) + 1
    BY <1>1, <2>1 DEF ControlInv, OpsOK, OpOK
  <2>3. operators \in [Region -> 0 .. MaxOps]
    <3>1. operators \in [Region -> Nat]
      BY <1>1 DEF ControlInv, RunningOK
    <3>2. ASSUME NEW r \in Region PROVE operators[r] \in 0 .. MaxOps
      <4>1. operators[r] # 0 => operators[r] \in 1 .. Len(op)
        BY <1>1 DEF ControlInv, RunningOK, Runs
      <4> QED
        BY <2>1, <4>1, ControllerAssumption
    <3> QED
      BY <3>1, <3>2
  <2>4. \A r \in Region :
          operators[r] # 0 => op[operators[r]].region = r /\ op[operators[r]].started
    BY <1>1 DEF ControlInv, RunningOK, Runs
  <2>5. queue \union removing \subseteq DOMAIN op /\ \A r \in Region : Len(msgs[r]) <= MaxMsgs
    BY <1>1, <2>1 DEF ControlInv, SetsOK
  <2>6. ASSUME NEW l \in Level PROVE ToSet(wop[l]) \subseteq DOMAIN op
    <3> DEFINE b == wop[l]
    <3>1. Bucket(op, b)
      BY <1>1 DEF ControlInv, WaitingOK
    <3> HIDE DEF b
    <3>2. DOMAIN b = 1 .. Len(b) /\ \A i \in 1 .. Len(b) : b[i] \in 1 .. Len(op)
      BY <3>1 DEF Bucket
    <3>3. ToSet(b) \subseteq 1 .. Len(op)
      BY <3>2 DEF ToSet
    <3> QED
      BY <2>1, <3>3 DEF b
  <2> QED
    BY <1>1, <2>2, <2>3, <2>4, <2>5, <2>6 DEF TypeOK, AgeOK
<1>2. ControlInv /\ AgeOK => TypeOK
  BY <1>1
<1> QED
  BY <1>2, ControlInvariant, AgeInvariant, PTL

(* The two operators of a merge stand side by side in their bucket, so that *)
(* RandBuckets.GetOperator, which takes them by position, never separates   *)
(* them nor joins halves of two merges.                                     *)
THEOREM MergeHalvesStayAdjacent == Spec => []MergeHalvesAdjacent
<1>1. ASSUME ControlInv PROVE MergeHalvesAdjacent
  <2> SUFFICES ASSUME NEW l \in Level, NEW i \in DOMAIN wop[l], IsMerge(op[wop[l][i]])
               PROVE  \E j \in DOMAIN wop[l] :
                        /\ j = IF Half(op[wop[l][i]]).passive THEN i - 1 ELSE i + 1
                        /\ Half(op[wop[l][j]]) = [Half(op[wop[l][i]]) EXCEPT !.passive = ~@]
    BY DEF MergeHalvesAdjacent, IsMerge, Half
  <2> DEFINE b == wop[l]
             x(j) == op[b[j]]
             p == i + 1
             m == i - 1
  <2>1. Bucket(op, b)
    BY <1>1 DEF ControlInv, WaitingOK
  <2>2. DOMAIN b = 1 .. Len(b)
    <3> HIDE DEF b
    <3> QED
      BY <2>1 DEF Bucket
  <2>3. IsMerge(x(i)) /\ i \in 1 .. Len(b)
    BY <2>2
  <2>4. \/ p \in 1 .. Len(b) /\ Paired(x(i), x(p))
        \/ m \in 1 .. Len(b) /\ Paired(x(m), x(i))
    <3> HIDE DEF b
    <3> QED
      BY <2>1, <2>3 DEF Bucket
  <2> SUFFICES \E j \in 1 .. Len(b) :
                 /\ j = IF Half(x(i)).passive THEN m ELSE p
                 /\ Half(x(j)) = [Half(x(i)) EXCEPT !.passive = ~@]
    BY <2>2
  <2> HIDE DEF b, x, p, m
  <2>5. CASE p \in 1 .. Len(b) /\ Paired(x(i), x(p))
    <3>1. Half(x(i)).passive = FALSE /\ Half(x(p)) = [Half(x(i)) EXCEPT !.passive = TRUE]
      BY <2>5, PassiveHalf DEF Paired
    <3>2. Half(x(p)) = [Half(x(i)) EXCEPT !.passive = ~@]
      BY <3>1
    <3> QED
      BY <2>5, <3>1, <3>2
  <2>6. CASE m \in 1 .. Len(b) /\ Paired(x(m), x(i))
    <3>1. Half(x(i)).passive = TRUE /\ Half(x(m)) = [Half(x(i)) EXCEPT !.passive = FALSE]
      BY <2>6, PassiveHalf DEF Paired
    <3>2. Half(x(m)) = [Half(x(i)) EXCEPT !.passive = ~@]
      BY <3>1
    <3> QED
      BY <2>6, <3>1, <3>2
  <2> QED
    BY <2>4, <2>5, <2>6
<1> QED
  BY <1>1, ControlInvariant, PTL

(* wopStatus counts the waiting operators of each description exactly, a    *)
(* merge as one: AddWaitingOperator and the promotions that start or cancel *)
(* balance, in any order and for every limit.                               *)
THEOREM WaitingStaysCounted == Spec => []WaitingCounted
<1>1. ASSUME ControlInv PROVE WaitingCounted
  <2>1. \A o, d : countedAs(o, d) <=> Counted(op[o], d)
    BY DEF countedAs, Counted, IsMerge, Half
  <2>2. ASSUME NEW d \in Descs
        PROVE  Waits(op, wop, d) =
                 {t \in Level \X (1 .. MaxOps) :
                    t[2] \in DOMAIN wop[t[1]] /\ countedAs(wop[t[1]][t[2]], d)}
    BY <2>1 DEF Waits
  <2>3. \A d \in Descs : wopStatus[d] = Cardinality(Waits(op, wop, d))
    BY <1>1 DEF ControlInv, CountOK
  <2> QED
    BY <2>2, <2>3 DEF WaitingCounted
<1> QED
  BY <1>1, ControlInvariant, PTL

(***************************************************************************)
(* What runs is pushed.                                                    *)
(*                                                                         *)
(* The notifier drops an item when it sees the operator of the region      *)
(* finished.  What it saw may be out of date: it loads currentStep, looks  *)
(* at the region it took from the cache and stores what it comes to, while *)
(* heartbeats do the same.  As long as none of them sets the position back *)
(* (slipped), the operator is finished then.                               *)
(***************************************************************************)
Pushed(r) ==
  operators[r] # 0 /\ r \notin slipped =>
    cache[r] # Gone /\ (operators[r] \in queue \/ OpIsFinish(op[operators[r]]))

(* The notifier, between the load and the store. *)
Polls ==
  LET x == disp[Pusher]
      r == op[x.item].region
  IN  x.pc = "poll" =>
        /\ x.item \in 1 .. Len(op) /\ x.o # 0 /\ operators[r] = x.o
        /\ r \in slipped \/ x.step <= op[x.o].currentStep

PushInv == Polls /\ \A r \in Region : Pushed(r)

(* The operators that run on after a step are not set back, or slip. *)
Forward ==
  \A o \in 1 .. Len(op) :
    /\ op'[o].steps = op[o].steps /\ op'[o].region = op[o].region
    /\ \/ op[o].currentStep <= op'[o].currentStep
       \/ operators[op[o].region] # o
       \/ op[o].region \in slipped'

LEMMA FinishKept ==
  ASSUME OpsOK, OpsOK', Forward, NEW o \in 1 .. Len(op), operators[op[o].region] = o,
         op[o].region \notin slipped', OpIsFinish(op[o]), Len(op) <= Len(op')
  PROVE  OpIsFinish(op'[o])
<1> DEFINE x == op[o]
           y == op'[o]
           n == Len(x.steps)
<1>1. OpOK(x) /\ OpOK(y)
  BY SeqFacts DEF OpsOK
<1>2. y.steps = x.steps /\ x.currentStep <= y.currentStep
  BY DEF Forward
<1>3. n \in Nat /\ x.currentStep \in Nat /\ y.currentStep \in Nat /\ x.currentStep > n
  BY <1>1, <1>2 DEF OpOK, OpIsFinish
<1> HIDE DEF x, y, n
<1>4. y.currentStep > n
  BY <1>2, <1>3
<1> QED
  BY <1>2, <1>4 DEF OpIsFinish, n, y

(* A region whose operator runs on, and whose item stays. *)
LEMMA PushedKept ==
  ASSUME OpsOK, OpsOK', RunningOK, Forward, NEW r \in Region, Pushed(r), Len(op) <= Len(op'),
         operators'[r] \in {0, operators[r]},
         r \in slipped => r \in slipped' \/ operators'[r] = 0,
         cache'[r] # Gone \/ cache'[r] = cache[r] \/ r \in slipped' \/ operators[r] = 0,
         operators[r] \in queue => operators[r] \in queue'
  PROVE  Pushed(r)'
<1> DEFINE o == operators[r]
<1> SUFFICES ASSUME operators'[r] # 0, r \notin slipped'
             PROVE  cache'[r] # Gone /\ (operators'[r] \in queue' \/ OpIsFinish(op'[operators'[r]]))
  BY DEF Pushed, OpIsFinish
<1>1. operators'[r] = o /\ o # 0 /\ r \notin slipped
  OBVIOUS
<1>2. o \in 1 .. Len(op) /\ op[o].region = r
  BY <1>1 DEF RunningOK, Runs
<1>3. cache[r] # Gone /\ (o \in queue \/ OpIsFinish(op[o]))
  BY <1>1 DEF Pushed
<1>4. OpIsFinish(op[o]) => OpIsFinish(op'[o])
  <2>1. operators[op[o].region] = o /\ op[o].region \notin slipped'
    BY <1>2
  <2> HIDE DEF o
  <2> QED
    BY <1>2, <2>1, FinishKept
<1> QED
  BY <1>1, <1>3, <1>4

LEMMA StillForward ==
  ASSUME op' = op, OpsOK
  PROVE  Forward /\ Len(op) <= Len(op')
<1>1. \A o \in 1 .. Len(op) : op[o].currentStep \in Nat
  BY DEF OpsOK, OpOK
<1>2. Len(op) \in Nat
  BY SeqFacts DEF OpsOK
<1> QED
  BY <1>1, <1>2 DEF Forward

(* The notifier holds the lock, or does not poll. *)
LEMMA PollsKept ==
  ASSUME OpsOK, OpsOK', RunningOK, Polls, Forward, DispOK, Len(op) <= Len(op'),
         disp'[Pusher] = disp[Pusher] \/ disp'[Pusher].pc # "poll",
         disp[Pusher].pc = "poll" => operators' = operators /\ slipped \subseteq slipped'
  PROVE  Polls'
<1> DEFINE x == disp[Pusher]
           r == op[x.item].region
<1> SUFFICES ASSUME x.pc = "poll", disp'[Pusher] = x
             PROVE  LET q == op'[x.item].region
                    IN  /\ x.item \in 1 .. Len(op') /\ x.o # 0 /\ operators'[q] = x.o
                        /\ q \in slipped' \/ x.step <= op'[x.o].currentStep
  BY DEF Polls
<1>1. /\ x.item \in 1 .. Len(op) /\ x.o # 0 /\ operators[r] = x.o
      /\ r \in slipped \/ x.step <= op[x.o].currentStep
      /\ operators' = operators /\ slipped \subseteq slipped'
  BY DEF Polls
<1>2. x.o \in 1 .. Len(op) /\ x.step \in 1 .. Len(op[x.o].steps) + 1
  BY DEF DispOK, Goroutine, Idle
<1>3. Len(op) \in Nat /\ Len(op') \in Nat
  BY SeqFacts DEF OpsOK
<1>4. op'[x.item].region = r /\ x.item \in 1 .. Len(op')
  BY <1>1, <1>3 DEF Forward
<1>5. OpOK(op[x.o]) /\ OpOK(op'[x.o]) /\ OpOK(op[x.item])
  BY <1>1, <1>2, <1>3 DEF OpsOK
<1>6. op[x.o].region = r
  BY <1>1, <1>5 DEF RunningOK, Runs, OpOK
<1>7. op[x.o].currentStep <= op'[x.o].currentStep \/ r \in slipped'
  BY <1>1, <1>2, <1>6 DEF Forward
<1> DEFINE a == x.step
           b == op[x.o].currentStep
           c == op'[x.o].currentStep
<1>8. a \in Nat /\ b \in Nat /\ c \in Nat
  BY <1>2, <1>5 DEF OpOK
<1>9. r \in slipped' \/ a <= c
  <2>1. (r \in slipped' \/ a <= b) /\ (b <= c \/ r \in slipped')
    BY <1>1, <1>7
  <2> HIDE DEF a, b, c, r
  <2> QED
    BY <1>8, <2>1
<1> QED
  BY <1>1, <1>4, <1>9

(* A step that leaves what runs, the items and the cache alone. *)
LEMMA QuietPush ==
  ASSUME ControlInv, ControlInv', PushInv, Forward, Len(op) <= Len(op'),
         operators' = operators, slipped' = slipped, cache' = cache, queue' = queue,
         disp'[Pusher] = disp[Pusher] \/ disp'[Pusher].pc # "poll"
  PROVE  PushInv'
<1>1. OpsOK /\ OpsOK' /\ RunningOK /\ DispOK /\ Polls /\ \A r \in Region : Pushed(r)
  BY DEF ControlInv, PushInv
<1>2. \A r \in Region : Pushed(r)'
  BY <1>1, PushedKept
<1>3. Polls'
  BY <1>1, PollsKept
<1> QED
  BY <1>2, <1>3 DEF PushInv

LEMMA PushPropose ==
  ASSUME ControlInv, ControlInv', PushInv, Propose
  PROVE  PushInv'
<1>1. /\ cache' = cache /\ operators' = operators /\ queue' = queue
      /\ disp' = disp /\ slipped' = slipped
  BY DEF Propose, age
<1>2. PICK p \in Proposals(cache, op) :
        /\ wellFormed(p.ops)
        /\ op' = op \o [i \in DOMAIN p.ops |-> created(p.ops[i])]
  BY DEF Propose
<1> DEFINE t == [i \in DOMAIN p.ops |-> created(p.ops[i])]
<1>3. IsSeq(t)
  <2>1. \E n \in Nat : DOMAIN p.ops = 1 .. n
    BY <1>2 DEF wellFormed
  <2>2. PICK n \in Nat : DOMAIN p.ops = 1 .. n
    BY <2>1
  <2>3. DOMAIN t = 1 .. n /\ t = [i \in 1 .. n |-> t[i]]
    BY <2>2
  <2> HIDE DEF t
  <2> QED
    BY <2>3, FunctionSeq
<1> HIDE DEF t
<1>4. /\ \A o \in 1 .. Len(op) : op'[o] = op[o]
      /\ Len(op') = Len(op) + Len(t) /\ Len(op) \in Nat /\ Len(t) \in Nat
  BY <1>2, <1>3, SeqConcat DEF ControlInv, OpsOK, t
<1>5. \A o \in 1 .. Len(op) : op[o].currentStep \in Nat
  BY DEF ControlInv, OpsOK, OpOK
<1>6. Forward /\ Len(op) <= Len(op')
  BY <1>4, <1>5 DEF Forward
<1> QED
  BY <1>1, <1>6, QuietPush

(* addOperatorLocked starts and queues what checkAddOperator has found to  *)
(* be operators of regions in the cache.                                   *)
LEMMA AddPushes ==
  ASSUME ControlInv, ControlInv', PushInv, NEW os, ToSet(os) \subseteq 1 .. Len(op),
         TRUE \in addable(os), addOperatorLocked(os), ~Locked, cache' = cache, disp' = disp
  PROVE  PushInv'
<1> DEFINE new(r)   == {o \in ToSet(os) : op[o].region = r}
           fresh(r) == CHOOSE o \in new(r) : TRUE
           pos(o)   == Check(op[o], cache[op[o].region])
<1>0. OpsOK /\ OpsOK' /\ RunningOK /\ \A r \in Region : Pushed(r)
  BY DEF ControlInv, PushInv
<1>1. /\ operators' = [r \in Region |-> IF new(r) = {} THEN operators[r] ELSE fresh(r)]
      /\ op' = [o \in DOMAIN op |-> IF o \in ToSet(os) THEN start(o, pos(o)) ELSE op[o]]
      /\ slipped' = {r \in slipped : new(r) = {}}
      /\ queue' = queue \union ToSet(os)
  BY DEF addOperatorLocked, notify
<1>2. \A o \in ToSet(os) : cache[op[o].region] # Gone
  <2>1. checkAddOperator(os)
    BY DEF addable
  <2> QED
    BY <2>1 DEF checkAddOperator, ToSet
<1>3. DOMAIN op = 1 .. Len(op)
  BY <1>0, SeqFacts DEF OpsOK
<1>4. \A r : new(r) # {} => fresh(r) \in ToSet(os) /\ op[fresh(r)].region = r
  OBVIOUS
<1>5. \A r, o : o \in ToSet(os) /\ op[o].region = r => new(r) # {}
  OBVIOUS
<1> HIDE DEF new, fresh, pos
<1>6. ASSUME NEW r \in Region PROVE Pushed(r)'
  <2>1. CASE new(r) # {}
    <3>1. operators'[r] = fresh(r) /\ fresh(r) \in queue'
      BY <1>1, <1>4, <2>1
    <3>2. cache'[r] # Gone
      BY <1>2, <1>4, <2>1
    <3> QED
      BY <3>1, <3>2 DEF Pushed
  <2>2. CASE new(r) = {}
    <3> DEFINE o == operators[r]
    <3>1. operators'[r] = o /\ (r \in slipped' <=> r \in slipped) /\ queue \subseteq queue'
      BY <1>1, <2>2
    <3>2. o # 0 => op'[o] = op[o]
      <4> SUFFICES ASSUME o # 0 PROVE op'[o] = op[o]
        OBVIOUS
      <4>1. o \in 1 .. Len(op) /\ op[o].region = r
        BY <1>0 DEF RunningOK, Runs
      <4>2. o \notin ToSet(os)
        BY <1>5, <2>2, <4>1
      <4> QED
        BY <1>1, <1>3, <4>1, <4>2
    <3>3. Pushed(r)
      BY <1>0
    <3> QED
      BY <3>1, <3>2, <3>3 DEF Pushed, OpIsFinish
  <2> QED
    BY <2>1, <2>2
<1> QED
  BY <1>6 DEF PushInv, Polls, Locked

LEMMA PushAdd ==
  ASSUME ControlInv, ControlInv', PushInv, AddOperator \/ PromoteWaitingOperator
  PROVE  PushInv'
<1>1. /\ cache' = cache /\ disp' = disp /\ ~Locked
  BY DEF AddOperator, PromoteWaitingOperator
<1>2. CASE op' = op /\ operators' = operators /\ slipped' = slipped /\ queue' = queue
  BY <1>1, <1>2, StillForward, QuietPush DEF ControlInv
<1>3. CASE AddOperator
  <2>1. CASE TRUE \in addable(hand.os) /\ addOperatorLocked(hand.os)
    <3>1. ToSet(hand.os) \subseteq 1 .. Len(op)
      BY <1>3, HandRange DEF AddOperator
    <3> QED
      BY <1>1, <2>1, <3>1, AddPushes
  <2>2. CASE UNCHANGED <<operators, age, op, queue, msgs>>
    BY <1>2, <2>2 DEF age
  <2> QED
    BY <1>3, <2>1, <2>2 DEF AddOperator
<1>4. CASE PromoteWaitingOperator
  <2>1. CASE PromoteStart
    <3>1. PICK l \in Level : /\ wop[l] # <<>> /\ addOperatorLocked(GetOperator(l))
                            /\ TRUE \in addable(GetOperator(l))
                            /\ drop(l, GetOperator(l)) /\ leave(GetOperator(l))
      BY <2>1 DEF PromoteStart
    <3>2. ToSet(GetOperator(l)) \subseteq 1 .. Len(op)
      BY <3>1, PopHead DEF Popped
    <3> QED
      BY <1>1, <3>1, <3>2, AddPushes
  <2>2. CASE PromoteCancel \/ PromoteNothing
    BY <1>2, <2>2 DEF PromoteCancel, PromoteNothing, age
  <2> QED
    BY <1>4, <2>1, <2>2 DEF PromoteWaitingOperator
<1> QED
  BY <1>3, <1>4

(* The notifier takes an item: it goes when nothing runs on the region, or *)
(* when the region is gone, and then what runs there has slipped.          *)
LEMMA PushPoll ==
  ASSUME ControlInv, ControlInv', PushInv, pollNeedDispatchRegion
  PROVE  PushInv'
<1>1. op' = op /\ cache' = cache /\ operators' = operators /\ slipped' = slipped
  BY DEF pollNeedDispatchRegion, age
<1>2. /\ OpsOK /\ OpsOK' /\ RunningOK /\ SetsOK /\ DispOK /\ Polls
      /\ \A q \in Region : Pushed(q)
  BY DEF ControlInv, PushInv
<1>3. PICK item \in queue :
        LET r == op[item].region
            o == operators[r]
        IN  IF o = 0 \/ cache[r] = Gone
            THEN queue' = queue \ {item} /\ UNCHANGED disp
            ELSE /\ disp' = [disp EXCEPT ![Pusher] =
                               [pc |-> "poll", item |-> item, region |-> cache[r], o |-> o,
                                step |-> op[o].currentStep]]
                 /\ UNCHANGED queue
  BY DEF pollNeedDispatchRegion
<1> DEFINE r == op[item].region
           o == operators[r]
           x == [pc |-> "poll", item |-> item, region |-> cache[r], o |-> o,
                 step |-> op[o].currentStep]
<1>4. item \in 1 .. Len(op) /\ r \in Region
  BY <1>2 DEF SetsOK, OpsOK, OpOK
<1>5. Forward /\ Len(op) <= Len(op')
  BY <1>1, <1>2, StillForward
<1>6. CASE (o = 0 \/ cache[r] = Gone) /\ queue' = queue \ {item} /\ disp' = disp
  <2>1. ASSUME NEW q \in Region PROVE Pushed(q)'
    <3>1. CASE operators[q] = item
      <4>1. q = r
        BY <1>2, <1>4, <3>1 DEF RunningOK, Runs
      <4>2. cache[r] = Gone
        BY <1>4, <1>6, <3>1, <4>1
      <4>3. q \in slipped
        BY <1>2, <1>4, <3>1, <4>1, <4>2 DEF Pushed
      <4> QED
        BY <1>1, <4>3 DEF Pushed
    <3>2. CASE operators[q] # item
      BY <1>1, <1>2, <1>5, <1>6, <3>2, PushedKept
    <3> QED
      BY <3>1, <3>2
  <2>2. Polls'
    BY <1>1, <1>2, <1>5, <1>6, PollsKept
  <2> QED
    BY <2>1, <2>2 DEF PushInv
<1>7. CASE o # 0 /\ queue' = queue /\ disp' = [disp EXCEPT ![Pusher] = x]
  <2>1. \A q \in Region : Pushed(q)'
    BY <1>1, <1>2, <1>5, <1>7, PushedKept
  <2>2. disp'[Pusher] = x
    BY <1>2, <1>7 DEF DispOK, Goroutine
  <2>3. o \in 1 .. Len(op)
    BY <1>2, <1>4, <1>7 DEF RunningOK, Runs
  <2>4. op[o].currentStep \in Nat
    BY <1>2, <2>3 DEF OpsOK, OpOK
  <2>5. x.item = item /\ x.o = o /\ x.step = op[o].currentStep
    OBVIOUS
  <2>6. Polls'
    <3> HIDE DEF x
    <3> QED
      BY <1>1, <1>4, <1>7, <2>2, <2>4, <2>5 DEF Polls
  <2> QED
    BY <2>1, <2>6 DEF PushInv
<1> QED
  BY <1>3, <1>6, <1>7

(* Operator.Check stores a later position, or the operator slips. *)
LEMMA StoredForward ==
  ASSUME OpsOK, NEW g, disp[g].o \in 1 .. Len(op), stored(g),
         disp[g].step \in 1 .. Len(op[disp[g].o].steps) + 1
  PROVE  /\ Forward /\ Len(op) <= Len(op') /\ slipped \subseteq slipped'
         /\ \/ op' = op /\ checked(g) = disp[g].step
            \/ op'[disp[g].o].currentStep = checked(g)
<1> DEFINE o   == disp[g].o
           q   == op[o].region
           pos == checked(g)
           z   == op[o]
           y   == [z EXCEPT !.currentStep = pos]
<1>1. Len(op) \in Nat /\ DOMAIN op = 1 .. Len(op) /\ OpOK(z)
  BY SeqFacts DEF OpsOK
<1>2. pos \in 1 .. Len(op[o].steps) + 1 /\ Len(op') = Len(op)
  BY StoredKept
<1>3. CASE pos = disp[g].step
  <2>1. op' = op /\ slipped' = slipped
    BY <1>3 DEF stored
  <2> QED
    BY <1>3, <2>1, StillForward
<1>4. CASE pos # disp[g].step
  <2>1. /\ op' = [op EXCEPT ![o] = y]
        /\ slipped' = IF operators[q] = o /\ pos < z.currentStep
                      THEN slipped \union {q} ELSE slipped
    BY <1>4 DEF stored
  <2>2. \A i \in 1 .. Len(op) : op'[i] = IF i = o THEN y ELSE op[i]
    BY <1>1, <2>1
  <2>3. y.steps = z.steps /\ y.region = z.region /\ y.currentStep = pos
    <3>1. \A f \in OpFields : f \in DOMAIN z
      BY <1>1 DEF OpOK
    <3> HIDE DEF z, pos
    <3> QED
      BY <3>1 DEF OpFields
  <2>4. pos \in Nat /\ z.currentStep \in Nat
    BY <1>1, <1>2 DEF OpOK
  <2>5. z.currentStep <= pos \/ operators[q] # o \/ q \in slipped'
    <3> HIDE DEF z, pos, o, q
    <3> QED
      BY <2>1, <2>4
  <2>6. ASSUME NEW i \in 1 .. Len(op)
        PROVE  /\ op'[i].steps = op[i].steps /\ op'[i].region = op[i].region
               /\ \/ op[i].currentStep <= op'[i].currentStep
                  \/ operators[op[i].region] # i
                  \/ op[i].region \in slipped'
    <3>1. CASE i = o
      <4>1. op'[i] = y /\ op[i] = z /\ op[i].region = q
        BY <2>2, <3>1
      <4> HIDE DEF y, z, q
      <4> QED
        BY <2>3, <2>5, <3>1, <4>1
    <3>2. CASE i # o
      <4>1. op'[i] = op[i] /\ op[i].currentStep \in Nat
        BY <2>2, <3>2 DEF OpsOK, OpOK
      <4> QED
        BY <4>1
    <3> QED
      BY <3>1, <3>2
  <2>7. op'[o].currentStep = pos
    BY <2>2, <2>3
  <2>8. slipped \subseteq slipped'
    BY <2>1
  <2> QED
    BY <1>1, <1>2, <2>6, <2>7, <2>8 DEF Forward
<1> QED
  BY <1>3, <1>4

(* The notifier drops the item of an operator it has just stored the last  *)
(* position of, or found there, or which has slipped.                      *)
LEMMA PushPollCheck ==
  ASSUME ControlInv, ControlInv', PushInv, pollCheck
  PROVE  PushInv'
<1> DEFINE x == disp[Pusher]
           o == x.o
           n == Len(op[o].steps)
           r == op[x.item].region
<1>1. /\ cache' = cache /\ operators' = operators /\ x.pc = "poll" /\ stored(Pusher)
      /\ \/ queue' = queue
         \/ checked(Pusher) > n /\ queue' = queue \ {x.item}
      /\ \/ disp' = [disp EXCEPT ![Pusher] = Idle]
         \/ disp' = [disp EXCEPT ![Pusher] = [pc |-> "begin", region |-> x.region]]
  BY DEF pollCheck, Locked
<1>2. /\ OpsOK /\ OpsOK' /\ RunningOK /\ SetsOK /\ DispOK /\ Polls
      /\ \A q \in Region : Pushed(q)
  BY DEF ControlInv, PushInv
<1>3. o \in 1 .. Len(op) /\ x.step \in 1 .. n + 1
  BY <1>1, <1>2 DEF DispOK, Goroutine, Idle
<1>4. /\ Forward /\ Len(op) <= Len(op') /\ slipped \subseteq slipped'
      /\ \/ op' = op /\ checked(Pusher) = x.step
         \/ op'[o].currentStep = checked(Pusher)
      /\ checked(Pusher) \in 1 .. n + 1
  BY <1>1, <1>2, <1>3, StoredForward, StoredKept
<1>5. /\ x.item \in 1 .. Len(op) /\ operators[r] = o
      /\ r \in slipped \/ x.step <= op[o].currentStep
  BY <1>1, <1>2 DEF Polls
<1>6. Polls'
  BY <1>1, <1>2 DEF Polls, DispOK, Goroutine, Idle
<1>7. ASSUME NEW q \in Region PROVE Pushed(q)'
  <2>1. CASE queue' = queue \/ operators[q] # x.item
    <3>1. operators[q] \in queue => operators[q] \in queue'
      BY <1>1, <2>1
    <3> QED
      BY <1>1, <1>2, <1>4, <3>1, PushedKept
  <2>2. CASE operators[q] = x.item /\ checked(Pusher) > n
    <3>1. q = r /\ operators[q] = o
      BY <1>2, <1>5, <2>2 DEF RunningOK, Runs
    <3>2. q \in slipped' \/ OpIsFinish(op'[o])
      <4> DEFINE c == checked(Pusher)
                 a == op[o].currentStep
                 b == op'[o].currentStep
      <4>0. n \in Nat /\ a \in Nat /\ x.step \in Nat
        BY <1>2, <1>3 DEF OpsOK, OpOK
      <4>1. /\ (r \in slipped \/ x.step <= a) /\ c > n /\ c \in Nat
            /\ (b = a /\ c = x.step) \/ b = c
        BY <1>4, <1>5, <2>2, <4>0
      <4>2. op'[o].steps = op[o].steps
        BY <1>3, <1>4 DEF Forward
      <4> HIDE DEF a, b, c, n
      <4>3. r \in slipped \/ b > n
        BY <4>0, <4>1
      <4> QED
        BY <1>4, <3>1, <4>2, <4>3 DEF OpIsFinish, b, n
    <3>3. q \notin slipped' => cache'[q] # Gone
      BY <1>1, <1>2, <1>3, <1>4, <3>1 DEF Pushed
    <3> QED
      BY <1>1, <3>1, <3>2, <3>3 DEF Pushed, OpIsFinish
  <2> QED
    BY <1>1, <2>1, <2>2
<1> QED
  BY <1>6, <1>7 DEF PushInv

LEMMA PushDispatchCheck ==
  ASSUME ControlInv, ControlInv', PushInv, NEW d \in Goroutine, DispatchCheck(d)
  PROVE  PushInv'
<1>1. /\ cache' = cache /\ operators' = operators /\ queue' = queue
      /\ disp[d].pc = "check" /\ stored(d)
      /\ \E x : disp' = [disp EXCEPT ![d] = x] /\ (x = Idle \/ x = [pc |-> "remove", o |-> disp[d].o])
  BY DEF DispatchCheck
<1>2. /\ OpsOK /\ OpsOK' /\ RunningOK /\ DispOK /\ Polls
      /\ \A q \in Region : Pushed(q)
  BY DEF ControlInv, PushInv
<1>3. disp[d].o \in 1 .. Len(op) /\ disp[d].step \in 1 .. Len(op[disp[d].o].steps) + 1
  BY <1>1, <1>2 DEF DispOK, Idle
<1>4. Forward /\ Len(op) <= Len(op') /\ slipped \subseteq slipped'
  BY <1>1, <1>2, <1>3, StoredForward
<1>5. disp'[Pusher] = disp[Pusher] \/ disp'[Pusher].pc # "poll"
  BY <1>1, <1>2 DEF DispOK, Idle, Goroutine
<1>6. Polls'
  BY <1>1, <1>2, <1>4, <1>5, PollsKept
<1>7. \A q \in Region : Pushed(q)'
  BY <1>1, <1>2, <1>4, PushedKept
<1> QED
  BY <1>6, <1>7 DEF PushInv

LEMMA PushRemove ==
  ASSUME ControlInv, ControlInv', PushInv, NEW o \in 1 .. Len(op), removeOperatorLocked(o),
         ~Locked, op' = op, cache' = cache, queue' = queue,
         disp'[Pusher] = disp[Pusher] \/ disp'[Pusher].pc # "poll"
  PROVE  PushInv'
<1> DEFINE q == op[o].region
<1>1. /\ operators' = [operators EXCEPT ![q] = 0] /\ slipped' = slipped \ {q}
      /\ DOMAIN operators = Region
  BY DEF removeOperatorLocked, ControlInv, RunningOK
<1>2. OpsOK /\ OpsOK' /\ RunningOK /\ DispOK /\ Polls /\ \A r \in Region : Pushed(r)
  BY DEF ControlInv, PushInv
<1> HIDE DEF q
<1>3. Forward /\ Len(op) <= Len(op')
  BY <1>2, StillForward
<1>4. \A r \in Region : /\ operators'[r] \in {0, operators[r]}
                        /\ r \in slipped => r \in slipped' \/ operators'[r] = 0
  BY <1>1
<1>5. \A r \in Region : Pushed(r)'
  BY <1>2, <1>3, <1>4, PushedKept
<1>6. Polls'
  BY <1>2, <1>3, PollsKept DEF Locked
<1> QED
  BY <1>5, <1>6 DEF PushInv

(* A heartbeat that puts its region: the operators of the regions it takes *)
(* over slip.                                                              *)
LEMMA PushPut ==
  ASSUME ControlInv, ControlInv', PushInv, NEW g \in Goroutine, HeartbeatPut(g)
  PROVE  PushInv'
<1> DEFINE t == disp[g].region
           out == overlaps(t)
<1>1. /\ op' = op /\ operators' = operators /\ queue' = queue /\ disp[g].pc = "put"
      /\ cache' = [q \in Region |-> IF q = t.id THEN t ELSE IF q \in out THEN Gone ELSE cache[q]]
      /\ slipped' = slipped \union {q \in out : operators[q] # 0}
      /\ disp' = [disp EXCEPT ![g].pc = "begin"]
  BY DEF HeartbeatPut
<1>2. /\ OpsOK /\ OpsOK' /\ RunningOK /\ DispOK /\ Polls /\ Seen(t)
      /\ \A q \in Region : Pushed(q)
  BY <1>1 DEF ControlInv, PushInv, DispOK, Idle
<1>3. Forward /\ Len(op) <= Len(op')
  BY <1>1, <1>2, StillForward
<1> HIDE DEF out
<1>4. \A q \in Region : cache'[q] # Gone \/ cache'[q] = cache[q] \/ q \in slipped' \/ operators[q] = 0
  BY <1>1, <1>2 DEF Seen
<1>5. \A q \in Region : Pushed(q)'
  BY <1>1, <1>2, <1>3, <1>4, PushedKept
<1>6. disp'[Pusher] = disp[Pusher] \/ disp'[Pusher].pc # "poll"
  <2>1. CASE g = Pusher
    <3> DEFINE y == disp[g]
               z == [y EXCEPT !.pc = "begin"]
    <3>1. disp'[Pusher] = z
      BY <1>1, <1>2, <2>1 DEF DispOK
    <3>2. y.pc = "put"
      BY <1>1
    <3> HIDE DEF y
    <3>3. z.pc = "begin" \/ z.pc = y.pc
      OBVIOUS
    <3> QED
      BY <3>1, <3>2, <3>3
  <2>2. CASE g # Pusher
    BY <1>1, <1>2, <2>2 DEF DispOK, Goroutine
  <2> QED
    BY <2>1, <2>2
<1>7. Polls'
  BY <1>1, <1>2, <1>3, <1>6, PollsKept
<1> QED
  BY <1>5, <1>7 DEF PushInv

LEMMA StepPush ==
  ASSUME ControlInv, PushInv, [Next]_vars
  PROVE  PushInv'
<1>0. ControlInv' /\ OpsOK /\ DispOK /\ SetsOK /\ DOMAIN disp = Goroutine /\ Pusher \in Goroutine
  BY ControlStep DEF ControlInv, DispOK, Goroutine
<1>1. ASSUME UNCHANGED <<op, operators, slipped, cache, queue>>,
             disp'[Pusher] = disp[Pusher] \/ disp'[Pusher].pc # "poll"
      PROVE  PushInv'
  BY <1>0, <1>1, StillForward, QuietPush
<1>2. CASE Propose \/ AddOperator \/ PromoteWaitingOperator \/ pollNeedDispatchRegion \/ pollCheck
  BY <1>0, <1>2, PushPropose, PushAdd, PushPoll, PushPollCheck
<1>3. CASE AddWaitingOperator \/ UNCHANGED vars
  BY <1>1, <1>3 DEF AddWaitingOperator, vars, age
<1>4. ASSUME NEW d \in Goroutine, Dispatch(d) PROVE PushInv'
  <2> DEFINE t == disp[d].region
             o == operators[t.id]
             x == IF o = 0 THEN Idle
                  ELSE [pc |-> "check", region |-> t, o |-> o, timeout |-> IsTimeout(o),
                        step |-> op[o].currentStep]
  <2>1. disp' = [disp EXCEPT ![d] = x] /\ UNCHANGED <<op, operators, slipped, cache, queue>>
    BY <1>4 DEF Dispatch, age
  <2>2. x.pc # "poll"
    BY DEF Idle
  <2> HIDE DEF x
  <2>3. disp'[Pusher] = disp[Pusher] \/ disp'[Pusher] = x
    BY <1>0, <2>1
  <2> QED
    BY <1>1, <2>1, <2>2, <2>3
<1>5. ASSUME NEW d \in Goroutine, HeartbeatPut(d) \/ DispatchCheck(d) PROVE PushInv'
  BY <1>0, <1>5, PushPut, PushDispatchCheck
<1>6. ASSUME NEW d \in Goroutine, DispatchRemove(d) PROVE PushInv'
  <2>1. /\ disp[d].pc = "remove" /\ ~Locked /\ removeOperatorLocked(disp[d].o)
        /\ disp' = [disp EXCEPT ![d] = Idle] /\ op' = op /\ cache' = cache /\ queue' = queue
    BY <1>6 DEF DispatchRemove
  <2>2. disp[d].o \in 1 .. Len(op)
    BY <1>0, <2>1 DEF DispOK, Idle
  <2>3. disp'[Pusher] = disp[Pusher] \/ disp'[Pusher].pc # "poll"
    BY <1>0, <2>1 DEF Idle
  <2> QED
    BY <1>0, <2>1, <2>2, <2>3, PushRemove
<1>7. ASSUME NEW r \in Region, RegionHeartbeat(r) PROVE PushInv'
  <2> DEFINE t == tikv[r]
             g == Stream(t.leader)
             x == [pc |-> IF saveCache(t) THEN "put" ELSE "begin", region |-> t]
  <2>1. disp' = [disp EXCEPT ![g] = x] /\ UNCHANGED <<op, operators, slipped, cache, queue>>
    BY <1>7 DEF RegionHeartbeat, age
  <2>2. x.pc # "poll"
    OBVIOUS
  <2> HIDE DEF x
  <2>3. disp'[Pusher] = disp[Pusher] \/ disp'[Pusher] = x
    BY <1>0, <2>1
  <2> QED
    BY <1>1, <2>1, <2>2, <2>3
<1>8. CASE \E r \in Region : \/ HandlerRemoveOperator(r) \/ checkOperators(r)
                             \/ StreamDrop(r) \/ TiKVExecute(r) \/ CatchUp(r)
  BY <1>1, <1>8 DEF HandlerRemoveOperator, checkOperators, StreamDrop, TiKVExecute, CatchUp, age
<1>9. ASSUME NEW o \in DOMAIN op, RemoveOperator(o) PROVE PushInv'
  <2>1. o \in 1 .. Len(op)
    BY <1>0, <1>9 DEF RemoveOperator, SetsOK
  <2> QED
    BY <1>0, <1>9, <2>1, PushRemove DEF RemoveOperator
<1>10. ASSUME NEW o \in DOMAIN op, Expire(o) PROVE PushInv'
  BY <1>1, <1>10 DEF Expire
<1> QED
  BY <1>2, <1>3, <1>4, <1>5, <1>6, <1>7, <1>8, <1>9, <1>10 DEF Next

LEMMA PushInvariant ==
  Spec => []PushInv
<1>1. Init => PushInv
  <2>1. Init => disp[Pusher] = Idle /\ Idle.pc = "idle" /\ \A r \in Region : operators[r] = 0
    BY DEF Init, Idle, Goroutine
  <2> QED
    BY <2>1 DEF PushInv, Polls, Pushed
<1>2. ControlInv /\ PushInv /\ [Next]_vars => PushInv'
  BY StepPush
<1> QED
  BY <1>1, <1>2, ControlInvariant, PTL DEF Spec

(* An operator that runs unfinished has its own item in the notifier       *)
(* queue, so that PushOperators sends the next command even when every     *)
(* heartbeat is lost, for any number of stream goroutines that run         *)
(* Operator.Check on regions of any age between the steps of               *)
(* pollNeedDispatchRegion; unless one of them sets its position back, or   *)
(* its region leaves the cache.                                            *)
THEOREM RunningStaysPushed == Spec => []RunningIsPushed
<1>1. PushInv => RunningIsPushed
  BY DEF PushInv, Pushed, RunningIsPushed
<1> QED
  BY <1>1, PushInvariant, PTL
=============================================================================
