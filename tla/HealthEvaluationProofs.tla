----------------------- MODULE HealthEvaluationProofs -----------------------
(***************************************************************************)
(* Proofs about HealthEvaluation for any policies, conditions, thresholds  *)
(* and runs: each ended run has one receipt, what is shown healthy was     *)
(* seen healthy, a green band has no hole, and alarms are debounced.       *)
(***************************************************************************)
EXTENDS HealthEvaluation, Integers, FiniteSetTheorems, SequenceTheorems,
        WellFoundedInduction, TLAPS

-----------------------------------------------------------------------------
(* Numbers and sequences                                                     *)

LEMMA Least ==
  ASSUME NEW T, T \subseteq Nat, T # {}
  PROVE  Min(T) \in T /\ \A y \in T : Min(T) <= y
<1>1. PICK x \in T : \A y \in T : ~(<<y, x>> \in OpToRel(<, Nat))
  BY WFMin, NatLessThanWellFounded, Zenon
<1>2. \A y \in T : ~(y < x)
  BY <1>1 DEF OpToRel
<1>3. \A y \in T : x <= y
  BY <1>2
<1> QED
  BY <1>3 DEF Min

\* A number of periods later the remainder is the same.
LEMMA SameRemainder ==
  ASSUME NEW x \in Nat, NEW m \in Nat, NEW i \in Nat \ {0}, x % i = 0
  PROVE  (x + m * i) % i = 0
<1> DEFINE q == x \div i
           y == x + m * i
           p == y \div i
           r == y % i
<1>1. q \in Nat /\ x = q * i /\ m * i \in Nat
  OBVIOUS
<1>2. y = (q + m) * i /\ q + m \in Nat /\ y \in Nat
  BY <1>1
<1>3. p \in Nat /\ r \in 0..(i - 1) /\ y = p * i + r
  BY <1>2
<1> HIDE DEF q, y, p, r
<1>4. \A a, b \in Int : a < b => a * i + i <= b * i
  <2> TAKE a, b \in Int
  <2>1. HAVE a < b
  <2>2. (a + 1) * i <= b * i /\ (a + 1) * i = a * i + i
    BY <2>1
  <2> QED
    BY <2>2
<1>5. p = q + m
  <2>1. /\ p < q + m => p * i + i <= (q + m) * i
        /\ q + m < p => (q + m) * i + i <= p * i
        /\ p * i \in Nat /\ (q + m) * i \in Nat
    BY <1>1, <1>2, <1>3, <1>4
  <2> QED
    BY <1>2, <1>3, <2>1
<1> QED
  BY <1>2, <1>3, <1>5 DEF y, r

LEMMA Inserted ==
  ASSUME NEW S, NEW s \in Seq(S), NEW e \in S, NEW i \in 0..Len(s)
  PROVE  /\ InsertAt(s, i + 1, e) \in Seq(S)
         /\ Len(InsertAt(s, i + 1, e)) = Len(s) + 1
         /\ \A j \in 1..i : InsertAt(s, i + 1, e)[j] = s[j]
         /\ InsertAt(s, i + 1, e)[i + 1] = e
         /\ \A j \in (i + 1)..Len(s) : InsertAt(s, i + 1, e)[j + 1] = s[j]
<1> DEFINE a == SubSeq(s, 1, i)
           b == SubSeq(s, i + 1, Len(s))
           t == InsertAt(s, i + 1, e)
<1>1. i \in Nat /\ Len(s) \in Nat /\ (i + 1) - 1 = i /\ i <= Len(s)
  OBVIOUS
<1>2. t = a \o <<e>> \o b
  BY <1>1 DEF InsertAt
<1>3. a \in Seq(S) /\ Len(a) = i /\ \A j \in 1..i : a[j] = s[j]
  BY <1>1
<1>4. b \in Seq(S) /\ Len(b) = Len(s) - i /\ \A j \in 1..Len(b) : b[j] = s[j + i]
  BY <1>1
<1> DEFINE c == a \o <<e>>
<1> HIDE DEF a, b, t
<1>5. <<e>> \in Seq(S) /\ Len(<<e>>) = 1 /\ <<e>>[1] = e
  OBVIOUS
<1>6. /\ c \in Seq(S) /\ Len(c) = i + 1
      /\ \A j \in 1..i : c[j] = s[j]
      /\ c[i + 1] = e
  BY <1>1, <1>3, <1>5
<1>10. t = c \o b
  BY <1>2
<1> HIDE DEF c
<1>7. /\ t \in Seq(S) /\ Len(t) = Len(s) + 1
      /\ \A j \in 1..(i + 1) : t[j] = c[j]
      /\ \A j \in 1..Len(b) : t[i + 1 + j] = b[j]
  <2>1. t \in Seq(S) /\ Len(t) = Len(c) + Len(b)
    BY <1>4, <1>6, <1>10, ConcatProperties
  <2>2. \A j \in 1..(Len(c) + Len(b)) : t[j] = IF j <= Len(c) THEN c[j] ELSE b[j - Len(c)]
    BY <1>4, <1>6, <1>10, ConcatProperties
  <2>3. Len(c) + Len(b) \in Nat /\ Len(b) \in Nat /\ Len(t) = Len(s) + 1
    BY <1>1, <1>4, <1>6, <2>1
  <2>4. ASSUME NEW j \in 1..(i + 1) PROVE t[j] = c[j]
    <3>1. j \in 1..(Len(c) + Len(b)) /\ j <= Len(c)
      BY <1>1, <1>6, <2>3
    <3> QED
      BY <2>2, <3>1
  <2>5. ASSUME NEW j \in 1..Len(b) PROVE t[i + 1 + j] = b[j]
    <3>1. i + 1 + j \in 1..(Len(c) + Len(b)) /\ ~(i + 1 + j <= Len(c)) /\ (i + 1 + j) - Len(c) = j
      BY <1>1, <1>6, <2>3
    <3> QED
      BY <2>2, <3>1
  <2> QED
    BY <2>1, <2>3, <2>4, <2>5
<1>8. /\ \A j \in 1..i : t[j] = s[j]
      /\ t[i + 1] = e
  <2>1. ASSUME NEW j \in 1..i PROVE t[j] = s[j]
    <3>1. j \in 1..(i + 1)
      BY <1>1
    <3> QED
      BY <1>6, <1>7, <3>1
  <2>2. i + 1 \in 1..(i + 1)
    BY <1>1
  <2>3. t[i + 1] = e
    BY <1>6, <1>7, <2>2
  <2> QED
    BY <2>1, <2>3
<1>13. Len(b) = Len(s) - i
  BY <1>4
<1>9. ASSUME NEW j \in (i + 1)..Len(s) PROVE t[j + 1] = s[j]
  <2> DEFINE k == j - i
  <2>1. k \in 1..Len(b) /\ i + 1 + k = j + 1 /\ k + i = j
    BY <1>1, <1>13
  <2> HIDE DEF k
  <2>2. t[i + 1 + k] = b[k]
    BY <1>7, <2>1
  <2>3. b[k] = s[k + i]
    BY <1>4, <2>1
  <2> QED
    BY <2>1, <2>2, <2>3
<1>11. \A j \in (i + 1)..Len(s) : t[j + 1] = s[j]
  BY <1>9
<1>12. t = InsertAt(s, i + 1, e)
  BY DEF t
<1> QED
  BY <1>7, <1>8, <1>11, <1>12, Zenon

-----------------------------------------------------------------------------
(* Receipts                                                                  *)

LEMMA StatusTypes ==
  ASSUME NEW p, NEW c \in Condition, NEW reading \in Reading, NEW history, NEW missed
  PROVE  /\ Candidate(p, c, reading) \in Status
         /\ Debounced(p, c, reading, history, missed) \in Status
<1>1. OfValue(reading.value) \in Status
  BY DEF OfValue, Status
<1>2. Candidate(p, c, reading) \in Status
  BY <1>1, ConditionAssumption, SMTT(60)
  DEF Candidate, CpuBusy, MemoryAvailable, NormalizedLoad, Filesystem, Status
<1> DEFINE before == history[1].condition[c].status
<1>3. before \in {"warning", "critical"} => Held(p, c, reading, history) \in Status
  BY DEF Held, Status
<1>4. Raised(p, c, Candidate(p, c, reading), history) \in Status
  BY <1>2 DEF Raised, Status
<1>5. Debounced(p, c, reading, history, missed) \in Status
  BY <1>2, <1>3, <1>4 DEF Debounced, Status
<1> QED
  BY <1>2, <1>5

\* A condition is ok only for a value that was observed and is not critical,
\* and unknown without an observation.
LEMMA OkWasSeen ==
  ASSUME NEW p, NEW c \in Condition, NEW reading \in Reading, NEW history, NEW missed
  PROVE  /\ Debounced(p, c, reading, history, missed) = "ok" =>
              /\ Candidate(p, c, reading) # "unknown"
              /\ reading.value \notin {"none", "crit"}
         /\ reading.value = "none" =>
              /\ Candidate(p, c, reading) = "unknown"
              /\ Debounced(p, c, reading, history, missed) = "unknown"
<1> DEFINE candidate == Candidate(p, c, reading)
           status    == Debounced(p, c, reading, history, missed)
<1>1. OfValue(reading.value) = "ok" => reading.value \notin {"none", "crit"}
  BY DEF OfValue
<1>2. OfValue(reading.value) = "unknown" <=> reading.value = "none"
  BY DEF OfValue
<1>3. Kind[c] \in {"cpu", "memory", "load", "filesystem"}
  BY ConditionAssumption
<1>4. candidate = "ok" => OfValue(reading.value) = "ok"
  BY <1>3 DEF Candidate, CpuBusy, MemoryAvailable, NormalizedLoad, Filesystem
<1>5. reading.value = "none" => candidate = "unknown"
  BY <1>2, <1>3 DEF Candidate, CpuBusy, MemoryAvailable, NormalizedLoad, Filesystem
<1>6. candidate \in Status
  BY StatusTypes
<1>7. candidate = "unknown" => status = "unknown"
  BY DEF Debounced
<1>8. history[1].condition[c].status \in {"warning", "critical"} =>
        (Held(p, c, reading, history) = "ok" => reading.value = "low")
  BY DEF Held, Recovered, ValueRecovered
<1> HIDE DEF candidate
<1>9. candidate # "ok" => Raised(p, c, candidate, history) # "ok"
  BY DEF Raised
<1>10. status = "ok" => candidate # "unknown" /\ (candidate = "ok" \/ reading.value = "low")
  BY <1>7, <1>8, <1>9 DEF Debounced, candidate
<1> QED
  BY <1>1, <1>4, <1>5, <1>7, <1>10 DEF candidate

\* What the receipt of a run says.
LEMMA ReceiptFacts ==
  ASSUME NEW r \in Run, NEW row, NEW end \in Terminal, NEW at \in 1..MaxTime,
         NEW sample \in [Condition -> Reading],
         NEW e, e = Receipt(r, row, end, at, sample)
  PROVE  /\ e \in Evaluation /\ e.run = r /\ e.at = at
         /\ e.until = (IF end = "observed" THEN at + StaleAfter ELSE 0)
         /\ end # "observed" => e.health = "unknown"
         /\ e.health = "healthy" =>
              \A c \in Required : e.condition[c].value \notin {"none", "crit"}
<1> DEFINE v       == Pinned(row)
           enabled == v > 0 /\ policies[v].enabled
           seen    == IF end = "observed" THEN sample ELSE Unseen
           h       == History(v, at)
           cond    == IF enabled THEN Conditions(policies[v], seen, h, row.missed)
                      ELSE DisabledConditions
           f       == [run |-> r, at |-> at,
                       until |-> IF end = "observed" THEN at + StaleAfter ELSE 0,
                       condition |-> cond,
                       health |-> IF enabled THEN HealthOf(cond) ELSE "unknown"]
<1>1. e = f
  BY DEF Receipt
<1>2. seen \in [Condition -> Reading]
  BY DEF Unseen, Reading, Value, Second
<1>3. end # "observed" => \A c \in Condition : seen[c].value = "none"
  BY DEF Unseen
<1> HIDE DEF seen, h
<1>4. \A c \in Condition :
        /\ seen[c] \in Reading
        /\ Candidate(policies[v], c, seen[c]) \in Status
        /\ Debounced(policies[v], c, seen[c], h, row.missed) \in Status
  BY <1>2, StatusTypes
<1>5. Conditions(policies[v], seen, h, row.missed)
        \in [Condition -> [status : Status, candidate : Status, value : Value]]
  BY <1>4 DEF Conditions, Reading, Value
<1>6. DisabledConditions \in [Condition -> [status : Status, candidate : Status, value : Value]]
  BY DEF DisabledConditions, Status, Value
<1>7. cond \in [Condition -> [status : Status, candidate : Status, value : Value]]
  BY <1>5, <1>6
<1>8. ASSUME enabled
      PROVE  \A c \in Condition :
               /\ cond[c].status = "ok" => cond[c].value \notin {"none", "crit"}
               /\ end # "observed" => cond[c].status = "unknown"
  <2> TAKE c \in Condition
  <2>1. cond[c] = [candidate |-> Candidate(policies[v], c, seen[c]),
                   status |-> Debounced(policies[v], c, seen[c], h, row.missed),
                   value |-> IF Candidate(policies[v], c, seen[c]) = "unknown" THEN "none"
                             ELSE seen[c].value]
    BY <1>8 DEF Conditions
  <2> HIDE DEF cond, v
  <2>2. /\ Debounced(policies[v], c, seen[c], h, row.missed) = "ok" =>
             /\ Candidate(policies[v], c, seen[c]) # "unknown"
             /\ seen[c].value \notin {"none", "crit"}
        /\ seen[c].value = "none" => Debounced(policies[v], c, seen[c], h, row.missed) = "unknown"
    BY <1>4, OkWasSeen
  <2> QED
    BY <1>3, <2>1, <2>2
<1> HIDE DEF cond
<1>9. HealthOf(cond) \in Health
  BY DEF HealthOf, Health
<1>10. HealthOf(cond) = "healthy" => \A c \in Required : cond[c].status = "ok"
  BY <1>7, ConditionAssumption DEF HealthOf, Status
<1>11. (\A c \in Condition : cond[c].status = "unknown") => HealthOf(cond) = "unknown"
  BY ConditionAssumption DEF HealthOf
<1> HIDE DEF enabled
<1>12. f \in Evaluation
  BY <1>7, <1>9, TimeAssumption DEF Evaluation, Health
<1>13. end # "observed" => f.health = "unknown"
  BY <1>8, <1>11
<1>14. f.health = "healthy" => \A c \in Required : f.condition[c].value \notin {"none", "crit"}
  BY <1>8, <1>10, ConditionAssumption
<1> QED
  BY <1>1, <1>12, <1>13, <1>14

-----------------------------------------------------------------------------
(* The invariant                                                             *)

\* Runs are pinned to versions that exist, and answer different slots, all
\* before the due time and on the grid that starts at 1.
RunInv ==
  /\ due >= 1 /\ (due - 1) % Interval = 0
  /\ \A r \in Run :
       /\ run[r].policy <= Len(policies)
       /\ run[r].state = "none" => run[r].trigger = "manual"
       /\ run[r].trigger # "manual" =>
            run[r].slot >= 1 /\ run[r].slot < due /\ (run[r].slot - 1) % Interval = 0
  /\ \A r, q \in Run :
       run[r].trigger # "manual" /\ run[q].trigger # "manual" /\ run[r].slot = run[q].slot => r = q

\* A receipt is of an ended run and its policy, and says what the run saw.
Faithful(e, v) ==
  /\ run[e.run].state \in Terminal /\ run[e.run].policy = v
  /\ e.at <= now
  /\ e.until = (IF run[e.run].state = "observed" THEN e.at + StaleAfter ELSE 0)
  /\ run[e.run].state # "observed" => e.health = "unknown"
  /\ e.health = "healthy" => \A c \in Required : e.condition[c].value \notin {"none", "crit"}

ReceiptInv ==
  \A v \in 0..MaxPolicies :
    /\ \A i \in 1..Len(receipts[v]) : Faithful(receipts[v][i], v)
    /\ \A i, j \in 1..Len(receipts[v]) :
         /\ receipts[v][i].run = receipts[v][j].run => i = j
         /\ i <= j => receipts[v][i].at <= receipts[v][j].at
    /\ \A r \in Run : run[r].state \in Terminal /\ run[r].policy = v =>
         \E i \in 1..Len(receipts[v]) : receipts[v][i].run = r

IInv == TypeOK /\ RunInv /\ ReceiptInv

LEMMA IInvInit == Init => IInv
<1> SUFFICES ASSUME Init PROVE IInv
  OBVIOUS
<1> USE DEF Init
<1>1. TypeOK
  <2>1. <<>> \in Seq(Policy) /\ <<>> \in Seq(Evaluation) /\ Len(<<>>) = 0
    OBVIOUS
  <2>2. NoRun \in [state : {"none", "active"} \cup Terminal,
                   trigger : {"manual", "scheduled", "catch_up"},
                   slot : Nat, missed : Nat, policy : Nat, admitted : 0..MaxTime]
    BY TimeAssumption DEF NoRun
  <2> QED
    BY <2>1, <2>2, TimeAssumption DEF TypeOK
<1>2. RunInv
  <2>1. (1 - 1) % Interval = 0
    BY TimeAssumption
  <2> QED
    BY <2>1, TimeAssumption DEF RunInv, NoRun
<1>3. ReceiptInv
  BY DEF ReceiptInv, NoRun, Terminal
<1> QED
  BY <1>1, <1>2, <1>3 DEF IInv

-----------------------------------------------------------------------------
(* The end of a run                                                          *)

\* A receipt is added in its place, and the others stay in theirs.
LEMMA Recorded ==
  ASSUME IInv, NEW v \in 0..MaxPolicies, NEW e \in Evaluation, Record(v, e)
  PROVE  /\ receipts' \in [0..MaxPolicies -> Seq(Evaluation)]
         /\ \A w \in 0..MaxPolicies : w # v => receipts'[w] = receipts[w]
         /\ Len(receipts'[v]) = Len(receipts[v]) + 1
         /\ \E i \in 1..Len(receipts'[v]) :
              /\ receipts'[v][i] = e
              /\ \A j \in 1..(i - 1) :
                   /\ j \in 1..Len(receipts[v])
                   /\ receipts'[v][j] = receipts[v][j] /\ receipts[v][j].at <= e.at
              /\ \A j \in (i + 1)..Len(receipts'[v]) :
                   /\ j - 1 \in 1..Len(receipts[v])
                   /\ receipts'[v][j] = receipts[v][j - 1] /\ receipts[v][j - 1].at >= e.at
<1> DEFINE rows == receipts[v]
<1>1. PICK k \in 0..Len(rows) :
        /\ \A j \in 1..Len(rows) : IF j <= k THEN rows[j].at <= e.at ELSE rows[j].at >= e.at
        /\ receipts' = [receipts EXCEPT ![v] = InsertAt(rows, k + 1, e)]
  BY DEF Record
<1>2. receipts \in [0..MaxPolicies -> Seq(Evaluation)] /\ rows \in Seq(Evaluation)
  BY DEF IInv, TypeOK
<1> HIDE DEF rows
<1> DEFINE t == InsertAt(rows, k + 1, e)
<1>3. /\ t \in Seq(Evaluation)
      /\ Len(t) = Len(rows) + 1
      /\ \A j \in 1..k : t[j] = rows[j]
      /\ t[k + 1] = e
      /\ \A j \in (k + 1)..Len(rows) : t[j + 1] = rows[j]
  <2>1. t \in Seq(Evaluation)
    BY <1>2, Inserted
  <2>2. Len(t) = Len(rows) + 1
    BY <1>2, Inserted
  <2>3. \A j \in 1..k : t[j] = rows[j]
    BY <1>2, Inserted
  <2>4. t[k + 1] = e
    BY <1>2, Inserted
  <2>5. \A j \in (k + 1)..Len(rows) : t[j + 1] = rows[j]
    BY <1>2, Inserted
  <2> QED
    BY <2>1, <2>2, <2>3, <2>4, <2>5
<1>4. receipts' = [receipts EXCEPT ![v] = t]
  BY <1>1
<1> HIDE DEF t
<1>5. receipts' \in [0..MaxPolicies -> Seq(Evaluation)] /\ receipts'[v] = t
      /\ \A w \in 0..MaxPolicies : w # v => receipts'[w] = receipts[w]
  BY <1>2, <1>3, <1>4
<1>6. k \in Nat /\ Len(rows) \in Nat /\ k <= Len(rows)
  BY <1>2
<1>7. k + 1 \in 1..Len(t)
  BY <1>3, <1>6
<1>8. ASSUME NEW j \in 1..((k + 1) - 1)
      PROVE  j \in 1..Len(rows) /\ t[j] = rows[j] /\ rows[j].at <= e.at
  <2>1. j \in 1..k /\ j <= k /\ j \in 1..Len(rows)
    BY <1>6
  <2> QED
    BY <1>1, <1>3, <2>1
<1>9. ASSUME NEW j \in ((k + 1) + 1)..Len(t)
      PROVE  j - 1 \in 1..Len(rows) /\ t[j] = rows[j - 1] /\ rows[j - 1].at >= e.at
  <2>1. j - 1 \in (k + 1)..Len(rows) /\ (j - 1) + 1 = j /\ ~(j - 1 <= k) /\ j - 1 \in 1..Len(rows)
    BY <1>3, <1>6
  <2> QED
    BY <1>1, <1>3, <2>1
<1> QED
  BY <1>3, <1>5, <1>7, <1>8, <1>9 DEF rows

\* A run that ends and leaves its receipt keeps what is said of receipts.
LEMMA ReceiptStep ==
  ASSUME IInv, NEW r \in Run, NEW row, NEW end \in Terminal,
         run[r].state \in {"none", "active"},
         run' = [run EXCEPT ![r] = row], row.state = end, row.policy \in 0..MaxPolicies,
         now' = now, NEW e \in Evaluation, e.run = r,
         e.at <= now,
         e.until = (IF end = "observed" THEN e.at + StaleAfter ELSE 0),
         end # "observed" => e.health = "unknown",
         e.health = "healthy" => \A c \in Required : e.condition[c].value \notin {"none", "crit"},
         Record(row.policy, e)
  PROVE  ReceiptInv' /\ receipts' \in [0..MaxPolicies -> Seq(Evaluation)]
<1> DEFINE p == row.policy
<1>0. /\ now \in Nat /\ p \in 0..MaxPolicies /\ DOMAIN run = Run
      /\ \A v \in 0..MaxPolicies : receipts[v] \in Seq(Evaluation) /\ Len(receipts[v]) \in Nat
      /\ \A v \in 0..MaxPolicies : \A i \in 1..Len(receipts[v]) :
           receipts[v][i] \in Evaluation /\ receipts[v][i].run \in Run /\ receipts[v][i].at \in Nat
  <2>1. \A v \in 0..MaxPolicies : receipts[v] \in Seq(Evaluation)
    BY DEF IInv, TypeOK
  <2>2. \A v \in 0..MaxPolicies : \A i \in 1..Len(receipts[v]) : receipts[v][i] \in Evaluation
    BY <2>1
  <2>3. \A f \in Evaluation : f.run \in Run /\ f.at \in Nat
    BY TimeAssumption DEF Evaluation
  <2>4. now \in Nat /\ DOMAIN run = Run
    BY TimeAssumption DEF IInv, TypeOK
  <2> QED
    BY <2>1, <2>2, <2>3, <2>4
<1>1. /\ receipts' \in [0..MaxPolicies -> Seq(Evaluation)]
      /\ \A w \in 0..MaxPolicies : w # p => receipts'[w] = receipts[w]
      /\ Len(receipts'[p]) = Len(receipts[p]) + 1
  BY Recorded
<1>2. PICK i \in 1..Len(receipts'[p]) :
              /\ receipts'[p][i] = e
              /\ \A j \in 1..(i - 1) :
                   /\ j \in 1..Len(receipts[p])
                   /\ receipts'[p][j] = receipts[p][j] /\ receipts[p][j].at <= e.at
              /\ \A j \in (i + 1)..Len(receipts'[p]) :
                   /\ j - 1 \in 1..Len(receipts[p])
                   /\ receipts'[p][j] = receipts[p][j - 1] /\ receipts[p][j - 1].at >= e.at
  BY Recorded
<1> DEFINE s == receipts[p]
           t == receipts'[p]
           At(j) == IF j < i THEN j ELSE j - 1
<1>3. p \in 0..MaxPolicies /\ i \in 1..Len(t) /\ Len(s) \in Nat /\ Len(t) = Len(s) + 1
  BY <1>0, <1>1, <1>2
<1>4. \A j \in 1..Len(t) : j # i =>
        /\ At(j) \in 1..Len(s) /\ t[j] = s[At(j)]
        /\ j < i => s[At(j)].at <= e.at
        /\ j > i => s[At(j)].at >= e.at
  BY <1>2, <1>3
<1>5. run'[r] = row /\ \A q \in Run : q # r => run'[q] = run[q]
  BY <1>0
<1>6. \A v \in 0..MaxPolicies : \A j \in 1..Len(receipts[v]) :
        Faithful(receipts[v][j], v) /\ receipts[v][j].run # r
  <2>1. ~(run[r].state \in Terminal)
    BY DEF Terminal
  <2> QED
    BY <2>1 DEF IInv, ReceiptInv, Faithful
<1>7. ASSUME NEW f, NEW v, Faithful(f, v), f.run \in Run, f.run # r
      PROVE  Faithful(f, v)'
  BY <1>5, <1>7 DEF Faithful
<1>8. Faithful(e, p)'
  BY <1>5 DEF Faithful
<1> HIDE DEF p, At
<1>9. ASSUME NEW v \in 0..MaxPolicies, v # p
      PROVE  /\ \A j \in 1..Len(receipts'[v]) : Faithful(receipts[v][j], v)'
             /\ \A j, k \in 1..Len(receipts'[v]) :
                  /\ receipts'[v][j].run = receipts'[v][k].run => j = k
                  /\ j <= k => receipts'[v][j].at <= receipts'[v][k].at
             /\ \A q \in Run : run'[q].state \in Terminal /\ run'[q].policy = v =>
                  \E j \in 1..Len(receipts'[v]) : receipts'[v][j].run = q
  <2>1. receipts'[v] = receipts[v]
    BY <1>1, <1>9
  <2>2. ASSUME NEW j \in 1..Len(receipts[v]) PROVE Faithful(receipts[v][j], v)'
    <3>1. PICK f : f = receipts'[v][j]
      OBVIOUS
    <3>2. Faithful(f, v) /\ f.run # r /\ f.run \in Run
      BY <1>0, <1>6, <2>1, <3>1
    <3>3. Faithful(f, v)'
      BY <1>7, <3>2
    <3> QED
      BY <3>1, <3>3 DEF Faithful
  <2>3. \A q \in Run : run'[q].state \in Terminal /\ run'[q].policy = v => q # r
    BY <1>5, <1>9 DEF p
  <2> QED
    BY <1>5, <2>1, <2>2, <2>3 DEF IInv, ReceiptInv
<1>10. ASSUME NEW j \in 1..Len(t) PROVE Faithful(receipts[p][j], p)'
  <2>1. PICK f : f = t[j]
    OBVIOUS
  <2>2. CASE j = i
    BY <1>2, <1>8, <2>1, <2>2 DEF Faithful
  <2>3. CASE j # i
    <3>1. Faithful(f, p) /\ f.run # r /\ f.run \in Run
      BY <1>0, <1>3, <1>4, <1>6, <2>1, <2>3
    <3>2. Faithful(f, p)'
      BY <1>7, <3>1
    <3> QED
      BY <2>1, <3>2 DEF Faithful
  <2> QED
    BY <2>2, <2>3
<1>11. ASSUME NEW j \in 1..Len(t), NEW k \in 1..Len(t)
       PROVE  /\ t[j].run = t[k].run => j = k
              /\ j <= k => t[j].at <= t[k].at
  <2>1. /\ \A x, y \in 1..Len(s) : s[x].run = s[y].run => x = y
        /\ \A x, y \in 1..Len(s) : x <= y => s[x].at <= s[y].at
    <3>1. \A v \in 0..MaxPolicies : \A x, y \in 1..Len(receipts[v]) :
            /\ receipts[v][x].run = receipts[v][y].run => x = y
            /\ x <= y => receipts[v][x].at <= receipts[v][y].at
      BY DEF IInv, ReceiptInv
    <3> QED
      BY <1>3, <3>1
  <2>2. \A x \in 1..Len(s) : s[x].run # r /\ s[x].at \in Nat
    BY <1>0, <1>3, <1>6
  <2>3. t[i] = e /\ e.at \in Nat
    BY <1>2, TimeAssumption DEF Evaluation
  <2>4. CASE j = i /\ k = i
    BY <2>3, <2>4
  <2>5. CASE j = i /\ k # i
    <3>1. At(k) \in 1..Len(s) /\ t[k] = s[At(k)] /\ (k > i => s[At(k)].at >= e.at)
      BY <1>4, <2>5
    <3> QED
      BY <1>3, <2>2, <2>3, <2>5, <3>1
  <2>6. CASE j # i /\ k = i
    <3>1. At(j) \in 1..Len(s) /\ t[j] = s[At(j)] /\ (j < i => s[At(j)].at <= e.at)
      BY <1>4, <2>6
    <3> QED
      BY <1>3, <2>2, <2>3, <2>6, <3>1
  <2>7. CASE j # i /\ k # i
    <3>1. /\ At(j) \in 1..Len(s) /\ t[j] = s[At(j)]
          /\ At(k) \in 1..Len(s) /\ t[k] = s[At(k)]
      BY <1>4, <2>7
    <3>2. (At(j) = At(k) => j = k) /\ (j <= k => At(j) <= At(k))
      BY <1>3, <2>7 DEF At
    <3> QED
      BY <2>1, <3>1, <3>2
  <2> QED
    BY <2>4, <2>5, <2>6, <2>7
<1>12. ASSUME NEW q \in Run, run'[q].state \in Terminal, run'[q].policy = p
       PROVE  \E j \in 1..Len(t) : t[j].run = q
  <2>1. CASE q = r
    BY <1>2, <2>1
  <2>2. CASE q # r
    <3>1. PICK x \in 1..Len(s) : s[x].run = q
      BY <1>3, <1>5, <1>12, <2>2 DEF IInv, ReceiptInv
    <3>2. CASE x < i
      <4>1. x \in 1..Len(t) /\ x # i /\ At(x) = x
        BY <1>3, <3>2 DEF At
      <4> QED
        BY <1>4, <3>1, <4>1
    <3>3. CASE ~(x < i)
      <4>1. x + 1 \in 1..Len(t) /\ x + 1 # i /\ At(x + 1) = x
        BY <1>3, <3>3 DEF At
      <4> QED
        BY <1>4, <3>1, <4>1
    <3> QED
      BY <3>2, <3>3
  <2> QED
    BY <2>1, <2>2
<1>13. ReceiptInv'
  <2> SUFFICES ASSUME NEW v \in 0..MaxPolicies
               PROVE  /\ \A j \in 1..Len(receipts'[v]) : Faithful(receipts[v][j], v)'
                      /\ \A j, k \in 1..Len(receipts'[v]) :
                           /\ receipts'[v][j].run = receipts'[v][k].run => j = k
                           /\ j <= k => receipts'[v][j].at <= receipts'[v][k].at
                      /\ \A q \in Run : run'[q].state \in Terminal /\ run'[q].policy = v =>
                           \E j \in 1..Len(receipts'[v]) : receipts'[v][j].run = q
    BY DEF ReceiptInv
  <2>1. CASE v = p
    BY <1>10, <1>11, <1>12, <2>1
  <2>2. CASE v # p
    BY <1>9, <2>2
  <2> QED
    BY <2>1, <2>2
<1> QED
  BY <1>1, <1>13

-----------------------------------------------------------------------------
(* The actions                                                               *)

\* Without a receipt, a run that has not ended or does not end may change.
NothingEnds ==
  /\ receipts' = receipts
  /\ now \in Nat /\ now' \in Nat /\ now <= now'
  /\ \A r \in Run : \/ run'[r] = run[r]
                    \/ run[r].state \notin Terminal /\ run'[r].state \notin Terminal

LEMMA NoReceipt == IInv /\ NothingEnds => ReceiptInv'
<1> SUFFICES ASSUME IInv, NothingEnds PROVE ReceiptInv'
  OBVIOUS
<1> USE DEF NothingEnds
<1>1. \A v \in 0..MaxPolicies : \A i \in 1..Len(receipts[v]) :
        receipts[v][i].run \in Run /\ receipts[v][i].at \in Nat
  <2>1. \A v \in 0..MaxPolicies : receipts[v] \in Seq(Evaluation)
    BY DEF IInv, TypeOK
  <2>2. \A v \in 0..MaxPolicies : \A i \in 1..Len(receipts[v]) : receipts[v][i] \in Evaluation
    BY <2>1
  <2>3. \A f \in Evaluation : f.run \in Run /\ f.at \in Nat
    BY TimeAssumption DEF Evaluation
  <2> QED
    BY <2>2, <2>3
<1>2. ASSUME NEW f, NEW v, Faithful(f, v), f.run \in Run, f.at \in Nat
      PROVE  Faithful(f, v)'
  BY <1>2 DEF Faithful
<1>3. ASSUME NEW v \in 0..MaxPolicies, NEW i \in 1..Len(receipts[v])
      PROVE  Faithful(receipts[v][i], v)'
  <2>1. PICK f : f = receipts[v][i]
    OBVIOUS
  <2>2. Faithful(f, v)'
    BY <1>1, <1>2, <2>1 DEF IInv, ReceiptInv
  <2> QED
    BY <2>1, <2>2 DEF Faithful
<1> QED
  BY <1>3 DEF IInv, ReceiptInv

\* Neither does a run answer a slot it did not answer before.
SlotKept(r) ==
  /\ policies' = policies /\ due' = due
  /\ \A q \in Run : q # r => run'[q] = run[q]
  /\ run'[r].state # "none" /\ run'[r].policy <= Len(policies)
  /\ \/ run'[r].trigger = "manual"
     \/ run'[r].trigger = run[r].trigger /\ run'[r].slot = run[r].slot

LEMMA SlotsKept ==
  ASSUME RunInv, NEW r \in Run, SlotKept(r)
  PROVE  RunInv'
<1> USE DEF SlotKept
<1>1. due' >= 1 /\ (due' - 1) % Interval = 0
  BY DEF RunInv
<1>2. ASSUME NEW q \in Run
      PROVE  /\ run'[q].policy <= Len(policies')
             /\ run'[q].state = "none" => run'[q].trigger = "manual"
             /\ run'[q].trigger # "manual" =>
                  run'[q].slot >= 1 /\ run'[q].slot < due' /\ (run'[q].slot - 1) % Interval = 0
  <2>1. CASE q = r
    BY <2>1 DEF RunInv
  <2>2. CASE q # r
    BY <2>2 DEF RunInv
  <2> QED
    BY <2>1, <2>2
<1>3. \A q \in Run : run'[q].trigger # "manual" =>
        run'[q].trigger = run[q].trigger /\ run'[q].slot = run[q].slot
  OBVIOUS
<1>4. \A x, y \in Run : run'[x].trigger # "manual" /\ run'[y].trigger # "manual"
                          /\ run'[x].slot = run'[y].slot => x = y
  BY <1>3 DEF RunInv
<1> QED
  BY <1>1, <1>2, <1>4 DEF RunInv

LEMMA ClockStep == IInv /\ Clock => IInv'
<1> SUFFICES ASSUME IInv, Clock PROVE IInv'
  OBVIOUS
<1> USE DEF Clock
<1>1. now \in Nat /\ now' \in 1..MaxTime /\ now' \in Nat /\ now <= now'
  BY TimeAssumption DEF IInv, TypeOK
<1>2. TypeOK' /\ RunInv'
  BY <1>1 DEF IInv, TypeOK, RunInv
<1>3. ReceiptInv'
  <2>1. NothingEnds
    BY <1>1 DEF NothingEnds
  <2> QED
    BY <2>1, NoReceipt
<1> QED
  BY <1>2, <1>3 DEF IInv

LEMMA PutStep ==
  ASSUME NEW config \in Config, IInv, PutHealthPolicy(config)
  PROVE  IInv'
<1> USE DEF PutHealthPolicy
<1>1. policies \in Seq(Policy) /\ now \in Nat /\ config \in Policy
  BY TimeAssumption DEF IInv, TypeOK, Policy
<1>2. policies' \in Seq(Policy) /\ Len(policies') = Len(policies) + 1 /\ Len(policies) \in Nat
  BY <1>1
<1>3. TypeOK'
  BY <1>2, TimeAssumption DEF IInv, TypeOK
<1>4. RunInv'
  BY <1>2 DEF IInv, TypeOK, RunInv
<1>5. ReceiptInv'
  <2>1. NothingEnds
    BY <1>1 DEF NothingEnds
  <2> QED
    BY <2>1, NoReceipt
<1> QED
  BY <1>3, <1>4, <1>5 DEF IInv

LEMMA CreateStep ==
  ASSUME NEW r \in Run, IInv, CreateMonitorRun(r)
  PROVE  IInv'
<1> USE DEF CreateMonitorRun
<1> DEFINE row == [state |-> "active", trigger |-> "manual", slot |-> 0, missed |-> 0,
                   policy |-> Len(policies), admitted |-> now]
<1>1. row = [state |-> "active", trigger |-> "manual", slot |-> 0, missed |-> 0,
             policy |-> Len(policies), admitted |-> now]
  OBVIOUS
<1>2. run' = [run EXCEPT ![r] = row]
  OBVIOUS
<1> HIDE DEF row
<1>3. Len(policies) \in Nat /\ now \in Nat /\ now \in 0..MaxTime
  <2>1. policies \in Seq(Policy)
    BY DEF IInv, TypeOK
  <2> QED
    BY <2>1, TimeAssumption DEF IInv, TypeOK
<1>4. /\ DOMAIN run = Run /\ run'[r] = row /\ \A q \in Run : q # r => run'[q] = run[q]
  BY <1>2 DEF IInv, TypeOK
<1>5. TypeOK'
  BY <1>1, <1>2, <1>3 DEF IInv, TypeOK
<1>6. RunInv'
  <2>1. row.trigger = "manual" /\ row.policy = Len(policies) /\ row.state # "none"
    BY <1>1
  <2>2. policies' = policies /\ due' = due
    OBVIOUS
  <2>3. SlotKept(r)
    BY <1>3, <1>4, <2>1, <2>2 DEF SlotKept
  <2> QED
    BY <2>3, SlotsKept DEF IInv
<1>7. ReceiptInv'
  <2>1. UNCHANGED receipts /\ now' = now /\ run[r].state = "none" /\ row.state = "active"
    BY <1>1
  <2>2. run[r].state \notin Terminal /\ run'[r].state \notin Terminal
    BY <1>4, <2>1 DEF Terminal
  <2>3. NothingEnds
    BY <1>3, <1>4, <2>1, <2>2 DEF NothingEnds
  <2> QED
    BY <2>3, NoReceipt
<1> QED
  BY <1>5, <1>6, <1>7 DEF IInv

\* What a run leaves when it ends, with the row it ends with.
Ends(r, row, end, at, sample, prior) ==
  /\ run[r].state \in {"none", "active"}
  /\ run' = [run EXCEPT ![r] = row]
  /\ row.state = end /\ row.policy \in 0..MaxPolicies /\ prior.policy = row.policy
  /\ now' = now /\ at <= now
  /\ Evaluate(r, prior, end, at, sample)

LEMMA EvaluateStep ==
  ASSUME IInv, NEW r \in Run, NEW row, NEW end \in Terminal, NEW at \in 1..MaxTime,
         NEW sample \in [Condition -> Reading], NEW prior,
         Ends(r, row, end, at, sample, prior)
  PROVE  ReceiptInv' /\ receipts' \in [0..MaxPolicies -> Seq(Evaluation)]
<1> USE DEF Ends
<1>0. PICK e : e = Receipt(r, prior, end, at, sample)
  OBVIOUS
<1>1. /\ e \in Evaluation /\ e.run = r /\ e.at = at
      /\ e.until = (IF end = "observed" THEN at + StaleAfter ELSE 0)
      /\ end # "observed" => e.health = "unknown"
      /\ e.health = "healthy" =>
           \A c \in Required : e.condition[c].value \notin {"none", "crit"}
  BY <1>0, ReceiptFacts
<1>2. Record(row.policy, e)
  BY <1>0 DEF Evaluate, Pinned
<1> QED
  BY <1>1, <1>2, ReceiptStep

\* What an end of a run that is active has in common, whatever ends it.
LEMMA EndStep ==
  ASSUME IInv, NEW r \in Run, NEW end \in Terminal, NEW at \in 1..MaxTime,
         NEW sample \in [Condition -> Reading],
         run[r].state = "active", at <= now,
         run' = [run EXCEPT ![r] = Ended(@, end)],
         Evaluate(r, run[r], end, at, sample),
         UNCHANGED <<now, policies, due>>
  PROVE  IInv'
<1> DEFINE row == Ended(run[r], end)
           Row == [state : {"none", "active"} \cup Terminal,
                   trigger : {"manual", "scheduled", "catch_up"},
                   slot : Nat, missed : Nat, policy : Nat, admitted : 0..MaxTime]
<1>1. run \in [Run -> Row] /\ run[r] \in Row
  BY DEF IInv, TypeOK
<1>2. row = [state |-> end, trigger |-> run[r].trigger, slot |-> run[r].slot,
             missed |-> run[r].missed, policy |-> run[r].policy, admitted |-> 0]
  BY DEF Ended
<1>3. run' = [run EXCEPT ![r] = row]
  OBVIOUS
<1> HIDE DEF row
<1>4. row \in Row
  BY <1>1, <1>2, TimeAssumption
<1>5. run' \in [Run -> Row] /\ run'[r] = row /\ \A q \in Run : q # r => run'[q] = run[q]
  BY <1>1, <1>3, <1>4
<1>6. run[r].policy \in 0..MaxPolicies /\ run[r].policy <= Len(policies)
  <2>1. policies \in Seq(Policy) /\ Len(policies) <= MaxPolicies
    BY DEF IInv, TypeOK
  <2>2. run[r].policy <= Len(policies) /\ run[r].policy \in Nat
    BY <1>1 DEF IInv, RunInv
  <2> QED
    BY <2>1, <2>2, TimeAssumption
<1>7. ReceiptInv' /\ receipts' \in [0..MaxPolicies -> Seq(Evaluation)]
  <2>1. row.state = end /\ run[r].policy = row.policy /\ row.policy \in 0..MaxPolicies
    BY <1>2, <1>6
  <2>2. run[r].state \in {"none", "active"} /\ now' = now
    OBVIOUS
  <2>3. Ends(r, row, end, at, sample, run[r])
    BY <1>3, <2>1, <2>2 DEF Ends
  <2> QED
    BY <2>3, EvaluateStep
<1>8. SlotKept(r)
  BY <1>2, <1>5, <1>6 DEF SlotKept, Terminal
<1>9. RunInv'
  BY <1>8, SlotsKept DEF IInv
<1>10. TypeOK'
  BY <1>5, <1>7 DEF IInv, TypeOK
<1> QED
  BY <1>7, <1>9, <1>10 DEF IInv

LEMMA FinishStep ==
  ASSUME NEW r \in Run, NEW end \in {"observed", "failed", "interrupted"},
         NEW at \in 1..MaxTime, NEW sample \in [Condition -> Reading],
         IInv, Finish(r, end, at, sample)
  PROVE  IInv'
BY EndStep DEF Finish, Terminal

LEMMA RecoverStep ==
  ASSUME NEW r \in Run, IInv, Recover(r)
  PROVE  IInv'
<1>1. now \in 1..MaxTime /\ now <= now
  BY TimeAssumption DEF IInv, TypeOK
<1>2. Unseen \in [Condition -> Reading]
  BY DEF Unseen, Reading, Value, Second
<1>3. "interrupted" \in Terminal
  BY DEF Terminal
<1> QED
  BY <1>1, <1>2, <1>3, EndStep DEF Recover, RecoverReceipt

\* The slot a claim answers is on the grid, not before the due time, and the
\* next one is later.
LEMMA ClaimedSlot ==
  ASSUME IInv, NEW tick \in 1..MaxTime, due <= tick
  PROVE  /\ Missed(tick) \in Nat
         /\ due + Missed(tick) * Interval \in Nat
         /\ due <= due + Missed(tick) * Interval
         /\ (due + Missed(tick) * Interval - 1) % Interval = 0
         /\ (due + Missed(tick) * Interval + Interval - 1) % Interval = 0
<1> DEFINE m == Missed(tick)
<1>1. due \in Nat /\ due >= 1 /\ (due - 1) % Interval = 0 /\ Interval \in Nat \ {0}
  BY TimeAssumption DEF IInv, TypeOK, RunInv
<1>2. tick \in Nat /\ MaxTime \in Nat
  BY TimeAssumption
<1>3. m \in Nat
  BY <1>1, <1>2 DEF Missed
<1> HIDE DEF m
<1>4. m * Interval \in Nat /\ (m + 1) * Interval = m * Interval + Interval
  BY <1>1, <1>3
<1>5. (due - 1 + m * Interval) % Interval = 0
  <2>1. due - 1 \in Nat
    BY <1>1
  <2> QED
    BY <1>1, <1>3, <2>1, SameRemainder
<1>6. (due - 1 + (m + 1) * Interval) % Interval = 0
  <2>1. m + 1 \in Nat /\ due - 1 \in Nat
    BY <1>1, <1>3
  <2> QED
    BY <1>1, <2>1, SameRemainder
<1> DEFINE k == m * Interval
<1>7. k \in Nat /\ (due - 1 + k) % Interval = 0 /\ (due - 1 + (k + Interval)) % Interval = 0
  BY <1>4, <1>5, <1>6
<1> HIDE DEF k
<1>8. due - 1 + k = due + k - 1 /\ due - 1 + (k + Interval) = due + k + Interval - 1
  BY <1>1, <1>7
<1>9. due + k \in Nat /\ due <= due + k /\ (due + k - 1) % Interval = 0
      /\ (due + k + Interval - 1) % Interval = 0
  BY <1>1, <1>7, <1>8
<1> QED
  BY <1>3, <1>9 DEF m, k

LEMMA ClaimStep ==
  ASSUME NEW r \in Run, NEW tick \in 1..MaxTime, NEW discovery \in BOOLEAN,
         IInv, Claim(r, tick, discovery)
  PROVE  IInv'
<1> DEFINE m    == Missed(tick)
           slot == due + m * Interval
           skip == Occupied \/ discovery
           row  == [state |-> IF skip THEN "skipped_overlap" ELSE "active",
                    trigger |-> IF m > 0 THEN "catch_up" ELSE "scheduled",
                    slot |-> slot, missed |-> m, policy |-> Len(policies),
                    admitted |-> IF skip THEN 0 ELSE now]
           Row  == [state : {"none", "active"} \cup Terminal,
                    trigger : {"manual", "scheduled", "catch_up"},
                    slot : Nat, missed : Nat, policy : Nat, admitted : 0..MaxTime]
<1>1. /\ run[r].state = "none" /\ due <= tick /\ tick <= now
      /\ run' = [run EXCEPT ![r] = row] /\ due' = slot + Interval
      /\ IF skip THEN SkipReceipt(r, row, tick) ELSE UNCHANGED receipts
      /\ now' = now /\ policies' = policies
  BY DEF Claim
<1>2. /\ m \in Nat /\ slot \in Nat /\ due <= slot
      /\ (slot - 1) % Interval = 0 /\ (slot + Interval - 1) % Interval = 0
  <2>1. due <= tick
    BY DEF Claim
  <2>2. /\ Missed(tick) \in Nat
        /\ due + Missed(tick) * Interval \in Nat
        /\ due <= due + Missed(tick) * Interval
        /\ (due + Missed(tick) * Interval - 1) % Interval = 0
        /\ (due + Missed(tick) * Interval + Interval - 1) % Interval = 0
    BY <2>1, ClaimedSlot
  <2>3. due \in Nat
    BY DEF IInv, TypeOK
  <2> QED
    BY <2>2, <2>3, TimeAssumption
<1> HIDE DEF m, slot, skip
<1>3. /\ row.state = (IF skip THEN "skipped_overlap" ELSE "active")
      /\ row.trigger = (IF m > 0 THEN "catch_up" ELSE "scheduled")
      /\ row.slot = slot /\ row.policy = Len(policies)
  OBVIOUS
<1>4. /\ run \in [Run -> Row] /\ now \in 0..MaxTime /\ now \in Nat /\ due \in Nat /\ due >= 1
      /\ Len(policies) \in Nat /\ Len(policies) <= MaxPolicies /\ Interval \in Nat \ {0}
  <2>1. policies \in Seq(Policy)
    BY DEF IInv, TypeOK
  <2> QED
    BY <2>1, TimeAssumption DEF IInv, TypeOK, RunInv
<1>5. row \in Row
  BY <1>2, <1>4, TimeAssumption DEF Terminal
<1> HIDE DEF row
<1>6. run' \in [Run -> Row] /\ run'[r] = row /\ \A q \in Run : q # r => run'[q] = run[q]
  BY <1>1, <1>4, <1>5
<1>7. due' \in Nat /\ due' >= 1 /\ slot < due' /\ due < due'
  BY <1>1, <1>2, <1>4
<1>8. RunInv'
  <2>1. ASSUME NEW q \in Run
        PROVE  /\ run'[q].policy <= Len(policies')
               /\ run'[q].state = "none" => run'[q].trigger = "manual"
               /\ run'[q].trigger # "manual" =>
                    run'[q].slot >= 1 /\ run'[q].slot < due' /\ (run'[q].slot - 1) % Interval = 0
    <3>1. CASE q = r
      BY <1>1, <1>2, <1>3, <1>4, <1>6, <1>7, <3>1
    <3>2. CASE q # r
      <4>1. run[q] \in Row /\ run'[q] = run[q]
        BY <1>4, <1>6, <3>2
      <4>2. /\ run[q].policy <= Len(policies)
            /\ run[q].state = "none" => run[q].trigger = "manual"
            /\ run[q].trigger # "manual" =>
                  run[q].slot >= 1 /\ run[q].slot < due /\ (run[q].slot - 1) % Interval = 0
        BY DEF IInv, RunInv
      <4>3. run[q].slot \in Nat /\ due \in Nat /\ due' \in Nat /\ due < due'
        BY <1>4, <1>7, <4>1
      <4>4. run[q].slot < due => run[q].slot < due'
        BY <4>3
      <4>5. policies' = policies
        BY <1>1
      <4> QED
        BY <4>1, <4>2, <4>4, <4>5
    <3> QED
      BY <3>1, <3>2
  <2>2. \A q \in Run : q # r /\ run[q].trigger # "manual" => run[q].slot # slot
    <3> SUFFICES ASSUME NEW q \in Run, q # r, run[q].trigger # "manual" PROVE run[q].slot # slot
      OBVIOUS
    <3>1. run[q].slot < due /\ run[q].slot \in Nat
      BY <1>4 DEF IInv, RunInv
    <3> QED
      BY <1>2, <1>4, <3>1
  <2>3. \A x, y \in Run : run'[x].trigger # "manual" /\ run'[y].trigger # "manual"
                            /\ run'[x].slot = run'[y].slot => x = y
    BY <1>3, <1>6, <2>2 DEF IInv, RunInv
  <2>4. due' >= 1 /\ (due' - 1) % Interval = 0
    <3>1. due' = slot + Interval
      BY <1>1
    <3>2. (due' - 1) % Interval = 0
      BY <1>2, <1>4, <1>7, <3>1
    <3> QED
      BY <1>7, <3>2
  <2> QED
    BY <2>1, <2>3, <2>4 DEF RunInv
<1>9. ReceiptInv' /\ receipts' \in [0..MaxPolicies -> Seq(Evaluation)]
  <2>1. CASE skip
    <3>1. row.state = "skipped_overlap" /\ "skipped_overlap" \in Terminal
      BY <1>3, <2>1 DEF Terminal
    <3>2. row.policy \in 0..MaxPolicies /\ tick <= now
      BY <1>1, <1>3, <1>4, TimeAssumption
    <3>3. Evaluate(r, row, "skipped_overlap", tick, Unseen)
      BY <1>1, <2>1 DEF SkipReceipt
    <3>4. Ends(r, row, "skipped_overlap", tick, Unseen, row)
      BY <1>1, <3>1, <3>2, <3>3 DEF Ends
    <3>5. Unseen \in [Condition -> Reading]
      BY DEF Unseen, Reading, Value, Second
    <3> QED
      BY <3>1, <3>4, <3>5, EvaluateStep
  <2>2. CASE ~skip
    <3>1. run[r].state \notin Terminal /\ run'[r].state \notin Terminal
      BY <1>1, <1>3, <1>6, <2>2 DEF Terminal
    <3>2. NothingEnds
      BY <1>1, <1>4, <1>6, <2>2, <3>1 DEF NothingEnds
    <3>3. receipts' = receipts
      BY <1>1, <2>2
    <3> QED
      BY <3>2, <3>3, NoReceipt DEF IInv, TypeOK
  <2> QED
    BY <2>1, <2>2
<1>10. TypeOK'
  BY <1>1, <1>6, <1>7, <1>9 DEF IInv, TypeOK
<1> QED
  BY <1>8, <1>9, <1>10 DEF IInv

-----------------------------------------------------------------------------
(* The theorems                                                              *)

LEMMA IInvStutter == IInv /\ UNCHANGED vars => IInv'
BY DEF IInv, TypeOK, RunInv, ReceiptInv, Faithful, vars

LEMMA IInvStep ==
  ASSUME IInv, Next
  PROVE  IInv'
<1>1. CASE Clock
  BY <1>1, ClockStep
<1>2. ASSUME NEW config \in Config, PutHealthPolicy(config) PROVE IInv'
  BY <1>2, PutStep
<1>3. ASSUME NEW r \in Run, CreateMonitorRun(r) PROVE IInv'
  BY <1>3, CreateStep
<1>4. ASSUME NEW r \in Run, Recover(r) PROVE IInv'
  BY <1>4, RecoverStep
<1>5. ASSUME NEW r \in Run, NEW tick \in 1..MaxTime, NEW discovery \in BOOLEAN,
             Claim(r, tick, discovery)
      PROVE  IInv'
  BY <1>5, ClaimStep
<1>6. ASSUME NEW r \in Run, NEW at \in 1..MaxTime, NEW sample \in Sample,
             Finish(r, "observed", at, sample)
      PROVE  IInv'
  BY <1>6, SampleAssumption, FinishStep
<1>7. ASSUME NEW r \in Run, NEW at \in 1..MaxTime, NEW end \in {"failed", "interrupted"},
             Finish(r, end, at, Unseen)
      PROVE  IInv'
  <2>1. Unseen \in [Condition -> Reading]
    BY DEF Unseen, Reading, Value, Second
  <2> QED
    BY <1>7, <2>1, FinishStep
<1> QED
  BY <1>1, <1>2, <1>3, <1>4, <1>5, <1>6, <1>7 DEF Next

THEOREM HealthInvariant == Spec => []IInv
<1>1. IInv /\ [Next]_vars => IInv'
  BY IInvStep, IInvStutter
<1> QED
  BY IInvInit, <1>1, PTL DEF Spec

\* The state has its types, whatever the policies and the samples.
THEOREM HealthTypes == Spec => []TypeOK
<1>1. IInv => TypeOK
  BY DEF IInv
<1> QED
  BY HealthInvariant, <1>1, PTL

\* A run has one receipt once it has ended, and none before.
THEOREM EndedRunsHaveOneReceipt == Spec => []OneReceipt
<1>1. IInv => OneReceipt
  <2> SUFFICES ASSUME IInv, NEW r \in Run, NEW v \in 0..MaxPolicies
               PROVE  Cardinality({i \in 1..Len(receipts[v]) : receipts[v][i].run = r})
                        = (IF run[r].state \in Terminal /\ run[r].policy = v THEN 1 ELSE 0)
    BY DEF OneReceipt
  <2> DEFINE I == {i \in 1..Len(receipts[v]) : receipts[v][i].run = r}
  <2>1. \A i, j \in I : i = j
    BY DEF IInv, ReceiptInv
  <2>2. CASE run[r].state \in Terminal /\ run[r].policy = v
    <3>1. PICK i \in 1..Len(receipts[v]) : receipts[v][i].run = r
      BY <2>2 DEF IInv, ReceiptInv
    <3>2. I = {i}
      BY <2>1, <3>1
    <3> HIDE DEF I
    <3>3. Cardinality(I) = 1
      BY <3>2, FS_Singleton
    <3> QED
      BY <2>2, <3>3 DEF I
  <2>3. CASE ~(run[r].state \in Terminal /\ run[r].policy = v)
    <3>1. I = {}
      BY <2>3 DEF IInv, ReceiptInv, Faithful
    <3> HIDE DEF I
    <3>3. Cardinality(I) = 0
      BY <3>1, FS_EmptySet
    <3> QED
      BY <2>3, <3>3 DEF I
  <2> QED
    BY <2>2, <2>3
<1> QED
  BY HealthInvariant, <1>1, PTL

\* A host is shown healthy on a run that saw it under the policy in force.
THEOREM HealthyHostWasSeen == Spec => []HealthyIsCurrent
<1>1. IInv => HealthyIsCurrent
  <2> SUFFICES ASSUME IInv, CurrentHealth = "healthy" PROVE HealthyIsCurrent
    BY DEF HealthyIsCurrent
  <2> DEFINE v    == Len(policies)
             rows == receipts[v]
             n    == Len(rows)
             e    == rows[n]
  <2>1. v \in 0..MaxPolicies /\ rows \in Seq(Evaluation)
    <3>1. policies \in Seq(Policy) /\ Len(policies) <= MaxPolicies
      BY DEF IInv, TypeOK
    <3>2. v \in 0..MaxPolicies
      BY <3>1, TimeAssumption
    <3> QED
      BY <3>2 DEF IInv, TypeOK
  <2>2. rows # <<>> /\ Last(rows).until > now /\ Last(rows).health = "healthy"
    BY DEF CurrentHealth, Shown
  <2> HIDE DEF v
  <2>3. n \in 1..Len(rows) /\ e = Last(rows) /\ e \in Evaluation
    BY <2>1, <2>2 DEF Last
  <2>4. PICK f : f = e
    OBVIOUS
  <2>5. Faithful(f, v)
    BY <2>1, <2>3, <2>4 DEF IInv, ReceiptInv
  <2>6. /\ f.run \in Run /\ f.at \in Nat /\ now \in Nat /\ now >= 1
        /\ f.until > now /\ f.health = "healthy"
    <3>1. f.run \in Run /\ f.at \in Nat
      BY <2>3, <2>4 DEF Evaluation
    <3>2. now \in Nat /\ now >= 1
      BY TimeAssumption DEF IInv, TypeOK
    <3> QED
      BY <2>2, <2>3, <2>4, <3>1, <3>2
  <2>7. /\ run[f.run].state = "observed" /\ run[f.run].policy = v
        /\ f.at <= now /\ now < f.at + StaleAfter
        /\ \A c \in Required : f.condition[c].value \notin {"none", "crit"}
    BY <2>5, <2>6, TimeAssumption DEF Faithful
  <2>8. \A j \in 1..Len(rows) : rows[j].at <= f.at /\ j <= n
    <3> TAKE j \in 1..Len(rows)
    <3>1. j <= n
      BY <2>1
    <3> QED
      BY <2>1, <2>3, <2>4, <3>1 DEF IInv, ReceiptInv
  <2> QED
    BY <2>3, <2>4, <2>7, <2>8 DEF HealthyIsCurrent, v
<1> QED
  BY HealthInvariant, <1>1, PTL

LEMMA FiniteReceipts == TypeOK => IsFiniteSet(Receipts)
<1> SUFFICES ASSUME TypeOK PROVE IsFiniteSet(Receipts)
  OBVIOUS
<1> DEFINE V == 0..MaxPolicies
           S == {Range(receipts[v]) : v \in V}
           g == [v \in V |-> Range(receipts[v])]
<1>1. IsFiniteSet(V)
  BY FS_Interval, TimeAssumption
<1>2. g \in Surjection(V, S)
  BY DEF Surjection
<1>3. IsFiniteSet(S)
  <2> HIDE DEF V, S, g
  <2> QED
    BY <1>1, <1>2, FS_Surjection
<1>4. ASSUME NEW T \in S PROVE IsFiniteSet(T)
  <2>1. PICK v \in V : T = Range(receipts[v])
    OBVIOUS
  <2>2. receipts[v] \in Seq(Evaluation)
    BY DEF TypeOK
  <2> DEFINE s == receipts[v]
             I == 1..Len(s)
  <2>3. DOMAIN s = I /\ Len(s) \in Nat
    BY <2>2
  <2>4. s \in [I -> T] /\ \A t \in T : \E i \in I : s[i] = t
    BY <2>1, <2>2, <2>3 DEF Range
  <2>5. s \in Surjection(I, T)
    BY <2>4 DEF Surjection
  <2>6. IsFiniteSet(I)
    BY <2>3, FS_Interval
  <2> HIDE DEF I, s
  <2> QED
    BY <2>5, <2>6, FS_Surjection
<1>5. Receipts = UNION S
  BY DEF Receipts
<1> HIDE DEF S
<1> QED
  BY <1>3, <1>4, <1>5, FS_UNION

LEMMA ReceiptOf ==
  ASSUME IInv, NEW e \in Receipts
  PROVE  /\ e.run \in Run /\ run[e.run].state \in Terminal
         /\ run[e.run].state # "observed" => e.health = "unknown"
<1>1. PICK v \in 0..MaxPolicies : e \in Range(receipts[v])
  BY DEF Receipts
<1>2. receipts[v] \in Seq(Evaluation)
  BY DEF IInv, TypeOK
<1>3. PICK i \in 1..Len(receipts[v]) : e = receipts[v][i]
  BY <1>1, <1>2 DEF Range
<1>4. e \in Evaluation
  BY <1>2, <1>3
<1>5. Faithful(receipts[v][i], v)
  BY DEF IInv, ReceiptInv
<1> QED
  BY <1>3, <1>4, <1>5 DEF Faithful, Evaluation

\* A green band has no slot without a run that saw the host, and a band with
\* slots nobody answered in time says how many.
THEOREM GreenBandsHaveNoHole == Spec => []GreenBandHidesNothing
<1>1. IInv => GreenBandHidesNothing
  <2> SUFFICES ASSUME IInv, NEW k \in 0..(MaxTime \div Width),
                      NEW band, band = Band(k * Width)
               PROVE  LET answered == {t \in band.expected :
                                         \E r \in Run : /\ run[r].slot = t /\ run[r].missed = 0
                                                        /\ run[r].trigger = "scheduled"
                                                        /\ run[r].state \in Terminal}
                      IN  /\ band.complete
                          /\ band.gap >= Cardinality(band.expected \ answered)
                          /\ now % Width # 0 => band.gap = Cardinality(band.expected \ answered)
                          /\ band.reason = "ok" =>
                               \A t \in band.expected :
                                 \E r \in Run : run[r].slot = t /\ run[r].state = "observed"
    BY DEF GreenBandHidesNothing
  <2>1. PICK start : start = k * Width
    OBVIOUS
  <2> DEFINE end      == IF start + Width < now THEN start + Width ELSE now
             expected == {t \in start..(end - 1) : t >= 1 /\ (t - 1) % Interval = 0}
             onTime   == {e \in Receipts : /\ Read(e)
                                           /\ run[e.run].trigger # "manual"
                                           /\ ~Late(run[e.run])
                                           /\ run[e.run].slot \in start..(end - 1)}
             slots    == {run[e.run].slot : e \in onTime}
             count(h) == Cardinality({e \in onTime : e.health = h})
             gap      == Cardinality(expected) - Cardinality(slots)
             reason   == CASE expected = {}           -> "no_schedule"
                           [] gap > 0                 -> "coverage_gap"
                           [] gap = 0 /\ expected # {} ->
                                IF count("unknown") > 0 THEN "unknown_evaluation"
                                ELSE IF count("unhealthy") > 0 THEN "critical"
                                ELSE IF count("degraded") > 0 THEN "warning" ELSE "ok"
             answered == {t \in expected :
                            \E r \in Run : /\ run[r].slot = t /\ run[r].missed = 0
                                           /\ run[r].trigger = "scheduled"
                                           /\ run[r].state \in Terminal}
  <2>2. Band(start) = [complete |-> slots \subseteq expected, expected |-> expected,
                       gap |-> gap, reason |-> reason]
    BY DEF Band, Expected, OnGrid
  <2>3. start \in Int /\ end \in Int
    <3>1. k \in Nat /\ Width \in Nat /\ now \in Nat
      BY TimeAssumption DEF IInv, TypeOK
    <3> QED
      BY <2>1, <3>1
  <2> HIDE DEF end
  <2>4. IsFiniteSet(expected)
    <3>1. end - 1 \in Int /\ IsFiniteSet(start..(end - 1))
      BY <2>3, FS_Interval
    <3>2. expected \in SUBSET (start..(end - 1))
      OBVIOUS
    <3> QED
      BY <3>1, <3>2, FS_Subset
  <2>5. IsFiniteSet(onTime)
    BY FiniteReceipts, FS_Subset DEF IInv
  <2>6. \A e \in onTime : /\ e.run \in Run /\ run[e.run].state \in Terminal
                          /\ run[e.run].state # "observed" => e.health = "unknown"
    BY ReceiptOf
  <2>7. slots \subseteq expected
    BY <2>6 DEF IInv, RunInv
  <2>8. slots \subseteq answered /\ (now % Width # 0 => slots = answered)
    <3>1. ASSUME NEW e \in onTime PROVE run[e.run].slot \in answered
      <4>1. run[e.run].slot \in expected
        BY <2>7
      <4>2. run[e.run].missed \in Nat /\ run[e.run].trigger \in {"manual", "scheduled", "catch_up"}
        BY <2>6 DEF IInv, TypeOK
      <4>3. run[e.run].missed = 0 /\ run[e.run].trigger = "scheduled"
        BY <4>2 DEF Late
      <4> QED
        BY <2>6, <4>1, <4>3
    <3>2. ASSUME now % Width # 0, NEW t \in answered PROVE t \in slots
      <4>1. PICK r \in Run : /\ run[r].slot = t /\ run[r].missed = 0
                             /\ run[r].trigger = "scheduled" /\ run[r].state \in Terminal
        OBVIOUS
      <4>2. run[r].policy \in 0..MaxPolicies
        <5>1. policies \in Seq(Policy) /\ Len(policies) <= MaxPolicies
          BY DEF IInv, TypeOK
        <5>2. run[r].policy \in Nat /\ run[r].policy <= Len(policies)
          BY DEF IInv, TypeOK, RunInv
        <5> QED
          BY <5>1, <5>2, TimeAssumption
      <4>3. PICK i \in 1..Len(receipts[run[r].policy]) : receipts[run[r].policy][i].run = r
        BY <4>1, <4>2 DEF IInv, ReceiptInv
      <4>4. receipts[run[r].policy] \in Seq(Evaluation)
        BY <4>2 DEF IInv, TypeOK
      <4> DEFINE e == receipts[run[r].policy][i]
      <4>5. e \in Receipts
        BY <4>2, <4>4 DEF Receipts, Range
      <4>6. run[r].trigger # "manual" /\ ~Late(run[r]) /\ t \in start..(end - 1)
        BY <4>1 DEF Late
      <4> HIDE DEF e
      <4>7. e.run = r
        BY <4>3 DEF e
      <4>8. e \in onTime
        BY <3>2, <4>1, <4>5, <4>6, <4>7 DEF Read
      <4> QED
        BY <4>1, <4>7, <4>8
    <3> QED
      BY <3>1, <3>2
  <2> HIDE DEF onTime, expected
  <2>9. gap = Cardinality(expected \ slots)
    <3>1. expected \cap slots = slots
      BY <2>7
    <3> HIDE DEF slots
    <3>2. Cardinality(expected \ slots) = Cardinality(expected) - Cardinality(slots)
      BY <2>4, <3>1, FS_Difference
    <3> QED
      BY <3>2
  <2>10. gap \in Nat /\ (gap = 0 => expected \subseteq slots)
    <3> DEFINE rest == expected \ slots
    <3>1. IsFiniteSet(rest)
      BY <2>4, FS_Difference
    <3>2. rest = {} => expected \subseteq slots
      OBVIOUS
    <3>3. gap = Cardinality(rest)
      BY <2>9
    <3> HIDE DEF rest, gap, slots
    <3>4. Cardinality(rest) \in Nat /\ (Cardinality(rest) = 0 => rest = {})
      BY <3>1, FS_CardinalityType, FS_EmptySet
    <3> QED
      BY <3>2, <3>3, <3>4
  <2>11. reason = "ok" => \A t \in expected :
                            \E r \in Run : run[r].slot = t /\ run[r].state = "observed"
    <3> SUFFICES ASSUME reason = "ok", NEW t \in expected
                 PROVE  \E r \in Run : run[r].slot = t /\ run[r].state = "observed"
      OBVIOUS
    <3> DEFINE hidden == {e \in onTime : e.health = "unknown"}
    <3> HIDE DEF gap, slots
    <3>1. gap = 0 /\ ~(count("unknown") > 0)
      BY <2>10
    <3>2. IsFiniteSet(hidden) /\ count("unknown") = Cardinality(hidden)
      BY <2>5, FS_Subset
    <3> HIDE DEF hidden
    <3>3. Cardinality(hidden) \in Nat /\ (Cardinality(hidden) = 0 => hidden = {})
      BY <3>2, FS_CardinalityType, FS_EmptySet
    <3>4. hidden = {}
      BY <3>1, <3>2, <3>3
    <3>5. t \in slots
      BY <2>10, <3>1
    <3>6. PICK e \in onTime : t = run[e.run].slot
      BY <3>5 DEF slots
    <3>7. e.health # "unknown"
      BY <3>4, <3>6 DEF hidden
    <3> QED
      BY <2>6, <3>6, <3>7
  <2> DEFINE complete == slots \subseteq expected
  <2> HIDE DEF reason, gap, slots
  <2>12. /\ Band(start).expected = expected /\ Band(start).gap = gap
         /\ Band(start).reason = reason
    BY <2>2
  <2>13. Band(start).complete
    <3>1. complete = TRUE
      BY <2>7
    <3> HIDE DEF complete
    <3>2. Band(start) = [complete |-> complete, expected |-> expected, gap |-> gap,
                         reason |-> reason]
      BY <2>2 DEF complete
    <3>3. Band(start).complete = complete
      BY <3>2
    <3> QED
      BY <3>1, <3>3
  <2> HIDE DEF answered
  <2>14. band = Band(start)
    BY <2>1
  <2>15. band.expected = expected /\ band.gap = gap /\ band.reason = reason
    BY <2>12, <2>14
  <2>16. answered = {t \in band.expected :
                       \E r \in Run : /\ run[r].slot = t /\ run[r].missed = 0
                                      /\ run[r].trigger = "scheduled"
                                      /\ run[r].state \in Terminal}
    BY <2>15 DEF answered
  <2>17. /\ band.gap >= Cardinality(band.expected \ answered)
         /\ now % Width # 0 => band.gap = Cardinality(band.expected \ answered)
    <3> DEFINE open == expected \ slots
               left == expected \ answered
    <3>1. left \subseteq open /\ (now % Width # 0 => left = open)
      BY <2>8
    <3>2. IsFiniteSet(open)
      BY <2>4, FS_Difference
    <3>3. band.gap = Cardinality(open)
      BY <2>9, <2>15
    <3> HIDE DEF open, left
    <3>4. IsFiniteSet(left) /\ Cardinality(left) <= Cardinality(open)
      BY <3>1, <3>2, FS_Subset
    <3>5. Cardinality(left) \in Nat /\ Cardinality(open) \in Nat
      BY <3>2, <3>4, FS_CardinalityType
    <3>6. band.gap >= Cardinality(left) /\ (now % Width # 0 => band.gap = Cardinality(left))
      BY <3>1, <3>3, <3>4, <3>5
    <3> QED
      BY <2>15, <3>6 DEF left
  <2>18. band.reason = "ok" => \A t \in band.expected :
                                 \E r \in Run : run[r].slot = t /\ run[r].state = "observed"
    BY <2>11, <2>15
  <2>19. band.complete
    BY <2>13, <2>14, Zenon
  <2> HIDE DEF expected, gap, reason
  <2> QED
    BY <2>16, <2>17, <2>18, <2>19
<1> QED
  BY HealthInvariant, <1>1, PTL

-----------------------------------------------------------------------------
(* Debounce                                                                  *)

\* h is what precedes the last of rows without a gap, newest first.
Continues(h, rows) ==
  /\ h \in Seq(Evaluation) /\ rows \in Seq(Evaluation)
  /\ Len(h) < Len(rows)
  /\ \A i \in 1..Len(h) : h[i] = rows[Len(rows) - i] /\ StillValid(rows, Len(rows) - i)
  /\ Len(h) = Len(rows) - 1 \/ ~StillValid(rows, Len(rows) - 1 - Len(h))

LEMMA HistoryContinues ==
  ASSUME IInv, NEW v \in 0..MaxPolicies, NEW at, NEW e \in Evaluation, e.at = at
  PROVE  Continues(History(v, at), Append(receipts[v], e))
<1> DEFINE s       == receipts[v]
           n       == Len(s)
           rows    == Append(s, e)
           R       == Reverse(s)
           next(i) == IF i = 1 THEN at ELSE R[i - 1].at
           first   == {i \in 1..Len(R) : R[i].until <= next(i)}
           h       == IF first = {} THEN R ELSE SubSeq(R, 1, Min(first) - 1)
<1>1. History(v, at) = h
  BY DEF History
<1>2. s \in Seq(Evaluation) /\ n \in Nat
  BY DEF IInv, TypeOK
<1> HIDE DEF s
<1>3. R \in Seq(Evaluation) /\ Len(R) = n /\ \A i \in 1..n : R[i] = s[n + 1 - i]
  BY <1>2 DEF Reverse
<1>4. rows \in Seq(Evaluation) /\ Len(rows) = n + 1 /\ rows[n + 1] = e
      /\ \A i \in 1..n : rows[i] = s[i]
  BY <1>2
<1> HIDE DEF R, rows
<1>5. ASSUME NEW i \in 1..n
      PROVE  /\ R[i] = rows[n + 1 - i] /\ next(i) = rows[n + 2 - i].at
             /\ R[i].until \in Nat /\ next(i) \in Nat
  <2>1. R[i] = rows[n + 1 - i]
    BY <1>2, <1>3, <1>4
  <2>2. next(i) = rows[n + 2 - i].at
    <3>1. CASE i = 1
      BY <1>2, <1>4, <3>1
    <3>2. CASE i # 1
      <4>1. i - 1 \in 1..n /\ n + 1 - (i - 1) = n + 2 - i /\ n + 2 - i \in 1..n
        BY <1>2, <3>2
      <4> QED
        BY <1>3, <1>4, <3>2, <4>1
    <3> QED
      BY <3>1, <3>2
  <2>3. n + 1 - i \in 1..Len(rows) /\ n + 2 - i \in 1..Len(rows)
    BY <1>2, <1>4
  <2>4. \A f \in Evaluation : f.until \in Nat /\ f.at \in Nat
    BY TimeAssumption DEF Evaluation
  <2> HIDE DEF next
  <2> QED
    BY <1>4, <2>1, <2>2, <2>3, <2>4
<1>6. ASSUME NEW i \in 1..n
      PROVE  i \in first <=> ~StillValid(rows, n + 1 - i)
  <2>1. (n + 1 - i) + 1 = n + 2 - i
    BY <1>2
  <2> HIDE DEF next
  <2> QED
    BY <1>3, <1>5, <2>1 DEF StillValid
<1> HIDE DEF next
<1>7. first \subseteq Nat /\ first \subseteq 1..n
  BY <1>2, <1>3
<1>8. CASE first = {}
  <2>1. h = R
    BY <1>8
  <2>2. \A i \in 1..n : n + 1 - i = Len(rows) - i
    BY <1>2, <1>4
  <2> HIDE DEF h, first
  <2>3. \A i \in 1..Len(h) : h[i] = rows[Len(rows) - i] /\ StillValid(rows, Len(rows) - i)
    BY <1>3, <1>5, <1>6, <1>8, <2>1, <2>2
  <2>4. h \in Seq(Evaluation) /\ Len(h) < Len(rows) /\ Len(h) = Len(rows) - 1
    BY <1>2, <1>3, <1>4, <2>1
  <2>5. Continues(h, rows)
    BY <1>4, <2>3, <2>4 DEF Continues
  <2> QED
    BY <1>1, <2>5 DEF rows, s
<1>9. CASE first # {}
  <2> DEFINE m == Min(first)
  <2>1. m \in first /\ \A y \in first : m <= y
    BY <1>7, <1>9, Least
  <2>2. h = SubSeq(R, 1, m - 1)
    BY <1>9
  <2> HIDE DEF m, h
  <2>3. m \in 1..n
    BY <1>7, <2>1
  <2>4. h \in Seq(Evaluation) /\ Len(h) = m - 1 /\ \A i \in 1..(m - 1) : h[i] = R[i]
    <3>1. m - 1 \in Nat /\ m - 1 <= Len(R) /\ 1 \in Nat
      BY <1>2, <1>3, <2>3
    <3> QED
      BY <1>3, <2>2, <3>1
  <2>5. \A i \in 1..(m - 1) : i \in 1..n /\ i \notin first /\ n + 1 - i = Len(rows) - i
    BY <1>2, <1>4, <2>1, <2>3
  <2> HIDE DEF first
  <2>6. \A i \in 1..Len(h) : h[i] = rows[Len(rows) - i] /\ StillValid(rows, Len(rows) - i)
    BY <1>5, <1>6, <2>4, <2>5
  <2>7. ~StillValid(rows, n + 1 - m)
    BY <1>6, <2>1, <2>3
  <2>8. n + 1 - m = Len(rows) - 1 - Len(h) /\ Len(h) < Len(rows)
    BY <1>2, <1>4, <2>3, <2>4
  <2>9. Continues(h, rows)
    BY <1>4, <2>4, <2>6, <2>7, <2>8 DEF Continues
  <2> QED
    BY <1>1, <2>9 DEF rows, s
<1> QED
  BY <1>8, <1>9

LEMMA NewestBefore ==
  ASSUME NEW h, NEW rows, NEW c, Continues(h, rows)
  PROVE  Before(rows, c) = (IF h # <<>> THEN h[1].condition[c].status ELSE "unknown")
<1>1. /\ h \in Seq(Evaluation) /\ Len(h) \in Nat /\ Len(rows) \in Nat /\ Len(h) < Len(rows)
      /\ h # <<>> <=> Len(h) > 0
  BY DEF Continues
<1>2. CASE h # <<>>
  <2>1. 1 \in 1..Len(h) /\ Len(rows) > 1
    BY <1>1, <1>2
  <2>2. h[1] = rows[Len(rows) - 1] /\ StillValid(rows, Len(rows) - 1)
    BY <2>1 DEF Continues
  <2> QED
    BY <1>2, <2>1, <2>2 DEF Before
<1>3. CASE h = <<>>
  <2>1. Len(h) = 0 /\ Len(rows) - 1 - 0 = Len(rows) - 1
    BY <1>1, <1>3
  <2>2. Len(rows) = 1 \/ ~StillValid(rows, Len(rows) - 1)
    BY <1>1, <2>1 DEF Continues
  <2>3. Len(rows) = 1 => ~(Len(rows) > 1)
    OBVIOUS
  <2> QED
    BY <1>3, <2>2, <2>3, Zenon DEF Before
<1> QED
  BY <1>2, <1>3

\* A streak of a length is that many receipts, with the present one, in a row.
LEMMA StreakIsSuccessive ==
  ASSUME NEW h, NEW rows, NEW c, NEW holding, NEW q \in Nat \ {0}, Continues(h, rows),
         Streak(h, c, holding) >= q
  PROVE  /\ Len(rows) >= q
         /\ \A j \in (Len(rows) - q + 1)..Len(rows) : j < Len(rows) =>
              /\ StillValid(rows, j)
              /\ \E i \in 1..Len(h) : /\ i \in holding /\ rows[j] = h[i]
                                      /\ h[i].condition[c].candidate # "unknown"
<1> DEFINE breaks == {i \in 1..Len(h) : i \notin holding \/ h[i].condition[c].candidate = "unknown"}
           l      == IF breaks = {} THEN Len(h) ELSE Min(breaks) - 1
<1>1. Len(h) \in Nat /\ Len(rows) \in Nat /\ Len(h) < Len(rows)
  BY DEF Continues
<1>2. 1 + l >= q
  BY DEF Streak
<1>3. l \in 0..Len(h) /\ \A i \in 1..l : i \in 1..Len(h) /\ i \notin breaks
  <2>1. CASE breaks = {}
    BY <1>1, <2>1
  <2>2. CASE breaks # {}
    <3>1. Min(breaks) \in breaks /\ \A y \in breaks : Min(breaks) <= y
      <4>1. breaks \subseteq Nat
        BY <1>1
      <4> HIDE DEF breaks
      <4> QED
        BY <2>2, <4>1, Least
    <3>2. PICK m : m = Min(breaks)
      OBVIOUS
    <3>3. breaks \subseteq 1..Len(h) /\ l = m - 1
      BY <2>2, <3>2
    <3> HIDE DEF breaks, l
    <3>4. m \in 1..Len(h) /\ \A y \in breaks : m <= y
      BY <3>1, <3>2, <3>3
    <3>5. l \in 0..Len(h)
      BY <1>1, <3>3, <3>4
    <3>6. ASSUME NEW i \in 1..l PROVE i \in 1..Len(h) /\ i \notin breaks
      BY <1>1, <3>3, <3>4
    <3> QED
      BY <3>5, <3>6
  <2> QED
    BY <2>1, <2>2
<1> HIDE DEF l
<1>4. Len(rows) >= q
  BY <1>1, <1>2, <1>3
<1>5. ASSUME NEW j \in (Len(rows) - q + 1)..Len(rows), j < Len(rows)
      PROVE  /\ StillValid(rows, j)
             /\ \E i \in 1..Len(h) : /\ i \in holding /\ rows[j] = h[i]
                                     /\ h[i].condition[c].candidate # "unknown"
  <2> DEFINE i == Len(rows) - j
  <2>1. i \in 1..l /\ Len(rows) - i = j
    BY <1>1, <1>2, <1>3, <1>5
  <2> HIDE DEF i
  <2>2. i \in 1..Len(h) /\ i \notin breaks
    BY <1>3, <2>1
  <2>3. h[i] = rows[j] /\ StillValid(rows, j)
    BY <2>1, <2>2 DEF Continues
  <2> QED
    BY <2>2, <2>3
<1> QED
  BY <1>4, <1>5

\* What a status that changes severity rests on.
LEMMA StatusMoves ==
  ASSUME NEW p \in Policy, NEW c \in Condition, NEW reading \in Reading, NEW missed \in Nat,
         NEW h, NEW rows, Continues(h, rows),
         NEW status, status = Debounced(p, c, reading, h, missed)
  PROVE  /\ Severity(status) > Severity(Before(rows, c)) =>
              /\ Candidate(p, c, reading) # "unknown" /\ missed = 0
              /\ Severity(Candidate(p, c, reading)) >= Severity(status)
              /\ Streak(h, c, Calling(h, c, Severity(status))) >= p.enter
         /\ Severity(status) < Severity(Before(rows, c)) /\ Candidate(p, c, reading) # "unknown"
              /\ missed = 0 =>
              /\ status = "ok" /\ reading.value = "low"
              /\ Streak(h, c, Recovering(h, c)) >= p.recover
<1> DEFINE candidate == Candidate(p, c, reading)
           before    == h[1].condition[c].status
           normal    == Recovering(h, c)
           alarmed   == h # <<>> /\ before \in {"warning", "critical"}
           held      == Held(p, c, reading, h)
           raised    == Raised(p, c, candidate, h)
<1>1. candidate \in Status
  BY StatusTypes
<1>2. Severity(Before(rows, c)) = (IF alarmed THEN Severity(before) ELSE 0)
  BY NewestBefore DEF Severity
<1>3. status = CASE candidate = "unknown" -> "unknown"
                 [] candidate # "unknown" /\ missed > 0 -> IF candidate = "ok" THEN "ok" ELSE "unknown"
                 [] OTHER -> IF alarmed THEN held
                             ELSE IF candidate = "ok" THEN "ok" ELSE raised
  BY DEF Debounced
<1>4. alarmed => \/ held = "ok" /\ reading.value = "low" /\ Streak(h, c, normal) >= p.recover
                 \/ held = "critical" /\ candidate = "critical"
                      /\ Streak(h, c, Calling(h, c, 2)) >= p.enter
                 \/ held = before
  BY DEF Held, Recovered, ValueRecovered
<1>5. \/ raised = candidate /\ Streak(h, c, Calling(h, c, Severity(candidate))) >= p.enter
      \/ raised = "warning" /\ Streak(h, c, Calling(h, c, 1)) >= p.enter
      \/ raised = "unknown"
  BY DEF Raised
<1>6. /\ Severity("ok") = 0 /\ Severity("unknown") = 0
      /\ Severity("warning") = 1 /\ Severity("critical") = 2
      /\ Severity(status) \in {0, 1, 2} /\ Severity(before) \in {0, 1, 2}
  BY DEF Severity
<1>7. candidate = "unknown" \/ missed > 0 => Severity(status) = 0
  BY <1>3, <1>6
<1>8. candidate # "unknown" /\ ~(missed > 0) =>
        status = (IF alarmed THEN held ELSE IF candidate = "ok" THEN "ok" ELSE raised)
  BY <1>3
<1> HIDE DEF candidate, before, normal, held, raised
<1>9. ASSUME Severity(status) > Severity(Before(rows, c))
      PROVE  /\ candidate # "unknown" /\ missed = 0
             /\ Severity(candidate) >= Severity(status)
             /\ Streak(h, c, Calling(h, c, Severity(status))) >= p.enter
  <2>1. alarmed => Severity(before) \in {1, 2}
    BY <1>6
  <2>2. Severity(status) > 0 /\ candidate # "unknown" /\ ~(missed > 0)
    BY <1>2, <1>6, <1>7, <1>9, <2>1
  <2>3. missed = 0
    BY <2>2
  <2>4. CASE alarmed
    <3>1. status = held /\ Severity(status) > Severity(before)
      BY <1>2, <1>8, <1>9, <2>2, <2>4
    <3>2. status = "critical" /\ candidate = "critical" /\ Streak(h, c, Calling(h, c, 2)) >= p.enter
      BY <1>4, <1>6, <2>1, <2>2, <2>4, <3>1
    <3> QED
      BY <1>6, <2>3, <3>2
  <2>5. CASE ~alarmed
    <3>1. status = (IF candidate = "ok" THEN "ok" ELSE raised)
      BY <1>8, <2>2, <2>5
    <3>2. candidate # "ok" /\ status = raised
      BY <1>6, <2>2, <3>1
    <3>3. candidate \in {"warning", "critical"}
      BY <1>1, <2>2, <3>2 DEF Status
    <3>4. Severity(candidate) \in {1, 2}
      BY <1>6, <3>3
    <3> QED
      BY <1>5, <1>6, <2>2, <2>3, <3>2, <3>4
  <2> QED
    BY <2>4, <2>5
<1>10. ASSUME Severity(status) < Severity(Before(rows, c)), candidate # "unknown", missed = 0
       PROVE  status = "ok" /\ reading.value = "low" /\ Streak(h, c, normal) >= p.recover
  <2>1. alarmed
    BY <1>2, <1>6, <1>10
  <2>2. status = held /\ Severity(status) < Severity(before)
    BY <1>2, <1>8, <1>10, <2>1
  <2>3. Severity(before) \in {1, 2}
    BY <1>6, <2>1
  <2> QED
    BY <1>4, <1>6, <2>1, <2>2, <2>3
<1> QED
  BY <1>9, <1>10 DEF candidate, normal

LEMMA Received ==
  ASSUME NEW r \in Run, NEW row, NEW end \in Terminal, NEW at \in 1..MaxTime,
         NEW sample \in [Condition -> Reading], Evaluate(r, row, end, at, sample)
  PROVE  \E g \in Evaluation : /\ g = Receipt(r, row, end, at, sample)
                               /\ g.run = r /\ g.at = at /\ Record(row.policy, g)
<1>0. PICK e : e = Receipt(r, row, end, at, sample)
  OBVIOUS
<1>1. /\ e \in Evaluation /\ e.run = r /\ e.at = at
      /\ e.until = (IF end = "observed" THEN at + StaleAfter ELSE 0)
      /\ end # "observed" => e.health = "unknown"
      /\ e.health = "healthy" =>
           \A c \in Required : e.condition[c].value \notin {"none", "crit"}
  BY <1>0, ReceiptFacts
<1>2. Record(row.policy, e)
  BY <1>0 DEF Evaluate, Pinned
<1> QED
  BY <1>0, <1>1, <1>2

LEMMA AlarmStep ==
  ASSUME IInv, NEW r \in Run, NEW row, NEW end \in Terminal, NEW at \in 1..MaxTime,
         NEW sample \in [Condition -> Reading],
         row.policy \in 0..MaxPolicies, row.missed \in Nat,
         end = "observed" => row.missed = run[r].missed,
         Evaluate(r, row, end, at, sample),
         NEW v \in 1..Len(policies), policies[v].enabled,
         NEW e \in Range(receipts'[v]) \ Range(receipts[v]), NEW c \in Condition
  PROVE  LET rows   == Append(receipts[v], e)
             was    == Severity(Before(rows, c))
             is     == Severity(e.condition[c].status)
             Calls(f) == f.condition[c].candidate # "unknown"
                           /\ Severity(f.condition[c].candidate) >= is
             Normal(f) == f.condition[c].candidate # "unknown"
                           /\ ValueRecovered(f.condition[c].value)
         IN  /\ is > was => Successive(rows, policies[v].enter, Calls) /\ run[e.run].missed = 0
             /\ is < was /\ e.condition[c].candidate # "unknown" /\ run[e.run].missed = 0 =>
                  /\ e.condition[c].status = "ok"
                  /\ Successive(rows, policies[v].recover, Normal)
<1> DEFINE rows      == Append(receipts[v], e)
           h         == History(v, at)
           p         == policies[v]
           seen      == IF end = "observed" THEN sample ELSE Unseen
           candidate == Candidate(p, c, seen[c])
           status    == Debounced(p, c, seen[c], h, row.missed)
           normal    == Recovering(h, c)
<1>1. /\ v \in 0..MaxPolicies /\ v > 0 /\ p \in Policy
      /\ p.enter \in Nat \ {0} /\ p.recover \in Nat \ {0}
  <2>1. policies \in Seq(Policy) /\ Len(policies) <= MaxPolicies
    BY DEF IInv, TypeOK
  <2>2. p \in Policy
    BY <2>1
  <2>3. p.enter \in Nat \ {0} /\ p.recover \in Nat \ {0}
    BY <2>2, ConfigAssumption DEF Policy, Valid
  <2> QED
    BY <2>1, <2>2, <2>3, TimeAssumption
<1> HIDE DEF h, candidate, status, normal
<1>2. PICK g \in Evaluation : /\ g = Receipt(r, row, end, at, sample)
                              /\ g.run = r /\ g.at = at /\ Record(row.policy, g)
  BY Received
<1>3. g \in Evaluation /\ g.run = r /\ g.at = at
  BY <1>2
<1>4. e = g /\ v = row.policy
  <2>1. Record(row.policy, g)
    BY <1>2
  <2> DEFINE s == receipts[row.policy]
             t == receipts'[row.policy]
  <2>2. \A w \in 0..MaxPolicies : w # row.policy => receipts'[w] = receipts[w]
    BY <1>3, <2>1, Recorded
  <2>3. v = row.policy
    BY <1>1, <2>2
  <2>4. PICK i \in 1..Len(t) :
              /\ t[i] = g
              /\ \A j \in 1..(i - 1) : /\ j \in 1..Len(s)
                                       /\ t[j] = s[j] /\ s[j].at <= g.at
              /\ \A j \in (i + 1)..Len(t) : /\ j - 1 \in 1..Len(s)
                                            /\ t[j] = s[j - 1] /\ s[j - 1].at >= g.at
    BY <1>3, <2>1, Recorded
  <2>5. receipts' \in [0..MaxPolicies -> Seq(Evaluation)]
    BY <1>3, <2>1, Recorded
  <2>6. s \in Seq(Evaluation) /\ t \in Seq(Evaluation)
    BY <2>5 DEF IInv, TypeOK
  <2> HIDE DEF s, t
  <2>7. PICK j \in 1..Len(t) : e = t[j]
    BY <2>3, <2>6 DEF Range, t
  <2>8. \A k \in 1..Len(s) : s[k] # e
    BY <2>3, <2>6 DEF Range, s
  <2>9. i \in Nat /\ j \in Nat /\ Len(t) \in Nat
    BY <2>6
  <2>10. ~(j < i) /\ ~(j > i)
    BY <2>4, <2>7, <2>8, <2>9
  <2>11. j = i
    BY <2>9, <2>10
  <2> QED
    BY <2>3, <2>4, <2>7, <2>11
<1>5. seen \in [Condition -> Reading]
  BY DEF Unseen, Reading, Value, Second
<1> HIDE DEF seen
<1>6. /\ e.condition[c].candidate = candidate /\ e.condition[c].status = status
      /\ e.condition[c].value = (IF candidate = "unknown" THEN "none" ELSE seen[c].value)
  <2>1. e.condition = Conditions(policies[v], seen, h, row.missed)
    BY <1>1, <1>2, <1>4 DEF Receipt, Pinned, seen, h
  <2> QED
    BY <2>1 DEF Conditions, candidate, status
<1>7. Continues(h, rows) /\ Len(rows) \in Nat /\ rows[Len(rows)] = e
  <2>1. receipts[v] \in Seq(Evaluation)
    BY <1>1 DEF IInv, TypeOK
  <2>2. Len(rows) \in Nat /\ rows[Len(rows)] = e
    BY <2>1
  <2> QED
    BY <1>1, <1>3, <1>4, <2>2, HistoryContinues DEF h
<1>8. candidate # "unknown" => row.missed = run[e.run].missed
  <2>1. end # "observed" => seen[c].value = "none"
    BY DEF seen, Unseen
  <2>2. seen[c] \in Reading
    BY <1>5
  <2>3. seen[c].value = "none" => candidate = "unknown"
    BY <2>2, OkWasSeen DEF candidate
  <2> QED
    BY <1>3, <1>4, <2>1, <2>3
<1>9. /\ Severity(status) > Severity(Before(rows, c)) =>
           /\ candidate # "unknown" /\ row.missed = 0
           /\ Severity(candidate) >= Severity(status)
           /\ Streak(h, c, Calling(h, c, Severity(status))) >= p.enter
      /\ Severity(status) < Severity(Before(rows, c)) /\ candidate # "unknown" /\ row.missed = 0 =>
           /\ status = "ok" /\ seen[c].value = "low"
           /\ Streak(h, c, normal) >= p.recover
  <2>1. seen[c] \in Reading
    BY <1>5
  <2>2. status = Debounced(p, c, seen[c], h, row.missed)
    BY DEF status
  <2> HIDE DEF rows, p
  <2>3. Severity(status) > Severity(Before(rows, c)) =>
           /\ candidate # "unknown" /\ row.missed = 0
           /\ Severity(candidate) >= Severity(status)
           /\ Streak(h, c, Calling(h, c, Severity(status))) >= p.enter
    BY <1>1, <1>7, <2>1, <2>2, StatusMoves DEF candidate
  <2>4. Severity(status) < Severity(Before(rows, c)) /\ candidate # "unknown" /\ row.missed = 0 =>
           /\ status = "ok" /\ seen[c].value = "low"
           /\ Streak(h, c, normal) >= p.recover
    BY <1>1, <1>7, <2>1, <2>2, StatusMoves DEF candidate, normal
  <2> QED
    BY <2>3, <2>4
<1> HIDE DEF rows, p
<1>10. ASSUME Severity(status) > Severity(Before(rows, c))
       PROVE  /\ run[e.run].missed = 0 /\ Len(rows) >= p.enter
              /\ \A j \in (Len(rows) - p.enter + 1)..Len(rows) :
                   /\ rows[j].condition[c].candidate # "unknown"
                   /\ Severity(rows[j].condition[c].candidate) >= Severity(status)
                   /\ j < Len(rows) => StillValid(rows, j)
  <2> DEFINE holding == Calling(h, c, Severity(status))
  <2>1. Streak(h, c, holding) >= p.enter
    BY <1>9, <1>10
  <2>2. holding = {i \in 1..Len(h) : Severity(h[i].condition[c].candidate) >= Severity(status)}
    BY DEF Calling
  <2> HIDE DEF holding
  <2>3. /\ Len(rows) >= p.enter
        /\ \A j \in (Len(rows) - p.enter + 1)..Len(rows) : j < Len(rows) =>
             /\ StillValid(rows, j)
             /\ \E i \in 1..Len(h) : /\ i \in holding /\ rows[j] = h[i]
                                     /\ h[i].condition[c].candidate # "unknown"
    <3>1. p.enter \in Nat \ {0} /\ Continues(h, rows)
      BY <1>1, <1>7
    <3> QED
      BY <2>1, <3>1, StreakIsSuccessive
  <2>4. ASSUME NEW j \in (Len(rows) - p.enter + 1)..Len(rows)
        PROVE  /\ rows[j].condition[c].candidate # "unknown"
               /\ Severity(rows[j].condition[c].candidate) >= Severity(status)
               /\ j < Len(rows) => StillValid(rows, j)
    <3>1. CASE j < Len(rows)
      BY <2>2, <2>3, <3>1
    <3>2. CASE ~(j < Len(rows))
      <4>1. j = Len(rows)
        BY <1>1, <1>7, <3>2
      <4> QED
        BY <1>6, <1>7, <1>9, <1>10, <4>1
    <3> QED
      BY <3>1, <3>2
  <2>5. run[e.run].missed = 0
    BY <1>8, <1>9, <1>10
  <2> QED
    BY <2>3, <2>4, <2>5
<1>11. ASSUME Severity(status) < Severity(Before(rows, c)), candidate # "unknown", row.missed = 0
       PROVE  /\ status = "ok" /\ Len(rows) >= p.recover
              /\ \A j \in (Len(rows) - p.recover + 1)..Len(rows) :
                   /\ rows[j].condition[c].candidate # "unknown"
                   /\ ValueRecovered(rows[j].condition[c].value)
                   /\ j < Len(rows) => StillValid(rows, j)
  <2>1. Streak(h, c, normal) >= p.recover
    BY <1>9, <1>11
  <2>2. normal = {i \in 1..Len(h) : ValueRecovered(h[i].condition[c].value)}
    BY DEF normal, Recovering
  <2>3. /\ Len(rows) >= p.recover
        /\ \A j \in (Len(rows) - p.recover + 1)..Len(rows) : j < Len(rows) =>
             /\ StillValid(rows, j)
             /\ \E i \in 1..Len(h) : /\ i \in normal /\ rows[j] = h[i]
                                     /\ h[i].condition[c].candidate # "unknown"
    <3>1. p.recover \in Nat \ {0} /\ Continues(h, rows)
      BY <1>1, <1>7
    <3> QED
      BY <2>1, <3>1, StreakIsSuccessive
  <2>4. ASSUME NEW j \in (Len(rows) - p.recover + 1)..Len(rows)
        PROVE  /\ rows[j].condition[c].candidate # "unknown"
               /\ ValueRecovered(rows[j].condition[c].value)
               /\ j < Len(rows) => StillValid(rows, j)
    <3>1. CASE j < Len(rows)
      BY <2>2, <2>3, <3>1
    <3>2. CASE ~(j < Len(rows))
      <4>1. j = Len(rows)
        BY <1>1, <1>7, <3>2
      <4> QED
        BY <1>6, <1>7, <1>9, <1>11, <4>1 DEF ValueRecovered
    <3> QED
      BY <3>1, <3>2
  <2> QED
    BY <1>9, <1>11, <2>3, <2>4
<1> QED
  BY <1>6, <1>8, <1>10, <1>11 DEF rows, p, Successive

\* An alarm is raised, made worse and released by as many successive
\* observations as its policy asks for, whatever the order of the receipts.
THEOREM AlarmsFollowTheirPolicy == Spec => AlarmsAreDebounced
<1> DEFINE Alarms == \A v \in 1..Len(policies) : policies[v].enabled =>
             \A e \in Range(receipts'[v]) \ Range(receipts[v]), c \in Condition :
               LET rows   == Append(receipts[v], e)
                   was    == Severity(Before(rows, c))
                   is     == Severity(e.condition[c].status)
                   Calls(f) == f.condition[c].candidate # "unknown"
                                 /\ Severity(f.condition[c].candidate) >= is
                   Normal(f) == f.condition[c].candidate # "unknown"
                                 /\ ValueRecovered(f.condition[c].value)
               IN  /\ is > was => Successive(rows, policies[v].enter, Calls) /\ run[e.run].missed = 0
                   /\ is < was /\ e.condition[c].candidate # "unknown" /\ run[e.run].missed = 0 =>
                        /\ e.condition[c].status = "ok"
                        /\ Successive(rows, policies[v].recover, Normal)
<1>1. ASSUME receipts' = receipts PROVE Alarms
  BY <1>1
<1>2. ASSUME IInv, NEW r \in Run, NEW row, NEW end \in Terminal, NEW at \in 1..MaxTime,
             NEW sample \in [Condition -> Reading],
             row.policy \in 0..MaxPolicies, row.missed \in Nat,
             end = "observed" => row.missed = run[r].missed,
             Evaluate(r, row, end, at, sample)
      PROVE  Alarms
  BY <1>2, AlarmStep
<1> HIDE DEF Alarms
<1>3. Unseen \in [Condition -> Reading]
  BY DEF Unseen, Reading, Value, Second
<1>4. ASSUME IInv
      PROVE  /\ Len(policies) \in 0..MaxPolicies
             /\ \A r \in Run : run[r].policy \in 0..MaxPolicies /\ run[r].missed \in Nat
  <2>1. policies \in Seq(Policy) /\ Len(policies) <= MaxPolicies
    BY <1>4 DEF IInv, TypeOK
  <2>2. \A r \in Run : run[r].policy \in Nat /\ run[r].missed \in Nat /\ run[r].policy <= Len(policies)
    BY <1>4 DEF IInv, TypeOK, RunInv
  <2> QED
    BY <2>1, <2>2, TimeAssumption
<1>5. ASSUME IInv, Next PROVE Alarms
  <2>1. CASE Clock
    BY <1>1, <2>1 DEF Clock
  <2>2. ASSUME NEW config \in Config, PutHealthPolicy(config) PROVE Alarms
    BY <1>1, <2>2 DEF PutHealthPolicy
  <2>3. ASSUME NEW r \in Run, CreateMonitorRun(r) PROVE Alarms
    BY <1>1, <2>3 DEF CreateMonitorRun
  <2>4. ASSUME NEW r \in Run, Recover(r) PROVE Alarms
    <3>1. "interrupted" \in Terminal /\ now \in 1..MaxTime
      BY <1>5 DEF Terminal, IInv, TypeOK
    <3>2. Evaluate(r, run[r], "interrupted", now, Unseen)
      BY <2>4 DEF Recover, RecoverReceipt
    <3> QED
      BY <1>2, <1>3, <1>4, <1>5, <3>1, <3>2
  <2>5. ASSUME NEW r \in Run, NEW tick \in 1..MaxTime, NEW discovery \in BOOLEAN,
               Claim(r, tick, discovery)
        PROVE  Alarms
    <3> DEFINE skip == Occupied \/ discovery
               row  == [state |-> IF skip THEN "skipped_overlap" ELSE "active",
                        trigger |-> IF Missed(tick) > 0 THEN "catch_up" ELSE "scheduled",
                        slot |-> due + Missed(tick) * Interval, missed |-> Missed(tick),
                        policy |-> Len(policies), admitted |-> IF skip THEN 0 ELSE now]
    <3>1. IF skip THEN SkipReceipt(r, row, tick) ELSE UNCHANGED receipts
      BY <2>5 DEF Claim
    <3>2. row.policy \in 0..MaxPolicies /\ row.missed \in Nat
      <4>1. due <= tick
        BY <2>5 DEF Claim
      <4> QED
        BY <1>4, <1>5, <4>1, ClaimedSlot
    <3>3. "skipped_overlap" \in Terminal
      BY DEF Terminal
    <3> HIDE DEF row, skip
    <3>4. CASE skip
      <4>1. Evaluate(r, row, "skipped_overlap", tick, Unseen)
        BY <3>1, <3>4 DEF SkipReceipt
      <4> QED
        BY <1>2, <1>3, <1>5, <3>2, <3>3, <4>1
    <3>5. CASE ~skip
      BY <1>1, <3>1, <3>5
    <3> QED
      BY <3>4, <3>5
  <2>6. ASSUME NEW r \in Run, NEW at \in 1..MaxTime, NEW end \in Terminal,
               NEW sample \in [Condition -> Reading], Finish(r, end, at, sample)
        PROVE  Alarms
    <3>1. Evaluate(r, run[r], end, at, sample)
      BY <2>6 DEF Finish
    <3> QED
      BY <1>2, <1>4, <1>5, <3>1
  <2>7. ASSUME NEW r \in Run, NEW at \in 1..MaxTime, NEW sample \in Sample,
               Finish(r, "observed", at, sample)
        PROVE  Alarms
    BY <2>6, <2>7, SampleAssumption DEF Terminal
  <2>8. ASSUME NEW r \in Run, NEW at \in 1..MaxTime, NEW end \in {"failed", "interrupted"},
               Finish(r, end, at, Unseen)
        PROVE  Alarms
    BY <1>3, <2>6, <2>8 DEF Terminal
  <2> QED
    BY <1>5, <2>1, <2>2, <2>3, <2>4, <2>5, <2>7, <2>8 DEF Next
<1>6. IInv /\ [Next]_vars => [Alarms]_vars
  BY <1>5
<1>7. Spec => [][Alarms]_vars
  BY HealthInvariant, <1>6, PTL DEF Spec
<1> QED
  BY <1>7 DEF Alarms, AlarmsAreDebounced

=============================================================================
