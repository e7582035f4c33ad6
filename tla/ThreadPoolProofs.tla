-------------------------- MODULE ThreadPoolProofs --------------------------
(***************************************************************************)
(* What holds of the thread pool for any number of workers, clients and    *)
(* jobs and any attributes.                                                *)
(***************************************************************************)
EXTENDS ThreadPool, FiniteSetTheorems, SequenceTheorems, WellFoundedInduction, TLAPS

\* The sets of threads the counters of the pool stand for.
Alive    == {w \in Worker : wpc[w] \notin {"none", "starting"}}
Starting == {w \in Worker : wpc[w] = "starting"}
Working  == {w \in Worker : wjob[w] # NoJob}
Lasting  == {w \in Worker : IsPersistent(wjob[w])}

\* A job the pool holds was created, a persistent one is only in the persistent
\* slot or in a worker, and a worker has a job only while it runs it or is about
\* to free it.
JobsKnown ==
  /\ \A p \in Priority : \A i \in DOMAIN jobQ[p] :
       jobQ[p][i] <= nextJob /\ prio[jobQ[p][i]] # "persistent"
  /\ persistentJob <= nextJob
  /\ persistentJob # NoJob => prio[persistentJob] = "persistent"
  /\ \A w \in Worker : /\ wjob[w] <= nextJob
                       /\ wjob[w] # NoJob => wpc[w] \in {"top", "running"}

\* A call that assigns a job id on its way out has a job, and a call of ThreadPoolAdd
\* blocks only in CreateWorker.
CallsTyped ==
  /\ call \in [Thread -> Call]
  /\ \A t \in Thread : /\ call[t].op = "add" \/ call[t].step = "pickup" => call[t].job \in Job
                       /\ call[t].step = "start" => call[t].op = "init"
                       /\ call[t].op = "add" => call[t].step \in {"cwPending", "cwStarted"}

IInv == TypeOK /\ CountersAgree /\ JobsKnown /\ CallsTyped

-----------------------------------------------------------------------------
(* Queues *)

\* The jobs of a queue that starve are a prefix of it.
LEMMA OverduePrefixType ==
  ASSUME NEW q \in Seq(Job), NEW limit
  PROVE  OverduePrefix(q, limit) \in 0 .. Len(q)
<1> DEFINE S == {i \in DOMAIN q : \A h \in 1 .. i : Waited(q[h], limit)}
<1>1. Len(q) \in Nat /\ DOMAIN q = 1 .. Len(q)
  BY LenProperties
<1>2. IsFiniteSet(1 .. Len(q)) /\ Cardinality(1 .. Len(q)) = Len(q)
  <2>1. IsFiniteSet(1 .. Len(q))
        /\ Cardinality(1 .. Len(q)) = IF 1 > Len(q) THEN 0 ELSE Len(q) - 1 + 1
    BY <1>1, FS_Interval
  <2> QED BY <2>1, <1>1
<1>3. S \in SUBSET (1 .. Len(q))
  BY <1>1
<1>4. Cardinality(S) \in Nat /\ Cardinality(S) <= Len(q)
  BY <1>2, <1>3, FS_Subset, FS_CardinalityType
<1> QED BY <1>1, <1>4 DEF OverduePrefix

\* A set of numbers has a least one.
LEMMA LeastNumber ==
  ASSUME NEW S, S \subseteq Nat, S # {}
  PROVE  \E x \in S : \A y \in S : x <= y
<1> DEFINE R == {ss \in Nat \X Nat : ss[1] < ss[2]}
<1>1. IsWellFoundedOn(R, Nat)
  BY NatLessThanWellFounded DEF OpToRel
<1> HIDE DEF R
<1>2. PICK x \in S : \A y \in S : ~ (<<y, x>> \in R)
  BY <1>1, WFMin
<1>3. ASSUME NEW y \in S PROVE x <= y
  <2>1. y < x => <<y, x>> \in R
    BY DEF R
  <2> QED BY <1>2, <2>1
<1> QED BY <1>3

\* The jobs counted by OverduePrefix are those in front of the first that has not waited.
LEMMA OverduePrefixEnd ==
  ASSUME NEW q \in Seq(Job), NEW limit
  PROVE  /\ \A i \in 1 .. OverduePrefix(q, limit) : Waited(q[i], limit)
         /\ OverduePrefix(q, limit) < Len(q) => ~Waited(q[OverduePrefix(q, limit) + 1], limit)
<1> DEFINE S == {i \in DOMAIN q : \A h \in 1 .. i : Waited(q[h], limit)}
           T == {n \in 1 .. Len(q) + 1 : n <= Len(q) => ~Waited(q[n], limit)}
<1>1. Len(q) \in Nat /\ DOMAIN q = 1 .. Len(q)
  BY LenProperties
<1>2. Len(q) + 1 \in T
  BY <1>1
<1>3. PICK n \in T : \A m \in T : n <= m
  <2>1. T \subseteq Nat /\ T # {}
    BY <1>1, <1>2
  <2> HIDE DEF T
  <2> QED BY <2>1, LeastNumber
<1>4. \A i \in 1 .. n - 1 : Waited(q[i], limit)
  BY <1>1, <1>3
<1>5. S = 1 .. n - 1
  <2>1. ASSUME NEW i \in S PROVE i \in 1 .. n - 1
    <3>1. i \in 1 .. Len(q) /\ \A h \in 1 .. i : Waited(q[h], limit)
      BY <1>1
    <3> HIDE DEF S
    <3> QED BY <1>1, <1>3, <3>1
  <2>2. ASSUME NEW i \in 1 .. n - 1 PROVE i \in S
    BY <1>1, <1>3, <1>4
  <2> QED BY <2>1, <2>2
<1>6. Cardinality(1 .. n - 1) = n - 1
  <2>1. Cardinality(1 .. n - 1) = IF 1 > n - 1 THEN 0 ELSE n - 1 - 1 + 1
    BY <1>1, <1>3, FS_Interval
  <2> QED BY <1>1, <1>3, <2>1
<1>7. OverduePrefix(q, limit) = n - 1
  BY <1>5, <1>6 DEF OverduePrefix
<1> HIDE DEF S
<1>8. n - 1 < Len(q) => ~Waited(q[n - 1 + 1], limit)
  <2>1. n - 1 + 1 = n /\ (n - 1 < Len(q) => n <= Len(q))
    BY <1>1, <1>3
  <2> QED BY <1>3, <2>1
<1> QED BY <1>4, <1>7, <1>8

\* What BumpPriority reads after position i - 1 of medJobQ once it has moved the
\* front of lowJobQ behind it.
Moving(q, i) == IF i <= Len(q["med"]) THEN q["med"][i] ELSE q["low"][i - Len(q["med"])]

\* b is q after BumpPriority moved the first k jobs of lowJobQ behind medJobQ, and the
\* first n of what is then medJobQ behind highJobQ.
Bumped(q, b, k, n) ==
  /\ Len(b["high"]) = Len(q["high"]) + n
  /\ Len(b["med"]) = Len(q["med"]) + k - n
  /\ Len(b["low"]) = Len(q["low"]) - k
  /\ \A i \in 1 .. Len(q["high"]) + n :
       b["high"][i] = IF i <= Len(q["high"]) THEN q["high"][i] ELSE Moving(q, i - Len(q["high"]))
  /\ \A i \in 1 .. Len(q["med"]) + k - n : b["med"][i] = Moving(q, n + i)
  /\ \A i \in 1 .. Len(q["low"]) - k : b["low"][i] = q["low"][k + i]

\* Those jobs have waited, and the ones after them have not.
AllOverdue(q, k, n) ==
  /\ \A i \in 1 .. k : Waited(q["low"][i], attr.maxIdleTime)
  /\ k < Len(q["low"]) => ~Waited(q["low"][k + 1], attr.maxIdleTime)
  /\ \A i \in 1 .. n : Waited(Moving(q, i), attr.starvationTime)
  /\ n < Len(q["med"]) + k => ~Waited(Moving(q, n + 1), attr.starvationTime)

LEMMA BumpPriorityShape ==
  ASSUME NEW q \in [Priority -> Seq(Job)]
  PROVE  /\ BumpPriority(q) \in [Priority -> Seq(Job)]
         /\ \E k \in 0 .. Len(q["low"]) : \E n \in 0 .. Len(q["med"]) + k :
              Bumped(q, BumpPriority(q), k, n) /\ AllOverdue(q, k, n)
<1> DEFINE high == q["high"]
           med  == q["med"]
           low  == q["low"]
           k    == OverduePrefix(low, attr.maxIdleTime)
           l1   == SubSeq(low, 1, k)
           l2   == SubSeq(low, k + 1, Len(low))
           m    == med \o l1
           n    == OverduePrefix(m, attr.starvationTime)
           m1   == SubSeq(m, 1, n)
           m2   == SubSeq(m, n + 1, Len(m))
           b    == BumpPriority(q)
<1>1. high \in Seq(Job) /\ med \in Seq(Job) /\ low \in Seq(Job)
  BY DEF Priority
<1>2. /\ Len(high) \in Nat /\ Len(med) \in Nat /\ Len(low) \in Nat
      /\ DOMAIN high = 1 .. Len(high) /\ DOMAIN med = 1 .. Len(med)
      /\ DOMAIN low = 1 .. Len(low)
  BY <1>1, LenProperties
<1>3. k \in 0 .. Len(low)
  BY <1>1, OverduePrefixType
<1>4. /\ l1 \in Seq(Job) /\ Len(l1) = k
      /\ \A i \in 1 .. k : l1[i] = low[i]
  <2>1. \A i \in 1 .. k : low[i] \in Job
    BY <1>1, <1>2, <1>3, ElementOfSeq
  <2>2. /\ l1 \in Seq(Job) /\ Len(l1) = IF 1 <= k THEN k - 1 + 1 ELSE 0
        /\ \A i \in 1 .. k - 1 + 1 : l1[i] = low[1 + i - 1]
    <3> HIDE DEF k
    <3> QED BY <2>1, <1>3, <1>2, SubSeqProperties
  <2> QED BY <2>2, <1>3, <1>2
<1>5. /\ l2 \in Seq(Job) /\ Len(l2) = Len(low) - k
      /\ \A i \in 1 .. Len(low) - k : l2[i] = low[k + i]
  <2>1. \A i \in k + 1 .. Len(low) : low[i] \in Job
    BY <1>1, <1>2, <1>3, ElementOfSeq
  <2>2. /\ l2 \in Seq(Job)
        /\ Len(l2) = IF k + 1 <= Len(low) THEN Len(low) - (k + 1) + 1 ELSE 0
        /\ \A i \in 1 .. Len(low) - (k + 1) + 1 : l2[i] = low[(k + 1) + i - 1]
    <3> HIDE DEF k
    <3> QED BY <2>1, <1>3, <1>2, SubSeqProperties
  <2> QED BY <2>2, <1>3, <1>2
<1>a. /\ \A i \in 1 .. k : Waited(low[i], attr.maxIdleTime)
      /\ k < Len(low) => ~Waited(low[k + 1], attr.maxIdleTime)
  BY <1>1, OverduePrefixEnd
<1> HIDE DEF k, l1, l2
<1>6. /\ m \in Seq(Job) /\ Len(m) = Len(med) + k /\ Len(m) \in Nat
      /\ \A i \in 1 .. Len(m) : m[i] = IF i <= Len(med) THEN med[i] ELSE l1[i - Len(med)]
  <2>1. /\ m \in Seq(Job) /\ Len(m) = Len(med) + Len(l1)
        /\ \A i \in 1 .. Len(med) + Len(l1) :
             m[i] = IF i <= Len(med) THEN med[i] ELSE l1[i - Len(med)]
    <3> HIDE DEF med
    <3> QED BY <1>1, <1>4, ConcatProperties
  <2> QED BY <2>1, <1>2, <1>3, <1>4
<1>7. n \in 0 .. Len(m)
  BY <1>6, OverduePrefixType
<1>b. /\ \A i \in 1 .. n : Waited(m[i], attr.starvationTime)
      /\ n < Len(m) => ~Waited(m[n + 1], attr.starvationTime)
  BY <1>6, OverduePrefixEnd
<1> HIDE DEF m
<1>8. /\ m1 \in Seq(Job) /\ Len(m1) = n
      /\ \A i \in 1 .. n : m1[i] = m[i]
  <2>1. \A i \in 1 .. n : m[i] \in Job
    BY <1>6, <1>7, ElementOfSeq
  <2>2. /\ m1 \in Seq(Job) /\ Len(m1) = IF 1 <= n THEN n - 1 + 1 ELSE 0
        /\ \A i \in 1 .. n - 1 + 1 : m1[i] = m[1 + i - 1]
    <3> HIDE DEF n
    <3> QED BY <2>1, <1>6, <1>7, SubSeqProperties
  <2> QED BY <2>2, <1>6, <1>7
<1>9. /\ m2 \in Seq(Job) /\ Len(m2) = Len(m) - n
      /\ \A i \in 1 .. Len(m) - n : m2[i] = m[n + i]
  <2>1. \A i \in n + 1 .. Len(m) : m[i] \in Job
    BY <1>6, <1>7, ElementOfSeq
  <2>2. /\ m2 \in Seq(Job)
        /\ Len(m2) = IF n + 1 <= Len(m) THEN Len(m) - (n + 1) + 1 ELSE 0
        /\ \A i \in 1 .. Len(m) - (n + 1) + 1 : m2[i] = m[(n + 1) + i - 1]
    <3> HIDE DEF n
    <3> QED BY <2>1, <1>6, <1>7, SubSeqProperties
  <2> QED BY <2>2, <1>6, <1>7
<1> HIDE DEF n, m1, m2
<1>10. /\ high \o m1 \in Seq(Job) /\ Len(high \o m1) = Len(high) + n
       /\ \A i \in 1 .. Len(high) + n :
            (high \o m1)[i] = IF i <= Len(high) THEN high[i] ELSE m1[i - Len(high)]
  BY <1>1, <1>2, <1>7, <1>8, ConcatProperties
<1>11. b = [p \in Priority |-> CASE p = "high" -> high \o m1
                                 [] p = "med"  -> m2
                                 [] p = "low"  -> l2]
  BY DEF BumpPriority, k, l1, l2, m, n, m1, m2
<1>12. b["high"] = high \o m1 /\ b["med"] = m2 /\ b["low"] = l2
  BY <1>11 DEF Priority
<1>13. b \in [Priority -> Seq(Job)]
  BY <1>11, <1>12, <1>10, <1>9, <1>5 DEF Priority
<1> HIDE DEF b, high, med, low
<1>14. \A i \in 1 .. Len(m) :
         m[i] = IF i <= Len(med) THEN med[i] ELSE low[i - Len(med)]
  BY <1>6, <1>4, <1>3, <1>2
<1>15. \A i \in 1 .. Len(m) : m[i] = Moving(q, i)
  BY <1>14 DEF Moving, med, low
<1>16. k \in 0 .. Len(low) /\ n \in 0 .. Len(med) + k
  BY <1>3, <1>6, <1>7
<1>17. /\ Len(b["high"]) = Len(high) + n /\ Len(b["med"]) = Len(med) + k - n
       /\ Len(b["low"]) = Len(low) - k
  <2>1. /\ Len(b["high"]) = Len(high) + n /\ Len(b["med"]) = Len(m) - n
        /\ Len(b["low"]) = Len(low) - k /\ Len(m) = Len(med) + k
    BY <1>12, <1>10, <1>9, <1>5, <1>6
  <2>a. k \in Nat /\ n \in Nat /\ Len(med) \in Nat
    BY <1>2, <1>16
  <2>2. Len(m) - n = Len(med) + k - n
    BY <2>1, <2>a
  <2>3. Len(b["med"]) = Len(med) + k - n
    BY <2>1, <2>2
  <2> QED BY <2>1, <2>3
<1>18. \A i \in 1 .. Len(high) + n :
         b["high"][i] = IF i <= Len(high) THEN high[i] ELSE Moving(q, i - Len(high))
  <2> SUFFICES ASSUME NEW i \in 1 .. Len(high) + n
               PROVE  b["high"][i] = IF i <= Len(high) THEN high[i] ELSE Moving(q, i - Len(high))
    OBVIOUS
  <2>1. b["high"][i] = IF i <= Len(high) THEN high[i] ELSE m1[i - Len(high)]
    BY <1>12, <1>10
  <2>2. CASE i > Len(high)
    <3>1. i - Len(high) \in 1 .. n /\ i - Len(high) \in 1 .. Len(m) /\ ~(i <= Len(high))
      BY <2>2, <1>2, <1>7, <1>6
    <3> QED BY <2>1, <3>1, <1>8, <1>15
  <2>3. CASE i <= Len(high)
    BY <2>1, <2>3
  <2> QED BY <2>2, <2>3, <1>2, <1>7
<1>19. \A i \in 1 .. Len(med) + k - n : b["med"][i] = Moving(q, n + i)
  <2> SUFFICES ASSUME NEW i \in 1 .. Len(med) + k - n
               PROVE  b["med"][i] = Moving(q, n + i)
    OBVIOUS
  <2>1. i \in 1 .. Len(m) - n /\ n + i \in 1 .. Len(m)
    BY <1>2, <1>3, <1>6, <1>7
  <2> QED BY <2>1, <1>9, <1>12, <1>15
<1>20. \A i \in 1 .. Len(low) - k : b["low"][i] = low[k + i]
  BY <1>12, <1>5
<1>21. Bumped(q, b, k, n)
  BY <1>17, <1>18, <1>19, <1>20 DEF Bumped, high, med, low
<1>22. AllOverdue(q, k, n)
  <2>1. \A i \in 1 .. n : i \in 1 .. Len(m)
    BY <1>6, <1>7
  <2>2. \A i \in 1 .. n : Waited(Moving(q, i), attr.starvationTime)
    BY <1>b, <1>15, <2>1
  <2>3. n < Len(m) => n + 1 \in 1 .. Len(m)
    BY <1>6, <1>7
  <2>4. n < Len(m) => ~Waited(Moving(q, n + 1), attr.starvationTime)
    BY <1>b, <1>15, <2>3
  <2> QED BY <1>a, <1>6, <2>2, <2>4 DEF AllOverdue, med, low
<1> QED BY <1>13, <1>16, <1>21, <1>22 DEF b, med, low

\* BumpPriority moves jobs between the queues, and neither loses nor invents one.
LEMMA BumpPriorityType ==
  ASSUME NEW q \in [Priority -> Seq(Job)]
  PROVE  /\ BumpPriority(q) \in [Priority -> Seq(Job)]
         /\ QueuedJobs(BumpPriority(q)) = QueuedJobs(q)
         /\ \A p \in Priority : \A i \in DOMAIN BumpPriority(q)[p] :
              \E r \in Priority : \E k \in DOMAIN q[r] : BumpPriority(q)[p][i] = q[r][k]
<1> DEFINE high == q["high"]
           med  == q["med"]
           low  == q["low"]
           b    == BumpPriority(q)
<1>1. /\ Len(high) \in Nat /\ Len(med) \in Nat /\ Len(low) \in Nat
      /\ DOMAIN high = 1 .. Len(high) /\ DOMAIN med = 1 .. Len(med)
      /\ DOMAIN low = 1 .. Len(low)
  BY LenProperties DEF Priority
<1>2. b \in [Priority -> Seq(Job)]
  BY BumpPriorityShape
<1>a. PICK k \in 0 .. Len(low) : \E n \in 0 .. Len(med) + k : Bumped(q, b, k, n)
  BY BumpPriorityShape
<1>3. PICK n \in 0 .. Len(med) + k : Bumped(q, b, k, n)
  BY <1>a
<1>b. /\ Len(b["high"]) = Len(high) + n
      /\ Len(b["med"]) = Len(med) + k - n
      /\ Len(b["low"]) = Len(low) - k
  BY <1>3 DEF Bumped
<1>c. k \in Nat /\ n \in Nat /\ k <= Len(low) /\ n <= Len(med) + k
  BY <1>1
<1>4. /\ \A i \in 1 .. Len(high) + n :
           b["high"][i] = IF i <= Len(high) THEN high[i] ELSE Moving(q, i - Len(high))
      /\ \A i \in 1 .. Len(med) + k - n : b["med"][i] = Moving(q, n + i)
      /\ \A i \in 1 .. Len(low) - k : b["low"][i] = low[k + i]
  BY <1>3 DEF Bumped
<1>5. QueuedJobs(b) = QueuedJobs(q)
  <2>1. QueuedJobs(b) = Len(b["high"]) + Len(b["med"]) + Len(b["low"])
    BY DEF QueuedJobs
  <2>2. QueuedJobs(q) = Len(high) + Len(med) + Len(low)
    BY DEF QueuedJobs
  <2>3. Len(high) \in Nat /\ Len(med) \in Nat /\ Len(low) \in Nat
    BY <1>1
  <2> HIDE DEF b, high, med, low
  <2> QED BY <2>1, <2>2, <2>3, <1>b, <1>c
<1> HIDE DEF high, med, low, b
<1> DEFINE OneOf(x) == \E r \in Priority : \E h \in DOMAIN q[r] : x = q[r][h]
<1>6. /\ \A i \in 1 .. Len(high) : OneOf(high[i])
      /\ \A i \in 1 .. Len(med) : OneOf(med[i])
      /\ \A i \in 1 .. Len(low) : OneOf(low[i])
  BY <1>1 DEF Priority, high, med, low
<1> HIDE DEF OneOf
<1>7. \A i \in 1 .. Len(med) + k : OneOf(Moving(q, i))
  <2>1. \A i \in 1 .. Len(med) + k :
          Moving(q, i) = IF i <= Len(med) THEN med[i] ELSE low[i - Len(med)]
    BY DEF Moving, med, low
  <2> QED BY <2>1, <1>1, <1>6
<1>8. \A p \in Priority : \A i \in 1 .. Len(b[p]) : OneOf(b[p][i])
  <2>1. ASSUME NEW i \in 1 .. Len(b["high"])
        PROVE  OneOf(b["high"][i])
    <3>1. i \in 1 .. Len(high) + n
      BY <1>b
    <3>2. CASE i <= Len(high)
      <4>1. i \in 1 .. Len(high) /\ b["high"][i] = high[i]
        BY <1>1, <1>4, <3>1, <3>2
      <4> QED BY <4>1, <1>6
    <3>3. CASE ~(i <= Len(high))
      <4>1. i - Len(high) \in 1 .. Len(med) + k /\ b["high"][i] = Moving(q, i - Len(high))
        BY <1>1, <1>c, <1>4, <3>1, <3>3
      <4> QED BY <4>1, <1>7
    <3> QED BY <3>2, <3>3
  <2>2. ASSUME NEW i \in 1 .. Len(b["med"])
        PROVE  OneOf(b["med"][i])
    <3>1. i \in 1 .. Len(med) + k - n
      BY <1>b
    <3>2. n + i \in 1 .. Len(med) + k
      BY <1>1, <1>c, <3>1
    <3> QED BY <3>1, <3>2, <1>4, <1>7
  <2>3. ASSUME NEW i \in 1 .. Len(b["low"])
        PROVE  OneOf(b["low"][i])
    <3>1. i \in 1 .. Len(low) - k
      BY <1>b
    <3>2. k + i \in 1 .. Len(low)
      BY <1>1, <1>c, <3>1
    <3> QED BY <3>1, <3>2, <1>4, <1>6
  <2> QED BY <2>1, <2>2, <2>3 DEF Priority
<1>9. \A p \in Priority : DOMAIN b[p] = 1 .. Len(b[p])
  BY <1>2, LenProperties
<1> QED BY <1>2, <1>5, <1>8, <1>9 DEF b, OneOf

\* No job is in two places of the queues q.
Distinct(q) ==
  \A p1, p2 \in Priority : \A i \in DOMAIN q[p1], k \in DOMAIN q[p2] :
    q[p1][i] = q[p2][k] => p1 = p2 /\ i = k

\* BumpPriority duplicates no job.
LEMMA BumpPriorityDistinct ==
  ASSUME NEW q \in [Priority -> Seq(Job)], Distinct(q)
  PROVE  Distinct(BumpPriority(q))
<1> DEFINE high == q["high"]
           med  == q["med"]
           low  == q["low"]
           b    == BumpPriority(q)
           mv(i) == Moving(q, i)
<1>1. /\ Len(high) \in Nat /\ Len(med) \in Nat /\ Len(low) \in Nat
      /\ DOMAIN high = 1 .. Len(high) /\ DOMAIN med = 1 .. Len(med)
      /\ DOMAIN low = 1 .. Len(low)
  BY LenProperties DEF Priority
<1>2. b \in [Priority -> Seq(Job)]
  BY BumpPriorityShape
<1>a. PICK k \in 0 .. Len(low) : \E n \in 0 .. Len(med) + k : Bumped(q, b, k, n)
  BY BumpPriorityShape
<1>3. PICK n \in 0 .. Len(med) + k : Bumped(q, b, k, n)
  BY <1>a
<1>b. /\ Len(b["high"]) = Len(high) + n
      /\ Len(b["med"]) = Len(med) + k - n
      /\ Len(b["low"]) = Len(low) - k
  BY <1>3 DEF Bumped
<1>c. k \in Nat /\ n \in Nat /\ k <= Len(low) /\ n <= Len(med) + k
  BY <1>1
<1>4. /\ \A i \in 1 .. Len(high) + n :
           b["high"][i] = IF i <= Len(high) THEN high[i] ELSE mv(i - Len(high))
      /\ \A i \in 1 .. Len(med) + k - n : b["med"][i] = mv(n + i)
      /\ \A i \in 1 .. Len(low) - k : b["low"][i] = low[k + i]
  BY <1>3 DEF Bumped
<1>5. /\ \A i, j \in 1 .. Len(high) : high[i] = high[j] => i = j
      /\ \A i, j \in 1 .. Len(med) : med[i] = med[j] => i = j
      /\ \A i, j \in 1 .. Len(low) : low[i] = low[j] => i = j
      /\ \A i \in 1 .. Len(high), j \in 1 .. Len(med) : high[i] # med[j]
      /\ \A i \in 1 .. Len(high), j \in 1 .. Len(low) : high[i] # low[j]
      /\ \A i \in 1 .. Len(med), j \in 1 .. Len(low) : med[i] # low[j]
  BY <1>1 DEF Distinct, Priority
<1>6. \A i \in 1 .. Len(med) + k :
        mv(i) = IF i <= Len(med) THEN med[i] ELSE low[i - Len(med)]
  BY DEF Moving
<1> DEFINE H == Len(high)
           M == Len(med)
           L == Len(low)
           bh == b["high"]
           bm == b["med"]
           bl == b["low"]
<1>7. /\ H \in Nat /\ M \in Nat /\ L \in Nat /\ k \in Nat /\ n \in Nat
      /\ k <= L /\ n <= M + k
  BY <1>1, <1>c
<1>8. /\ \A i \in 1 .. H : i \in 1 .. H + n => bh[i] = high[i]
      /\ \A i \in 1 .. M + k : H + i \in 1 .. H + n => bh[H + i] = mv(i)
      /\ \A i \in 1 .. M + k - n : bm[i] = mv(n + i)
      /\ \A i \in 1 .. L - k : bl[i] = low[k + i]
  <2>1. \A i \in 1 .. H + n : bh[i] = IF i <= H THEN high[i] ELSE mv(i - H)
    BY <1>4
  <2>2. \A i \in 1 .. H : i \in 1 .. H + n => bh[i] = high[i]
    BY <2>1
  <2>3. ASSUME NEW i \in 1 .. M + k, H + i \in 1 .. H + n
        PROVE  bh[H + i] = mv(i)
    <3>1. ~(H + i <= H) /\ (H + i) - H = i
      BY <1>7, <2>3
    <3>2. bh[H + i] = IF H + i <= H THEN high[H + i] ELSE mv((H + i) - H)
      BY <2>1, <2>3
    <3> QED BY <3>1, <3>2
  <2> QED BY <1>4, <2>2, <2>3
<1> HIDE DEF high, med, low, b, mv, H, M, L, bh, bm, bl
<1>9. ASSUME NEW i \in 1 .. H + n
      PROVE  \/ i \in 1 .. H /\ bh[i] = high[i]
             \/ i - H \in 1 .. n /\ i - H \in 1 .. M + k /\ bh[i] = mv(i - H)
  <2>1. CASE i <= H
    BY <1>7, <1>8, <2>1
  <2>2. CASE ~(i <= H)
    <3>1. i - H \in 1 .. n /\ i - H \in 1 .. M + k /\ H + (i - H) = i
      BY <1>7, <2>2
    <3> QED BY <1>8, <3>1
  <2> QED BY <2>1, <2>2
<1>10. ASSUME NEW i \in 1 .. M + k
       PROVE  \/ i \in 1 .. M /\ mv(i) = med[i]
              \/ i - M \in 1 .. k /\ i - M \in 1 .. L /\ mv(i) = low[i - M]
  <2>1. mv(i) = IF i <= M THEN med[i] ELSE low[i - M]
    BY <1>6 DEF M
  <2> QED BY <1>7, <2>1
<1>11. ASSUME NEW i \in 1 .. M + k, NEW j \in 1 .. M + k, mv(i) = mv(j)
       PROVE  i = j
  <2>1. CASE i \in 1 .. M /\ mv(i) = med[i]
    <3>1. CASE j \in 1 .. M /\ mv(j) = med[j]
      BY <1>5, <1>11, <2>1, <3>1 DEF M
    <3>2. CASE j - M \in 1 .. L /\ mv(j) = low[j - M]
      BY <1>5, <1>11, <2>1, <3>2 DEF M, L
    <3> QED BY <1>10, <3>1, <3>2
  <2>2. CASE i - M \in 1 .. L /\ mv(i) = low[i - M]
    <3>1. CASE j \in 1 .. M /\ mv(j) = med[j]
      BY <1>5, <1>11, <2>2, <3>1 DEF M, L
    <3>2. CASE j - M \in 1 .. L /\ mv(j) = low[j - M]
      <4>1. i - M = j - M
        BY <1>5, <1>11, <2>2, <3>2 DEF L
      <4> QED BY <4>1, <1>7
    <3> QED BY <1>10, <3>1, <3>2
  <2> QED BY <1>10, <2>1, <2>2
<1>12. ASSUME NEW i \in 1 .. H, NEW j \in 1 .. M + k
       PROVE  high[i] # mv(j)
  BY <1>5, <1>10 DEF H, M, L
<1>13. ASSUME NEW i \in 1 .. L, i > k, NEW j \in 1 .. M + k
       PROVE  low[i] # mv(j)
  <2>1. CASE j \in 1 .. M /\ mv(j) = med[j]
    BY <1>5, <2>1 DEF M, L
  <2>2. CASE j - M \in 1 .. k /\ j - M \in 1 .. L /\ mv(j) = low[j - M]
    <3>1. i # j - M
      BY <1>7, <1>13, <2>2
    <3> QED BY <1>5, <2>2, <3>1 DEF L
  <2> QED BY <1>10, <2>1, <2>2
<1>14. ASSUME NEW i \in 1 .. M + k - n
       PROVE  n + i \in 1 .. M + k /\ bm[i] = mv(n + i)
  BY <1>7, <1>8
<1>15. ASSUME NEW i \in 1 .. L - k
       PROVE  k + i \in 1 .. L /\ k + i > k /\ bl[i] = low[k + i]
  BY <1>7, <1>8
<1>16. ASSUME NEW i \in 1 .. H + n, NEW j \in 1 .. H + n, bh[i] = bh[j]
       PROVE  i = j
  <2>1. CASE i \in 1 .. H /\ bh[i] = high[i]
    <3>1. CASE j \in 1 .. H /\ bh[j] = high[j]
      BY <1>5, <1>16, <2>1, <3>1 DEF H
    <3>2. CASE j - H \in 1 .. M + k /\ bh[j] = mv(j - H)
      BY <1>12, <1>16, <2>1, <3>2
    <3> QED BY <1>9, <3>1, <3>2
  <2>2. CASE i - H \in 1 .. M + k /\ bh[i] = mv(i - H)
    <3>1. CASE j \in 1 .. H /\ bh[j] = high[j]
      BY <1>12, <1>16, <2>2, <3>1
    <3>2. CASE j - H \in 1 .. M + k /\ bh[j] = mv(j - H)
      <4>1. i - H = j - H
        BY <1>11, <1>16, <2>2, <3>2
      <4> QED BY <4>1, <1>7
    <3> QED BY <1>9, <3>1, <3>2
  <2> QED BY <1>9, <2>1, <2>2
<1>17. ASSUME NEW i \in 1 .. M + k - n, NEW j \in 1 .. M + k - n, bm[i] = bm[j]
       PROVE  i = j
  <2>1. n + i = n + j
    BY <1>11, <1>14, <1>17
  <2> QED BY <2>1, <1>7
<1>18. ASSUME NEW i \in 1 .. L - k, NEW j \in 1 .. L - k, bl[i] = bl[j]
       PROVE  i = j
  <2>1. k + i = k + j
    BY <1>5, <1>15, <1>18 DEF L
  <2> QED BY <2>1, <1>7
<1>19. ASSUME NEW i \in 1 .. H + n, NEW j \in 1 .. M + k - n
       PROVE  bh[i] # bm[j]
  <2>1. n + j \in 1 .. M + k /\ bm[j] = mv(n + j)
    BY <1>14
  <2>2. CASE i \in 1 .. H /\ bh[i] = high[i]
    BY <1>12, <2>1, <2>2
  <2>3. CASE i - H \in 1 .. n /\ i - H \in 1 .. M + k /\ bh[i] = mv(i - H)
    <3>1. i - H # n + j
      BY <1>7, <2>3
    <3> QED BY <1>11, <2>1, <2>3, <3>1
  <2> QED BY <1>9, <2>2, <2>3
<1>20. ASSUME NEW i \in 1 .. H + n, NEW j \in 1 .. L - k
       PROVE  bh[i] # bl[j]
  <2>1. k + j \in 1 .. L /\ k + j > k /\ bl[j] = low[k + j]
    BY <1>15
  <2>2. CASE i \in 1 .. H /\ bh[i] = high[i]
    BY <1>5, <2>1, <2>2 DEF H, L
  <2>3. CASE i - H \in 1 .. M + k /\ bh[i] = mv(i - H)
    BY <1>13, <2>1, <2>3
  <2> QED BY <1>9, <2>2, <2>3
<1>21. ASSUME NEW i \in 1 .. M + k - n, NEW j \in 1 .. L - k
       PROVE  bm[i] # bl[j]
  BY <1>13, <1>14, <1>15
<1>22. /\ DOMAIN bh = 1 .. H + n /\ DOMAIN bm = 1 .. M + k - n /\ DOMAIN bl = 1 .. L - k
  <2>1. \A p \in Priority : DOMAIN b[p] = 1 .. Len(b[p])
    BY <1>2, LenProperties
  <2> QED BY <2>1, <1>b DEF bh, bm, bl, H, M, L, Priority
<1>23. ASSUME NEW p1 \in Priority, NEW p2 \in Priority, NEW i \in DOMAIN b[p1],
              NEW j \in DOMAIN b[p2], b[p1][i] = b[p2][j]
       PROVE  p1 = p2 /\ i = j
  <2>1. CASE p1 = "high"
    BY <1>16, <1>19, <1>20, <1>22, <1>23, <2>1 DEF Priority, bh, bm, bl
  <2>2. CASE p1 = "med"
    BY <1>17, <1>19, <1>21, <1>22, <1>23, <2>2 DEF Priority, bh, bm, bl
  <2>3. CASE p1 = "low"
    BY <1>18, <1>20, <1>21, <1>22, <1>23, <2>3 DEF Priority, bh, bm, bl
  <2> QED BY <2>1, <2>2, <2>3 DEF Priority
<1> QED BY <1>23 DEF Distinct, b

\* Every element of a queue is a job.
LEMMA QueueElements ==
  ASSUME NEW q \in [Priority -> Seq(Job)], NEW p \in Priority
  PROVE  /\ q[p] \in Seq(Job) /\ Len(q[p]) \in Nat /\ DOMAIN q[p] = 1 .. Len(q[p])
         /\ \A i \in DOMAIN q[p] : q[p][i] \in Job
BY LenProperties, ElementOfSeq

\* ListDelNode takes one job out of a queue and keeps the others.
LEMMA RemoveAtType ==
  ASSUME NEW s \in Seq(Job), NEW i \in DOMAIN s
  PROVE  /\ RemoveAt(s, i) \in Seq(Job)
         /\ Len(RemoveAt(s, i)) = Len(s) - 1
         /\ \A k \in DOMAIN RemoveAt(s, i) :
              LET h == IF k < i THEN k ELSE k + 1
              IN h \in DOMAIN s /\ RemoveAt(s, i)[k] = s[h]
         /\ \A k \in DOMAIN RemoveAt(s, i) : \E h \in DOMAIN s : RemoveAt(s, i)[k] = s[h]
         /\ DOMAIN RemoveAt(s, i) = 1 .. Len(s) - 1
<1> DEFINE n == Len(s)
           a == SubSeq(s, 1, i - 1)
           b == SubSeq(s, i + 1, n)
<1>1. n \in Nat /\ DOMAIN s = 1 .. n /\ i \in 1 .. n /\ \A k \in 1 .. n : s[k] \in Job
  BY LenProperties, ElementOfSeq
<1> HIDE DEF n
<1>2. a \in Seq(Job) /\ Len(a) = i - 1 /\ \A k \in 1 .. i - 1 : a[k] = s[k]
  <2>1. /\ a \in Seq(Job) /\ Len(a) = IF 1 <= i - 1 THEN (i - 1) - 1 + 1 ELSE 0
        /\ \A k \in 1 .. (i - 1) - 1 + 1 : a[k] = s[1 + k - 1]
    BY <1>1, SubSeqProperties
  <2> QED BY <1>1, <2>1
<1>3. b \in Seq(Job) /\ Len(b) = n - i /\ \A k \in 1 .. n - i : b[k] = s[i + k]
  <2>1. /\ b \in Seq(Job)
        /\ Len(b) = IF i + 1 <= n THEN n - (i + 1) + 1 ELSE 0
        /\ \A k \in 1 .. n - (i + 1) + 1 : b[k] = s[(i + 1) + k - 1]
    BY <1>1, SubSeqProperties
  <2> HIDE DEF b
  <2>2. Len(b) = n - i
    BY <1>1, <2>1
  <2>3. ASSUME NEW k \in 1 .. n - i
        PROVE  b[k] = s[i + k]
    <3>1. k \in 1 .. n - (i + 1) + 1 /\ (i + 1) + k - 1 = i + k
      BY <1>1, <2>3
    <3> QED BY <2>1, <3>1
  <2> QED BY <2>1, <2>2, <2>3
<1> HIDE DEF a, b
<1>4. /\ a \o b \in Seq(Job) /\ Len(a \o b) = Len(a) + Len(b)
      /\ \A k \in 1 .. Len(a) + Len(b) :
           (a \o b)[k] = IF k <= Len(a) THEN a[k] ELSE b[k - Len(a)]
  BY <1>2, <1>3, ConcatProperties
<1>5. Len(a) + Len(b) = n - 1
  BY <1>1, <1>2, <1>3
<1>6. DOMAIN (a \o b) = 1 .. n - 1
  BY <1>4, <1>5, LenProperties
<1>7. ASSUME NEW k \in 1 .. n - 1
      PROVE  /\ (IF k < i THEN k ELSE k + 1) \in 1 .. n
             /\ (a \o b)[k] = s[IF k < i THEN k ELSE k + 1]
  <2>1. CASE k < i
    <3>1. (a \o b)[k] = s[k] /\ k \in 1 .. n
      BY <2>1, <1>1, <1>2, <1>4, <1>5
    <3> QED BY <2>1, <3>1
  <2>2. CASE ~(k < i)
    <3>1. (a \o b)[k] = b[k - (i - 1)] /\ k - (i - 1) \in 1 .. n - i
      BY <2>2, <1>1, <1>2, <1>4, <1>5
    <3>2. i + (k - (i - 1)) = k + 1 /\ k + 1 \in 1 .. n
      BY <1>1, <1>7
    <3>3. (a \o b)[k] = s[k + 1]
      BY <3>1, <3>2, <1>3
    <3> QED BY <2>2, <3>2, <3>3
  <2> QED BY <2>1, <2>2
<1>8. RemoveAt(s, i) = a \o b
  BY DEF RemoveAt, a, b, n
<1>9. \A k \in 1 .. n - 1 : \E h \in 1 .. n : (a \o b)[k] = s[h]
  BY <1>7
<1> QED BY <1>1, <1>4, <1>5, <1>6, <1>7, <1>8, <1>9 DEF n

-----------------------------------------------------------------------------
(* The parts of the actions that change the threads of the pool, for any   *)
(* invariant that counts them.                                             *)

\* The sets of workers are finite.
LEMMA WorkerSetsFinite ==
  /\ IsFiniteSet(Alive) /\ Cardinality(Alive) \in Nat
  /\ IsFiniteSet(Starting) /\ Cardinality(Starting) \in Nat
  /\ IsFiniteSet(Working) /\ Cardinality(Working) \in Nat
  /\ IsFiniteSet(Lasting) /\ Cardinality(Lasting) \in Nat
<1>1. \A S \in SUBSET Worker : IsFiniteSet(S)
  BY PoolConstants, FS_Subset
<1>2. Alive \in SUBSET Worker /\ Starting \in SUBSET Worker
      /\ Working \in SUBSET Worker /\ Lasting \in SUBSET Worker
  BY DEF Alive, Starting, Working, Lasting
<1> QED BY <1>1, <1>2, FS_CardinalityType

\* A step that starts or wakes workers but counts none: the workers the pool has
\* stay where they are unless they were asleep.
ThreadsKept ==
  /\ wpc' \in [Worker -> WorkerState]
  /\ pendingWorkerThreadStart' \in {0, 1}
  /\ Alive' = Alive
  /\ pendingWorkerThreadStart' = Cardinality(Starting')
  /\ \A w \in Worker : wpc[w] \in {"top", "running"} => wpc'[w] \in {"top", "running"}

LEMMA SameThreads ==
  ASSUME IInv, UNCHANGED <<wpc, pendingWorkerThreadStart>>
  PROVE  ThreadsKept
BY DEF IInv, TypeOK, CountersAgree, ThreadsKept, Alive, Starting

LEMMA SignalKeepsThreads ==
  ASSUME IInv, SignalCondition, UNCHANGED pendingWorkerThreadStart
  PROVE  ThreadsKept
<1>1. CASE UNCHANGED wpc
  BY <1>1, SameThreads
<1>2. ASSUME NEW w \in Worker, wpc[w] = "waiting", wpc' = [wpc EXCEPT ![w] = "signalled"]
      PROVE  ThreadsKept
  <2>1. wpc' \in [Worker -> WorkerState]
    BY <1>2 DEF IInv, TypeOK, WorkerState
  <2>2. Alive' = Alive /\ Starting' = Starting
    BY <1>2 DEF IInv, TypeOK, Alive, Starting
  <2>3. \A v \in Worker : wpc[v] \in {"top", "running"} => wpc'[v] \in {"top", "running"}
    BY <1>2 DEF IInv, TypeOK
  <2> QED BY <2>1, <2>2, <2>3 DEF ThreadsKept, IInv, TypeOK, CountersAgree, Starting
<1> QED BY <1>1, <1>2 DEF SignalCondition

\* Return and BlockSS keep the type of the calls.
LEMMA CallTypes ==
  ASSUME IInv, NEW t \in Thread
  PROVE  /\ NoCall \in Call
         /\ call[t] \in Call
         /\ Return(t) => CallsTyped' /\ ssWaiters' \subseteq Thread
         /\ \A c \in Call, s \in CallStepName :
              /\ BlockSS(t, c, s)
              /\ c.op = "add" \/ s = "pickup" => c.job \in Job
              /\ s # "start" /\ (c.op = "add" => s \in {"cwPending", "cwStarted"})
              => CallsTyped' /\ ssWaiters' \subseteq Thread
<1>1. NoCall \in Call /\ NoCall.op = "none" /\ NoCall.step = "idle"
  BY DEF NoCall, Call, CallStepName
<1>2. call[t] \in Call
  BY DEF IInv, CallsTyped
<1>3. ASSUME Return(t)
      PROVE  CallsTyped' /\ ssWaiters' \subseteq Thread
  BY <1>1, <1>3 DEF Return, IInv, TypeOK, CallsTyped
<1>4. ASSUME NEW c \in Call, NEW s \in CallStepName, BlockSS(t, c, s),
             c.op = "add" \/ s = "pickup" => c.job \in Job, s # "start",
             c.op = "add" => s \in {"cwPending", "cwStarted"}
      PROVE  CallsTyped' /\ ssWaiters' \subseteq Thread
  <2> DEFINE d == [c EXCEPT !.step = s]
  <2>1. d \in Call /\ d.op = c.op /\ d.step = s /\ d.job = c.job
    BY <1>4 DEF Call
  <2>2. call' = [call EXCEPT ![t] = d] /\ ssWaiters' = ssWaiters \cup {t}
    BY <1>4 DEF BlockSS
  <2> HIDE DEF d
  <2> QED BY <1>4, <2>1, <2>2 DEF IInv, TypeOK, CallsTyped
<1> QED BY <1>1, <1>2, <1>3, <1>4

LEMMA CreateKeepsThreads ==
  ASSUME IInv, NEW t \in Thread, NEW c \in Call, NEW a, c.op = "add" => c.job \in Job,
         CreateWorker(t, c, a)
  PROVE  /\ ThreadsKept
         /\ CallsTyped'
         /\ ssWaiters' \subseteq Thread
<1>1. ASSUME NEW s \in {"cwPending", "cwStarted"}, BlockSS(t, c, s)
      PROVE  CallsTyped' /\ ssWaiters' \subseteq Thread
  BY <1>1, CallTypes DEF CallStepName
<1>2. CASE BlockSS(t, c, "cwPending") /\ UNCHANGED <<wpc, pendingWorkerThreadStart>>
  BY <1>1, <1>2, SameThreads
<1>3. ASSUME pendingWorkerThreadStart = 0, NEW w \in FreeSlot,
             wpc' = [wpc EXCEPT ![w] = "starting"], pendingWorkerThreadStart' = 1,
             BlockSS(t, c, "cwStarted")
      PROVE  ThreadsKept /\ CallsTyped' /\ ssWaiters' \subseteq Thread
  <2>1. CallsTyped' /\ ssWaiters' \subseteq Thread
    BY <1>1, <1>3
  <2>2. w \in Worker /\ wpc[w] = "none"
    BY <1>3 DEF FreeSlot
  <2>3. /\ wpc' \in [Worker -> WorkerState]
        /\ Alive' = Alive /\ Starting' = Starting \cup {w} /\ w \notin Starting
        /\ \A v \in Worker : wpc[v] \in {"top", "running"} => wpc'[v] \in {"top", "running"}
    BY <1>3, <2>2 DEF IInv, TypeOK, WorkerState, Alive, Starting
  <2>4. Cardinality(Starting') = 1
    <3>1. Cardinality(Starting) = 0
      BY <1>3 DEF IInv, CountersAgree, Starting
    <3>2. Cardinality(Starting \cup {w}) = Cardinality(Starting) + 1
      BY <2>3, WorkerSetsFinite, FS_AddElement
    <3> QED BY <2>3, <3>1, <3>2
  <2> QED BY <1>3, <2>1, <2>3, <2>4 DEF ThreadsKept
<1> QED BY <1>2, <1>3 DEF CreateWorker

\* CreateThreadPoolJob touches only the record of the new job.
LEMMA CreateJobType ==
  ASSUME IInv, nextJob < MaxJobs, NEW p \in Priority \cup {"persistent"},
         NEW f \in {"live", "refused"}, CreateThreadPoolJob(p, f)
  PROVE  /\ nextJob + 1 \in Job
         /\ nextJob' = nextJob + 1 /\ nextJob' \in 0 .. MaxJobs
         /\ jobId' \in [Job -> Nat]
         /\ prio' \in [Job -> Priority \cup {"persistent"}]
         /\ requestTime' \in [Job -> Nat]
         /\ fate' \in [Job -> {"none", "live", "refused", "removed", "freed", "ran"}]
         /\ prio'[nextJob + 1] = p
         /\ \A j \in 1 .. nextJob : prio'[j] = prio[j]
<1>1. nextJob + 1 \in Job /\ nextJob \in Nat
  BY PoolConstants DEF IInv, TypeOK, Job
<1> QED BY <1>1 DEF CreateThreadPoolJob, IInv, TypeOK, Job

\* A step that leaves the counters and the workers' jobs alone keeps them right.
LEMMA CountersKept ==
  ASSUME IInv, ThreadsKept,
         UNCHANGED <<totalThreads, busyThreads, persistentThreads, wjob>>,
         nextJob' \in 0 .. MaxJobs, nextJob <= nextJob',
         \A j \in 1 .. nextJob : prio'[j] = prio[j]
  PROVE  /\ CountersAgree'
         /\ \A w \in Worker : /\ wjob'[w] <= nextJob'
                              /\ wjob'[w] # NoJob => wpc'[w] \in {"top", "running"}
<1>1. nextJob \in Nat /\ \A w \in Worker : wjob[w] \in Nat /\ wjob[w] <= nextJob
  BY PoolConstants DEF IInv, TypeOK, JobsKnown, Job, NoJob
<1>2. \A w \in Worker : IsPersistent(wjob[w])' <=> IsPersistent(wjob[w])
  BY <1>1 DEF IsPersistent, NoJob
<1>3. Lasting' = Lasting /\ Working' = Working
  BY <1>2 DEF Lasting, Working
<1>4. CountersAgree'
  BY <1>3 DEF IInv, CountersAgree, ThreadsKept, Alive, Starting, Lasting, Working
<1>5. \A w \in Worker : wjob'[w] <= nextJob'
  BY <1>1
<1>6. \A w \in Worker : wjob'[w] # NoJob => wpc'[w] \in {"top", "running"}
  BY DEF IInv, JobsKnown, ThreadsKept
<1> QED BY <1>4, <1>5, <1>6

\* There are at least as many workers as workers with a persistent job.
LEMMA RegularThreads ==
  ASSUME IInv
  PROVE  totalThreads - persistentThreads \in Nat
<1>1. Lasting \in SUBSET Alive
  BY DEF IInv, JobsKnown, Lasting, Alive, IsPersistent
<1>2. Cardinality(Lasting) <= Cardinality(Alive)
  BY <1>1, WorkerSetsFinite, FS_Subset
<1>3. totalThreads = Cardinality(Alive) /\ persistentThreads = Cardinality(Lasting)
  BY DEF IInv, CountersAgree, Alive, Lasting
<1> QED BY <1>2, <1>3, WorkerSetsFinite

\* The steps that leave the queues and the counters alone.
LEMMA QuietStep ==
  ASSUME IInv, ThreadsKept, CallsTyped', ssWaiters' \subseteq Thread,
         UNCHANGED <<jobQ, persistentJob, totalThreads, busyThreads,
                     persistentThreads, wjob, nextJob, jobId, prio, requestTime>>,
         lastJobId' \in Nat, shutdown' \in {0, 1}, attr' \in Attr,
         phase' \in {"init", "up", "destroyed"}, mutexLeaked' \in BOOLEAN,
         fate' \in [Job -> {"none", "live", "refused", "removed", "freed", "ran"}],
         retId' \in [Job -> Nat \cup {-1}], now' \in Nat
  PROVE  IInv'
<1>1. TypeOK'
  BY DEF IInv, TypeOK, ThreadsKept, CallsTyped
<1>2. nextJob' \in 0 .. MaxJobs /\ nextJob <= nextJob' /\ \A j \in 1 .. nextJob : prio'[j] = prio[j]
  BY PoolConstants DEF IInv, TypeOK
<1>3. CountersAgree' /\ JobsKnown'
  BY <1>2, CountersKept DEF IInv, JobsKnown
<1> QED BY <1>1, <1>3 DEF IInv

-----------------------------------------------------------------------------
(* ThreadPoolAdd *)

LEMMA AddReturnType ==
  ASSUME IInv, NEW t \in Thread, NEW c \in Call, c.job \in Job,
         AddReturn(t, c), UNCHANGED pendingWorkerThreadStart
  PROVE  /\ ThreadsKept
         /\ CallsTyped' /\ ssWaiters' \subseteq Thread
         /\ lastJobId' \in Nat /\ retId' \in [Job -> Nat \cup {-1}]
<1>1. ThreadsKept
  BY SameThreads, SignalKeepsThreads DEF AddReturn
<1>2. CallsTyped' /\ ssWaiters' \subseteq Thread
  BY CallTypes DEF AddReturn
<1>3. lastJobId' \in Nat /\ retId' \in [Job -> Nat \cup {-1}]
  BY DEF AddReturn, AssignId, IInv, TypeOK
<1> QED BY <1>1, <1>2, <1>3

LEMMA AddCreateType ==
  ASSUME IInv, NEW t \in Thread, NEW c \in Call, c.job \in Job,
         AddCreate(t, c)
  PROVE  /\ ThreadsKept
         /\ CallsTyped' /\ ssWaiters' \subseteq Thread
         /\ lastJobId' \in Nat /\ retId' \in [Job -> Nat \cup {-1}]
<1>1. CASE CreateWorker(t, c, attr) /\ UNCHANGED <<lastJobId, retId>>
  BY <1>1, CreateKeepsThreads DEF IInv, TypeOK
<1>2. CASE AddReturn(t, c) /\ UNCHANGED pendingWorkerThreadStart
  BY <1>2, AddReturnType
<1> QED BY <1>1, <1>2 DEF AddCreate

LEMMA AddWorkerType ==
  ASSUME IInv, NEW t \in Thread, NEW c \in Call, c.job \in Job,
         AddWorker(t, c)
  PROVE  /\ ThreadsKept
         /\ CallsTyped' /\ ssWaiters' \subseteq Thread
         /\ lastJobId' \in Nat /\ retId' \in [Job -> Nat \cup {-1}]
BY AddCreateType, AddReturnType DEF AddWorker

LEMMA AddStep ==
  ASSUME IInv, NEW t \in Thread, NEW p \in AddPriorities, ThreadPoolAdd(t, p)
  PROVE  IInv'
<1> DEFINE j == nextJob + 1
           q(ok) == IF ok THEN [jobQ EXCEPT ![p] = Append(@, j)] ELSE jobQ
           c(ok) == [op |-> "add", step |-> "idle", job |-> j,
                     n |-> totalThreads - persistentThreads,
                     jobs |-> QueuedJobs(q(ok)), ok |-> ok]
<1>1. p \in Priority
  BY PoolConstants DEF Priority
<1>2. PICK ok \in BOOLEAN :
        /\ jobQ' = q(ok)
        /\ CreateThreadPoolJob(p, IF ok THEN "live" ELSE "refused")
        /\ AddWorker(t, c(ok))
  BY DEF ThreadPoolAdd
<1>3. nextJob < MaxJobs
  <2>1. IsFiniteSet(Thread)
    BY PoolConstants, FS_Union DEF Thread
  <2>2. Cardinality(Expected) \in Nat
    BY <2>1, FS_Subset, FS_CardinalityType DEF Expected
  <2> QED BY <2>2, PoolConstants DEF ThreadPoolAdd, JobsLeft, IInv, TypeOK
<1>4. /\ j \in Job /\ nextJob' = j /\ nextJob' \in 0 .. MaxJobs
      /\ jobId' \in [Job -> Nat]
      /\ prio' \in [Job -> Priority \cup {"persistent"}]
      /\ requestTime' \in [Job -> Nat]
      /\ fate' \in [Job -> {"none", "live", "refused", "removed", "freed", "ran"}]
      /\ prio'[j] = p
      /\ \A k \in 1 .. nextJob : prio'[k] = prio[k]
  BY <1>1, <1>2, <1>3, CreateJobType
<1>5. jobQ' \in [Priority -> Seq(Job)] /\ QueuedJobs(jobQ') \in Nat
  <2>1. Append(jobQ[p], j) \in Seq(Job)
    BY <1>1, <1>4, AppendProperties DEF IInv, TypeOK
  <2>2. jobQ' \in [Priority -> Seq(Job)]
    BY <1>1, <1>2, <2>1 DEF IInv, TypeOK
  <2>3. \A r \in Priority : Len(jobQ'[r]) \in Nat
    BY <2>2, LenProperties
  <2> QED BY <2>2, <2>3 DEF QueuedJobs, Priority
<1>6. c(ok) \in Call /\ c(ok).job \in Job
  BY <1>2, <1>4, <1>5, RegularThreads DEF Call, Op, CallStepName
<1> HIDE DEF c
<1>7. /\ ThreadsKept /\ CallsTyped' /\ ssWaiters' \subseteq Thread
      /\ lastJobId' \in Nat /\ retId' \in [Job -> Nat \cup {-1}]
  BY <1>2, <1>6, AddWorkerType
<1>8. UNCHANGED <<persistentJob, shutdown, totalThreads, busyThreads,
                  persistentThreads, attr, phase, wjob, mutexLeaked, now>>
  BY DEF ThreadPoolAdd
<1>9. TypeOK'
  BY <1>4, <1>5, <1>7, <1>8 DEF IInv, TypeOK, ThreadsKept, CallsTyped
<1>10. nextJob \in Nat /\ nextJob <= nextJob'
  BY <1>4, PoolConstants DEF IInv, TypeOK
<1>11. /\ CountersAgree'
       /\ \A w \in Worker : /\ wjob'[w] <= nextJob'
                            /\ wjob'[w] # NoJob => wpc'[w] \in {"top", "running"}
  BY <1>4, <1>7, <1>8, <1>10, CountersKept
<1>12. \A r \in Priority : \A i \in DOMAIN jobQ'[r] :
         jobQ'[r][i] <= nextJob' /\ prio'[jobQ'[r][i]] # "persistent"
  <2> SUFFICES ASSUME NEW r \in Priority, NEW i \in DOMAIN jobQ'[r]
               PROVE  jobQ'[r][i] <= nextJob' /\ prio'[jobQ'[r][i]] # "persistent"
    OBVIOUS
  <2>1. jobQ \in [Priority -> Seq(Job)]
    BY DEF IInv, TypeOK
  <2>2. ASSUME NEW k \in DOMAIN jobQ[r]
        PROVE  jobQ[r][k] <= nextJob' /\ prio'[jobQ[r][k]] # "persistent"
    <3>1. jobQ[r][k] \in Job /\ jobQ[r][k] <= nextJob /\ prio[jobQ[r][k]] # "persistent"
      BY <2>1, <2>2, QueueElements DEF IInv, JobsKnown
    <3> QED BY <3>1, <1>4, <1>10 DEF Job
  <2>3. CASE ok /\ r = p
    <3>1. jobQ'[r] = Append(jobQ[r], j)
      BY <2>3, <2>1, <1>1, <1>2
    <3>2. (i \in DOMAIN jobQ[r] /\ jobQ'[r][i] = jobQ[r][i]) \/ jobQ'[r][i] = j
      <4>1. jobQ[r] \in Seq(Job) /\ DOMAIN jobQ[r] = 1 .. Len(jobQ[r]) /\ Len(jobQ[r]) \in Nat
        BY <2>1, QueueElements
      <4>2. DOMAIN jobQ'[r] = 1 .. Len(jobQ'[r])
        BY <1>5, QueueElements
      <4> QED BY <3>1, <4>1, <4>2, <1>4, AppendProperties
    <3>3. prio'[j] # "persistent" /\ j <= nextJob'
      BY <1>1, <1>4, <1>10 DEF Priority
    <3> QED BY <3>2, <3>3, <2>2
  <2>4. CASE ~(ok /\ r = p)
    <3>1. jobQ'[r] = jobQ[r]
      BY <2>4, <2>1, <1>1, <1>2
    <3> QED BY <3>1, <2>2
  <2> QED BY <2>3, <2>4
<1>13. persistentJob' <= nextJob' /\ (persistentJob' # NoJob => prio'[persistentJob'] = "persistent")
  BY <1>4, <1>8, <1>10 DEF IInv, TypeOK, JobsKnown, Job, NoJob
<1> QED BY <1>7, <1>9, <1>11, <1>12, <1>13 DEF IInv, JobsKnown

LEMMA AddContinueStep ==
  ASSUME IInv, NEW t \in Thread, AddContinue(t)
  PROVE  IInv'
<1>1. call[t] \in Call /\ call[t].op = "add" /\ call[t].job \in Job
  BY DEF AddContinue, IInv, CallsTyped
<1>2. CountThread(call[t]) \in Call /\ CountThread(call[t]).job \in Job
  BY <1>1 DEF CountThread, Call
<1>3. /\ ThreadsKept /\ CallsTyped' /\ ssWaiters' \subseteq Thread
      /\ lastJobId' \in Nat /\ retId' \in [Job -> Nat \cup {-1}]
  <2>1. CASE AddCreate(t, call[t])
    BY <2>1, <1>1, AddCreateType
  <2>2. CASE AddWorker(t, CountThread(call[t]))
    BY <2>2, <1>2, AddWorkerType
  <2> QED BY <2>1, <2>2 DEF AddContinue
<1>4. UNCHANGED <<jobQ, persistentJob, shutdown, totalThreads, busyThreads,
                 persistentThreads, attr, phase, wjob, mutexLeaked, nextJob,
                 jobId, prio, requestTime, fate, now>>
  BY DEF AddContinue
<1> QED BY <1>3, <1>4, QuietStep DEF IInv, TypeOK

-----------------------------------------------------------------------------
(* ThreadPoolAddPersistent *)

LEMMA PlacePersistentStep ==
  ASSUME IInv, NEW t \in Thread, PlacePersistent(t),
         UNCHANGED <<persistentFrame, lastJobId, retId, pendingWorkerThreadStart>>
  PROVE  IInv'
<1>1. UNCHANGED <<jobQ, shutdown, totalThreads, busyThreads, persistentThreads,
                  attr, phase, wjob, mutexLeaked, now, lastJobId, retId>>
  BY DEF persistentFrame
<1>2. ASSUME nextJob < MaxJobs, CreateThreadPoolJob("persistent", "live"),
             persistentJob' = nextJob + 1, SignalCondition,
             BlockSS(t, [NoCall EXCEPT !.op = "addPersistent", !.job = nextJob + 1],
                     "pickup")
      PROVE  IInv'
  <2> DEFINE j == nextJob + 1
             c == [NoCall EXCEPT !.op = "addPersistent", !.job = j]
  <2>1. /\ j \in Job /\ nextJob' = j /\ nextJob' \in 0 .. MaxJobs
        /\ jobId' \in [Job -> Nat]
        /\ prio' \in [Job -> Priority \cup {"persistent"}]
        /\ requestTime' \in [Job -> Nat]
        /\ fate' \in [Job -> {"none", "live", "refused", "removed", "freed", "ran"}]
        /\ prio'[j] = "persistent"
        /\ \A k \in 1 .. nextJob : prio'[k] = prio[k]
    BY <1>2, CreateJobType
  <2>2. c \in Call /\ c.op # "add" /\ c.job \in Job /\ BlockSS(t, c, "pickup")
    BY <1>2, <2>1 DEF NoCall, Call, Op, CallStepName
  <2> HIDE DEF c
  <2>3. CallsTyped' /\ ssWaiters' \subseteq Thread
    BY <2>2, CallTypes DEF CallStepName
  <2>4. ThreadsKept
    BY <1>2, SignalKeepsThreads
  <2>5. nextJob \in Nat /\ nextJob <= nextJob'
    BY <2>1, PoolConstants DEF IInv, TypeOK
  <2>6. TypeOK'
    BY <1>1, <1>2, <2>1, <2>3, <2>4 DEF IInv, TypeOK, ThreadsKept, CallsTyped
  <2>7. /\ CountersAgree'
        /\ \A w \in Worker : /\ wjob'[w] <= nextJob'
                             /\ wjob'[w] # NoJob => wpc'[w] \in {"top", "running"}
    BY <1>1, <2>1, <2>4, <2>5, CountersKept
  <2>8. \A r \in Priority : \A i \in DOMAIN jobQ'[r] :
          jobQ'[r][i] <= nextJob' /\ prio'[jobQ'[r][i]] # "persistent"
    <3>1. ASSUME NEW r \in Priority, NEW i \in DOMAIN jobQ[r]
          PROVE  jobQ[r][i] <= nextJob' /\ prio'[jobQ[r][i]] # "persistent"
      <4>1. jobQ[r][i] \in Job /\ jobQ[r][i] <= nextJob /\ prio[jobQ[r][i]] # "persistent"
        BY <3>1, QueueElements DEF IInv, TypeOK, JobsKnown
      <4> QED BY <4>1, <2>1, <2>5 DEF Job
    <3> QED BY <3>1, <1>1
  <2>9. persistentJob' <= nextJob' /\ prio'[persistentJob'] = "persistent"
    BY <1>2, <2>1, <2>5
  <2> QED BY <2>3, <2>6, <2>7, <2>8, <2>9 DEF IInv, JobsKnown
<1>3. CASE /\ Return(t)
           /\ UNCHANGED <<nextJob, jobId, prio, requestTime, fate, persistentJob, wpc>>
  <2>1. ThreadsKept /\ CallsTyped' /\ ssWaiters' \subseteq Thread
    BY <1>3, SameThreads, CallTypes
  <2> QED BY <1>1, <1>3, <2>1, QuietStep DEF IInv, TypeOK
<1> QED BY <1>2, <1>3 DEF PlacePersistent

LEMMA PersistentCreateStep ==
  ASSUME IInv, NEW t \in Thread, PersistentCreate(t),
         UNCHANGED <<persistentFrame, lastJobId, retId>>
  PROVE  IInv'
<1> DEFINE c == [NoCall EXCEPT !.op = "addPersistent"]
<1>1. c \in Call /\ c.op # "add"
  BY DEF NoCall, Call, Op, CallStepName
<1>2. CASE /\ CreateWorker(t, c, attr)
           /\ UNCHANGED <<nextJob, jobId, prio, requestTime, fate, persistentJob>>
  <2> HIDE DEF c
  <2>1. ThreadsKept /\ CallsTyped' /\ ssWaiters' \subseteq Thread
    BY <1>1, <1>2, CreateKeepsThreads
  <2> QED BY <1>2, <2>1, QuietStep DEF persistentFrame, IInv, TypeOK
<1>3. CASE PlacePersistent(t) /\ UNCHANGED pendingWorkerThreadStart
  BY <1>3, PlacePersistentStep
<1> QED BY <1>2, <1>3 DEF PersistentCreate

LEMMA AddPersistentStep ==
  ASSUME IInv, NEW t \in Thread,
         ThreadPoolAddPersistent(t) \/ PersistentContinue(t)
  PROVE  IInv'
BY PersistentCreateStep, PlacePersistentStep
   DEF ThreadPoolAddPersistent, PersistentContinue

LEMMA PickupStep ==
  ASSUME IInv, NEW t \in Thread, PersistentPickup(t)
  PROVE  IInv'
<1>1. call[t] \in Call /\ call[t].job \in Job /\ call[t].op # "add"
  BY DEF PersistentPickup, Resumed, IInv, CallsTyped
<1>2. ThreadsKept
  BY SameThreads DEF PersistentPickup
<1>3. /\ CallsTyped' /\ ssWaiters' \subseteq Thread
      /\ lastJobId' \in Nat /\ retId' \in [Job -> Nat \cup {-1}]
  <2>1. CASE BlockSS(t, call[t], "pickup") /\ UNCHANGED <<lastJobId, retId>>
    BY <2>1, <1>1, CallTypes DEF CallStepName, IInv, TypeOK
  <2>2. CASE AssignId(call[t].job) /\ Return(t)
    BY <2>2, <1>1, CallTypes DEF AssignId, IInv, TypeOK
  <2> QED BY <2>1, <2>2 DEF PersistentPickup
<1> QED BY <1>2, <1>3, QuietStep DEF PersistentPickup, persistentFrame, IInv, TypeOK

-----------------------------------------------------------------------------
(* The other calls *)

LEMMA RemoveStep ==
  ASSUME IInv, NEW t \in Thread, NEW id, ThreadPoolRemove(t, id)
  PROVE  IInv'
<1>1. /\ UNCHANGED <<lastJobId, shutdown, totalThreads, pendingWorkerThreadStart,
                     busyThreads, persistentThreads, attr, phase, wpc, wjob,
                     call, ssWaiters, mutexLeaked, nextJob, jobId, prio,
                     requestTime, retId, now>>
  BY DEF ThreadPoolRemove, workerVars, callVars
<1>2. jobQ \in [Priority -> Seq(Job)]
  BY DEF IInv, TypeOK
<1>3. ThreadsKept
  BY <1>1, SameThreads
<1>4. CountersAgree'
      /\ \A w \in Worker : /\ wjob'[w] <= nextJob'
                           /\ wjob'[w] # NoJob => wpc'[w] \in {"top", "running"}
  BY <1>1, <1>3, CountersKept, PoolConstants DEF IInv, TypeOK
<1>5. ASSUME NEW p \in Priority, RemoveFrom(p, id)
      PROVE  IInv'
  <2>1. PICK i \in DOMAIN jobQ[p] :
          /\ jobQ' = [jobQ EXCEPT ![p] = RemoveAt(@, i)]
          /\ fate' = [fate EXCEPT ![jobQ[p][i]] = "removed"]
          /\ UNCHANGED persistentJob
    BY <1>5 DEF RemoveFrom, WithId
  <2>2. /\ jobQ[p] \in Seq(Job) /\ jobQ[p][i] \in Job
        /\ jobQ'[p] = RemoveAt(jobQ[p], i)
        /\ \A r \in Priority \ {p} : jobQ'[r] = jobQ[r]
    BY <1>2, <2>1, QueueElements
  <2>3. /\ jobQ'[p] \in Seq(Job)
        /\ \A k \in DOMAIN jobQ'[p] : \E h \in DOMAIN jobQ[p] : jobQ'[p][k] = jobQ[p][h]
    BY <2>2, RemoveAtType
  <2>4. jobQ' \in [Priority -> Seq(Job)]
    BY <1>2, <2>1, <2>2, <2>3
  <2>5. fate' \in [Job -> {"none", "live", "refused", "removed", "freed", "ran"}]
    BY <2>1, <2>2 DEF IInv, TypeOK
  <2>9. TypeOK'
    BY <1>1, <2>1, <2>4, <2>5 DEF IInv, TypeOK
  <2>10. \A r \in Priority : \A k \in DOMAIN jobQ'[r] :
           jobQ'[r][k] <= nextJob' /\ prio'[jobQ'[r][k]] # "persistent"
    <3>1. \A r \in Priority : \A k \in DOMAIN jobQ[r] :
            jobQ[r][k] <= nextJob /\ prio[jobQ[r][k]] # "persistent"
      BY DEF IInv, JobsKnown
    <3>2. \A k \in DOMAIN jobQ'[p] : jobQ'[p][k] <= nextJob /\ prio[jobQ'[p][k]] # "persistent"
      BY <3>1, <2>3
    <3> QED BY <1>1, <2>2, <3>1, <3>2
  <2> QED BY <1>1, <1>4, <2>1, <2>9, <2>10 DEF IInv, JobsKnown, CallsTyped
<1>6. CASE /\ persistentJob # NoJob /\ persistentJob' = NoJob
           /\ fate' = [fate EXCEPT ![persistentJob] = "removed"]
           /\ UNCHANGED jobQ
  <2>1. TypeOK'
    BY <1>1, <1>6 DEF IInv, TypeOK
  <2>2. nextJob \in Nat
    BY PoolConstants DEF IInv, TypeOK
  <2> QED BY <1>1, <1>4, <1>6, <2>1, <2>2 DEF IInv, JobsKnown, CallsTyped, NoJob
<1> QED BY <1>5, <1>6 DEF ThreadPoolRemove, Priority

LEMMA DrainType ==
  ASSUME IInv, NEW t \in Thread, DrainOrDestroy(t)
  PROVE  CallsTyped' /\ ssWaiters' \subseteq Thread /\ phase' \in {"init", "up", "destroyed"}
BY CallTypes DEF DrainOrDestroy, IInv, TypeOK, NoCall, Call, CallStepName, Op

LEMMA ShutdownStep ==
  ASSUME IInv, NEW t \in Thread, ShutdownBegin(t)
  PROVE  IInv'
<1>1. UNCHANGED <<lastJobId, totalThreads, pendingWorkerThreadStart, busyThreads,
                  persistentThreads, attr, wjob, mutexLeaked, nextJob, jobId,
                  prio, requestTime, retId, now>>
  BY DEF ShutdownBegin
<1>2. ThreadsKept
  <2>1. wpc' = [w \in Worker |-> IF wpc[w] = "waiting" THEN "signalled" ELSE wpc[w]]
    BY DEF ShutdownBegin
  <2>2. wpc' \in [Worker -> WorkerState]
    BY <2>1 DEF IInv, TypeOK, WorkerState
  <2>3. Alive' = Alive /\ Starting' = Starting
    BY <2>1 DEF Alive, Starting
  <2>4. \A w \in Worker : wpc[w] \in {"top", "running"} => wpc'[w] \in {"top", "running"}
    BY <2>1
  <2> QED BY <1>1, <2>2, <2>3, <2>4 DEF ThreadsKept, IInv, TypeOK, CountersAgree, Starting
<1>3. CallsTyped' /\ ssWaiters' \subseteq Thread /\ phase' \in {"init", "up", "destroyed"}
  BY DrainType DEF ShutdownBegin
<1>4. /\ jobQ' = [p \in Priority |-> <<>>] /\ persistentJob' = NoJob /\ shutdown' = 1
      /\ fate' \in [Job -> {"none", "live", "refused", "removed", "freed", "ran"}]
  BY DEF ShutdownBegin, IInv, TypeOK
<1>5. TypeOK'
  <2>1. jobQ' \in [Priority -> Seq(Job)]
    BY <1>4, EmptySeq
  <2> QED BY <1>1, <1>2, <1>3, <1>4, <2>1 DEF IInv, TypeOK, ThreadsKept, CallsTyped
<1>6. nextJob \in Nat
  BY PoolConstants DEF IInv, TypeOK
<1>7. CountersAgree'
      /\ \A w \in Worker : /\ wjob'[w] <= nextJob'
                           /\ wjob'[w] # NoJob => wpc'[w] \in {"top", "running"}
  BY <1>1, <1>2, <1>6, CountersKept DEF IInv, TypeOK
<1>8. \A p \in Priority : DOMAIN jobQ'[p] = {}
  BY <1>4
<1> QED BY <1>1, <1>3, <1>4, <1>5, <1>6, <1>7, <1>8 DEF IInv, JobsKnown, NoJob

\* The loops of ThreadPoolInit and ThreadPoolSetAttr.
LEMMA LoopEndType ==
  ASSUME IInv, NEW t \in Thread, NEW c \in Call, c.op # "add", NEW done \in BOOLEAN,
         LoopEnd(t, c, done), UNCHANGED pendingWorkerThreadStart
  PROVE  /\ ThreadsKept /\ CallsTyped' /\ ssWaiters' \subseteq Thread
         /\ phase' \in {"init", "up", "destroyed"}
<1>1. ThreadsKept
  BY SameThreads, SignalKeepsThreads DEF LoopEnd
<1>2. phase' \in {"init", "up", "destroyed"}
  BY DEF LoopEnd, IInv, TypeOK
<1>3. CASE done
  BY <1>1, <1>2, <1>3, CallTypes DEF LoopEnd
<1>4. CASE ~done
  <2> DEFINE d == [c EXCEPT !.step = "cleanup"]
  <2>1. d \in Call /\ d.op # "add" /\ d.step = "cleanup"
    BY DEF Call, CallStepName
  <2>2. call' = [call EXCEPT ![t] = d] /\ UNCHANGED ssWaiters
    BY <1>4 DEF LoopEnd
  <2> HIDE DEF d
  <2> QED BY <1>1, <1>2, <2>1, <2>2 DEF IInv, TypeOK, CallsTyped
<1> QED BY <1>3, <1>4

LEMMA MinThreadsCreateType ==
  ASSUME IInv, NEW t \in Thread, NEW c \in Call, c.op # "add", NEW a,
         MinThreadsCreate(t, c, a)
  PROVE  /\ ThreadsKept /\ CallsTyped' /\ ssWaiters' \subseteq Thread
         /\ phase' \in {"init", "up", "destroyed"}
<1>1. CASE CreateWorker(t, c, a) /\ UNCHANGED phase
  BY <1>1, CreateKeepsThreads DEF IInv, TypeOK
<1>2. CASE LoopEnd(t, c, FALSE) /\ UNCHANGED pendingWorkerThreadStart
  BY <1>2, LoopEndType
<1> QED BY <1>1, <1>2 DEF MinThreadsCreate

LEMMA MinThreadsLoopType ==
  ASSUME IInv, NEW t \in Thread, NEW c \in Call, c.op # "add", NEW a,
         MinThreadsLoop(t, c, a)
  PROVE  /\ ThreadsKept /\ CallsTyped' /\ ssWaiters' \subseteq Thread
         /\ phase' \in {"init", "up", "destroyed"}
BY MinThreadsCreateType, LoopEndType DEF MinThreadsLoop

LEMMA MinThreadsStep ==
  ASSUME IInv, NEW t \in Thread,
         \/ ThreadPoolInit(t)
         \/ \E a \in Attrs : ThreadPoolSetAttr(t, a)
         \/ MinThreadsContinue(t)
  PROVE  IInv'
<1>1. call[t] \in Call
  BY CallTypes
<1>2. ASSUME ThreadsKept, CallsTyped', ssWaiters' \subseteq Thread,
             phase' \in {"init", "up", "destroyed"}, UNCHANGED minThreadsFrame,
             attr' \in Attr
      PROVE  IInv'
  BY <1>2, QuietStep DEF minThreadsFrame, jobVars, IInv, TypeOK
<1>3. CASE ThreadPoolInit(t)
  <2>1. call[t].op # "add"
    BY <1>3 DEF ThreadPoolInit, Resumed, IInv, CallsTyped
  <2> QED BY <1>1, <1>2, <1>3, <2>1, MinThreadsLoopType DEF ThreadPoolInit, IInv, TypeOK
<1>4. ASSUME NEW a \in Attrs, ThreadPoolSetAttr(t, a)
      PROVE  IInv'
  <2> DEFINE c == [NoCall EXCEPT !.op = "setAttr", !.n = totalThreads]
  <2>1. c \in Call /\ c.op # "add" /\ MinThreadsLoop(t, c, a)
    BY <1>4 DEF ThreadPoolSetAttr, NoCall, Call, Op, CallStepName, IInv, TypeOK
  <2> HIDE DEF c
  <2>2. attr' \in Attr /\ UNCHANGED minThreadsFrame
    BY <1>4, PoolConstants DEF ThreadPoolSetAttr
  <2> QED BY <1>2, <2>1, <2>2, MinThreadsLoopType
<1>5. CASE MinThreadsContinue(t)
  <2> DEFINE c == [call[t] EXCEPT !.n = @ + 1]
  <2>1. call[t].op # "add"
    BY <1>5 DEF MinThreadsContinue
  <2>2. c \in Call /\ c.op # "add"
    BY <1>1, <2>1 DEF Call
  <2>3. UNCHANGED minThreadsFrame /\ attr' \in Attr
    BY <1>5 DEF MinThreadsContinue, IInv, TypeOK
  <2>4. CASE MinThreadsCreate(t, call[t], attr)
    BY <1>1, <1>2, <2>1, <2>3, <2>4, MinThreadsCreateType
  <2>5. CASE MinThreadsLoop(t, c, attr)
    <3> HIDE DEF c
    <3> QED BY <1>2, <2>2, <2>3, <2>5, MinThreadsLoopType
  <2> QED BY <1>5, <2>4, <2>5 DEF MinThreadsContinue
<1> QED BY <1>3, <1>4, <1>5

-----------------------------------------------------------------------------
(* The workers *)

LEMMA WorkerStartStep ==
  ASSUME IInv, NEW w \in Worker, WorkerStart(w)
  PROVE  IInv'
<1>1. /\ wpc[w] = "starting" /\ wpc' = [wpc EXCEPT ![w] = "top"]
      /\ totalThreads' = totalThreads + 1 /\ pendingWorkerThreadStart' = 0
      /\ ssWaiters' = {}
      /\ UNCHANGED <<jobQ, persistentJob, lastJobId, shutdown, busyThreads,
                     persistentThreads, attr, phase, wjob, call, mutexLeaked,
                     nextJob, jobId, prio, requestTime, fate, retId, now>>
  BY DEF WorkerStart, jobVars
<1>2. TypeOK'
  BY <1>1 DEF IInv, TypeOK, WorkerState
<1>3. /\ Alive' = Alive \cup {w} /\ w \notin Alive
      /\ Starting' = Starting \ {w} /\ w \in Starting
      /\ Working' = Working /\ Lasting' = Lasting
  BY <1>1 DEF IInv, TypeOK, Alive, Starting, Working, Lasting, IsPersistent
<1>4. Cardinality(Alive') = Cardinality(Alive) + 1
  <2>1. Cardinality(Alive \cup {w}) = Cardinality(Alive) + 1
    BY <1>3, WorkerSetsFinite, FS_AddElement
  <2> QED BY <1>3, <2>1
<1>5. Cardinality(Starting') = 0
  <2>1. Cardinality(Starting \ {w}) = Cardinality(Starting) - 1
    BY <1>3, WorkerSetsFinite, FS_RemoveElement
  <2>2. Cardinality(Starting) \in {0, 1}
    BY DEF IInv, TypeOK, CountersAgree, Starting
  <2>3. Cardinality(Starting) # 0
    BY <1>3, WorkerSetsFinite, FS_EmptySet
  <2> QED BY <1>3, <2>1, <2>2, <2>3
<1>6. CountersAgree'
  BY <1>1, <1>3, <1>4, <1>5 DEF IInv, CountersAgree, Alive, Starting, Working, Lasting
<1>7. JobsKnown' /\ CallsTyped'
  BY <1>1 DEF IInv, TypeOK, JobsKnown, CallsTyped
<1> QED BY <1>2, <1>6, <1>7 DEF IInv

\* A worker that is done with its job is off the counters.
LEMMA JobOffCounters ==
  ASSUME IInv, NEW w \in Worker
  PROVE  /\ Busy(w) = Cardinality(Working \ {w}) /\ Busy(w) \in Nat
         /\ Long(w) = Cardinality(Lasting \ {w}) /\ Long(w) \in Nat
         /\ IsFiniteSet(Working \ {w}) /\ IsFiniteSet(Lasting \ {w})
<1>1. busyThreads = Cardinality(Working) /\ persistentThreads = Cardinality(Lasting)
  BY DEF IInv, CountersAgree, Working, Lasting
<1>2. /\ IsFiniteSet(Working \ {w})
      /\ Cardinality(Working \ {w}) =
           IF w \in Working THEN Cardinality(Working) - 1 ELSE Cardinality(Working)
  BY WorkerSetsFinite, FS_RemoveElement
<1>3. /\ IsFiniteSet(Lasting \ {w})
      /\ Cardinality(Lasting \ {w}) =
           IF w \in Lasting THEN Cardinality(Lasting) - 1 ELSE Cardinality(Lasting)
  BY WorkerSetsFinite, FS_RemoveElement
<1>4. (w \in Working <=> wjob[w] # NoJob) /\ (w \in Lasting <=> IsPersistent(wjob[w]))
  BY DEF Working, Lasting
<1>5. Cardinality(Working \ {w}) \in Nat /\ Cardinality(Lasting \ {w}) \in Nat
  BY <1>2, <1>3, FS_CardinalityType
<1>6. Busy(w) = Cardinality(Working \ {w})
  BY <1>1, <1>2, <1>4, WorkerSetsFinite DEF Busy
<1>7. Long(w) = Cardinality(Lasting \ {w})
  BY <1>1, <1>3, <1>4, WorkerSetsFinite DEF Long
<1> QED BY <1>2, <1>3, <1>5, <1>6, <1>7

\* What a step of worker w that does not start a job does to the sets.
LEMMA WorkerSheds ==
  ASSUME IInv, NEW w \in Worker, wjob' = [wjob EXCEPT ![w] = NoJob], UNCHANGED prio
  PROVE  Working' = Working \ {w} /\ Lasting' = Lasting \ {w}
BY DEF IInv, TypeOK, Working, Lasting, IsPersistent

LEMMA WorkerExitStep ==
  ASSUME IInv, NEW w \in Worker, WorkerExit(w),
         wpc[w] \in {"top", "signalled", "timedout"},
         jobQ' \in [Priority -> Seq(Job)],
         \A p \in Priority : \A i \in DOMAIN jobQ'[p] :
           \E r \in Priority : \E k \in DOMAIN jobQ[r] : jobQ'[p][i] = jobQ[r][k],
         UNCHANGED <<lastJobId, shutdown, pendingWorkerThreadStart, attr, phase,
                     call, mutexLeaked, jobVars, now>>
  PROVE  IInv'
<1>1. /\ totalThreads' = totalThreads - 1 /\ ssWaiters' = {}
      /\ wpc' = [wpc EXCEPT ![w] = "none"]
      /\ wjob' = [wjob EXCEPT ![w] = NoJob]
      /\ busyThreads' = Busy(w) /\ persistentThreads' = Long(w)
      /\ UNCHANGED <<persistentJob, lastJobId, shutdown, pendingWorkerThreadStart,
                     attr, phase, call, mutexLeaked, nextJob, jobId, prio,
                     requestTime, fate, retId, now>>
  BY DEF WorkerExit, jobVars
<1>2. /\ Alive' = Alive \ {w} /\ w \in Alive /\ Starting' = Starting
      /\ Working' = Working \ {w} /\ Lasting' = Lasting \ {w}
  <2>1. Alive' = Alive \ {w} /\ w \in Alive /\ Starting' = Starting
    BY <1>1 DEF IInv, TypeOK, Alive, Starting
  <2> QED BY <1>1, <2>1, WorkerSheds
<1>3. Cardinality(Alive') = Cardinality(Alive) - 1 /\ Cardinality(Alive) # 0
  <2>1. Cardinality(Alive \ {w}) = Cardinality(Alive) - 1
    BY <1>2, WorkerSetsFinite, FS_RemoveElement
  <2>2. Cardinality(Alive) # 0
    BY <1>2, WorkerSetsFinite, FS_EmptySet
  <2> QED BY <1>2, <2>1, <2>2
<1>4. CountersAgree'
  BY <1>1, <1>2, <1>3, JobOffCounters
     DEF IInv, CountersAgree, Alive, Starting, Working, Lasting
<1>5. totalThreads' \in Nat
  BY <1>1, <1>3, WorkerSetsFinite DEF IInv, CountersAgree, Alive
<1>6. TypeOK'
  BY <1>1, <1>5, JobOffCounters DEF IInv, TypeOK, WorkerState
<1>7. \A p \in Priority : \A i \in DOMAIN jobQ'[p] :
        jobQ'[p][i] <= nextJob' /\ prio'[jobQ'[p][i]] # "persistent"
  BY <1>1 DEF IInv, JobsKnown
<1>8. \A v \in Worker : wjob'[v] <= nextJob' /\ (wjob'[v] # NoJob => wpc'[v] \in {"top", "running"})
  <2>1. nextJob \in Nat
    BY PoolConstants DEF IInv, TypeOK
  <2> QED BY <1>1, <2>1 DEF IInv, TypeOK, JobsKnown, NoJob
<1> QED BY <1>1, <1>4, <1>6, <1>7, <1>8 DEF IInv, JobsKnown, CallsTyped

LEMMA WorkerWaitStep ==
  ASSUME IInv, NEW w \in Worker, WorkerWait(w),
         wpc[w] \in {"top", "signalled", "timedout"},
         UNCHANGED <<lastJobId, shutdown, pendingWorkerThreadStart, attr, phase,
                     call, mutexLeaked, jobVars, now>>
  PROVE  IInv'
<1>1. /\ wpc' = [wpc EXCEPT ![w] = "waiting"]
      /\ wjob' = [wjob EXCEPT ![w] = NoJob]
      /\ busyThreads' = Busy(w) /\ persistentThreads' = Long(w)
      /\ UNCHANGED <<jobQ, persistentJob, totalThreads, ssWaiters, lastJobId,
                     shutdown, pendingWorkerThreadStart, attr, phase, call,
                     mutexLeaked, nextJob, jobId, prio, requestTime, fate, retId, now>>
  BY DEF WorkerWait, jobVars
<1>2. /\ Alive' = Alive /\ Starting' = Starting
      /\ Working' = Working \ {w} /\ Lasting' = Lasting \ {w}
  <2>1. Alive' = Alive /\ Starting' = Starting
    BY <1>1 DEF IInv, TypeOK, Alive, Starting
  <2> QED BY <1>1, <2>1, WorkerSheds
<1>3. CountersAgree'
  BY <1>1, <1>2, JobOffCounters
     DEF IInv, CountersAgree, Alive, Starting, Working, Lasting
<1>4. TypeOK'
  BY <1>1, JobOffCounters DEF IInv, TypeOK, WorkerState
<1>5. \A v \in Worker : wjob'[v] <= nextJob' /\ (wjob'[v] # NoJob => wpc'[v] \in {"top", "running"})
  <2>1. nextJob \in Nat
    BY PoolConstants DEF IInv, TypeOK
  <2> QED BY <1>1, <2>1 DEF IInv, TypeOK, JobsKnown, NoJob
<1> QED BY <1>1, <1>3, <1>4, <1>5 DEF IInv, JobsKnown, CallsTyped

\* With a job queued, TopQueue finds a queue that is not empty.
LEMMA TopQueueNonempty ==
  ASSUME NEW q \in [Priority -> Seq(Job)], QueuedJobs(q) # 0
  PROVE  TopQueue(q) \in Priority /\ q[TopQueue(q)] # <<>>
<1>1. Len(<<>>) = 0
  OBVIOUS
<1>2. QueuedJobs(q) = Len(q["high"]) + Len(q["med"]) + Len(q["low"])
  BY DEF QueuedJobs
<1>3. ASSUME q["high"] = <<>>, q["med"] = <<>>, q["low"] = <<>>
      PROVE  FALSE
  <2>1. QueuedJobs(q) = 0 + 0 + 0
    BY <1>1, <1>2, <1>3
  <2> QED BY <2>1
<1> QED BY <1>3 DEF TopQueue, Priority

\* What a worker that takes job j does to the counters.
LEMMA WorkerTakes ==
  ASSUME IInv, NEW w \in Worker, NEW j \in Job, j <= nextJob,
         wpc[w] \in {"top", "signalled", "timedout"},
         wjob' = [wjob EXCEPT ![w] = j], wpc' = [wpc EXCEPT ![w] = "running"],
         busyThreads' = Busy(w) + 1,
         persistentThreads' = Long(w) + (IF prio[j] = "persistent" THEN 1 ELSE 0),
         UNCHANGED <<totalThreads, pendingWorkerThreadStart, prio, nextJob>>
  PROVE  /\ CountersAgree'
         /\ wpc' \in [Worker -> WorkerState] /\ wjob' \in [Worker -> Job \cup {NoJob}]
         /\ busyThreads' \in Nat /\ persistentThreads' \in Nat
         /\ \A v \in Worker : /\ wjob'[v] <= nextJob'
                              /\ wjob'[v] # NoJob => wpc'[v] \in {"top", "running"}
<1>1. j # NoJob
  BY DEF Job, NoJob
<1>2. wpc' \in [Worker -> WorkerState] /\ wjob' \in [Worker -> Job \cup {NoJob}]
  BY DEF IInv, TypeOK, WorkerState
<1>3. Alive' = Alive /\ Starting' = Starting
  BY DEF IInv, TypeOK, Alive, Starting
<1>4. Working' = (Working \ {w}) \cup {w}
  BY <1>1 DEF IInv, TypeOK, Working
<1>5. Lasting' = IF prio[j] = "persistent" THEN (Lasting \ {w}) \cup {w} ELSE Lasting \ {w}
  BY <1>1 DEF IInv, TypeOK, Lasting, IsPersistent
<1>6. Cardinality((Working \ {w}) \cup {w}) = Busy(w) + 1
  <2>1. IsFiniteSet(Working \ {w}) /\ w \notin Working \ {w}
    BY JobOffCounters
  <2>2. Cardinality((Working \ {w}) \cup {w}) = Cardinality(Working \ {w}) + 1
    BY <2>1, FS_AddElement
  <2> QED BY <2>2, JobOffCounters
<1>7. Cardinality((Lasting \ {w}) \cup {w}) = Long(w) + 1
  <2>1. IsFiniteSet(Lasting \ {w}) /\ w \notin Lasting \ {w}
    BY JobOffCounters
  <2>2. Cardinality((Lasting \ {w}) \cup {w}) = Cardinality(Lasting \ {w}) + 1
    BY <2>1, FS_AddElement
  <2> QED BY <2>2, JobOffCounters
<1>8. /\ busyThreads' = Cardinality(Working') /\ persistentThreads' = Cardinality(Lasting')
      /\ busyThreads' \in Nat /\ persistentThreads' \in Nat
  <2>a. Busy(w) \in Nat /\ Long(w) \in Nat /\ Long(w) = Cardinality(Lasting \ {w})
    BY JobOffCounters
  <2>b. Cardinality(Working') = Busy(w) + 1
    BY <1>4, <1>6
  <2>1. busyThreads' = Cardinality(Working') /\ busyThreads' \in Nat
    BY <2>a, <2>b
  <2>2. CASE prio[j] = "persistent"
    <3>1. Cardinality(Lasting') = Long(w) + 1
      BY <2>2, <1>5, <1>7
    <3> QED BY <2>1, <2>2, <2>a, <3>1
  <2>3. CASE prio[j] # "persistent"
    <3>1. Cardinality(Lasting') = Long(w)
      BY <2>3, <2>a, <1>5
    <3> QED BY <2>1, <2>3, <2>a, <3>1
  <2> QED BY <2>2, <2>3
<1>9. CountersAgree'
  BY <1>3, <1>8 DEF IInv, CountersAgree, Alive, Starting, Working, Lasting
<1>10. \A v \in Worker : /\ wjob'[v] <= nextJob'
                         /\ wjob'[v] # NoJob => wpc'[v] \in {"top", "running"}
  BY DEF IInv, TypeOK, JobsKnown
<1> QED BY <1>2, <1>8, <1>9, <1>10

LEMMA WorkerPickStep ==
  ASSUME IInv, NEW w \in Worker, WorkerPick(w), ~Idle, shutdown = 0,
         wpc[w] \in {"top", "signalled", "timedout"},
         UNCHANGED <<lastJobId, shutdown, pendingWorkerThreadStart, attr, phase,
                     call, mutexLeaked, jobVars, now>>
  PROVE  IInv'
<1> DEFINE q == BumpPriority(jobQ)
           p == TopQueue(q)
<1>1. /\ wpc' = [wpc EXCEPT ![w] = "running"] /\ busyThreads' = Busy(w) + 1
      /\ UNCHANGED <<totalThreads, lastJobId, shutdown, pendingWorkerThreadStart,
                     attr, phase, call, mutexLeaked, nextJob, jobId, prio,
                     requestTime, fate, retId, now>>
  BY DEF WorkerPick, jobVars
<1>2. /\ q \in [Priority -> Seq(Job)] /\ QueuedJobs(q) = QueuedJobs(jobQ)
      /\ \A r \in Priority : \A i \in DOMAIN q[r] :
           q[r][i] \in Job /\ q[r][i] <= nextJob /\ prio[q[r][i]] # "persistent"
  <2>1. jobQ \in [Priority -> Seq(Job)]
    BY DEF IInv, TypeOK
  <2>2. /\ q \in [Priority -> Seq(Job)] /\ QueuedJobs(q) = QueuedJobs(jobQ)
        /\ \A r \in Priority : \A i \in DOMAIN q[r] :
             \E r2 \in Priority : \E k \in DOMAIN jobQ[r2] : q[r][i] = jobQ[r2][k]
    BY <2>1, BumpPriorityType
  <2>3. \A r \in Priority : \A k \in DOMAIN jobQ[r] :
          jobQ[r][k] \in Job /\ jobQ[r][k] <= nextJob /\ prio[jobQ[r][k]] # "persistent"
    BY <2>1, QueueElements DEF IInv, JobsKnown
  <2> HIDE DEF q
  <2> QED BY <2>2, <2>3
<1>3. CASE /\ persistentJob # NoJob
           /\ wjob' = [wjob EXCEPT ![w] = persistentJob]
           /\ persistentJob' = NoJob
           /\ persistentThreads' = Long(w) + 1
           /\ ssWaiters' = {}
           /\ jobQ' = q
  <2>1. persistentJob \in Job /\ persistentJob <= nextJob /\ prio[persistentJob] = "persistent"
    BY <1>3 DEF IInv, TypeOK, JobsKnown
  <2>2. /\ CountersAgree'
        /\ wpc' \in [Worker -> WorkerState] /\ wjob' \in [Worker -> Job \cup {NoJob}]
        /\ busyThreads' \in Nat /\ persistentThreads' \in Nat
        /\ \A v \in Worker : /\ wjob'[v] <= nextJob'
                             /\ wjob'[v] # NoJob => wpc'[v] \in {"top", "running"}
    BY <1>1, <1>3, <2>1, WorkerTakes
  <2> HIDE DEF q
  <2>3. TypeOK'
    BY <1>1, <1>2, <1>3, <2>2 DEF IInv, TypeOK
  <2>4. nextJob \in Nat
    BY PoolConstants DEF IInv, TypeOK
  <2> QED BY <1>1, <1>2, <1>3, <2>2, <2>3, <2>4 DEF IInv, JobsKnown, CallsTyped, NoJob
<1>4. CASE /\ persistentJob = NoJob
           /\ wjob' = [wjob EXCEPT ![w] = Head(q[p])]
           /\ jobQ' = [q EXCEPT ![p] = Tail(@)]
           /\ persistentThreads' = Long(w)
           /\ UNCHANGED <<persistentJob, ssWaiters>>
  <2>1. QueuedJobs(jobQ) # 0
    BY <1>4 DEF Idle
  <2>2. p \in Priority /\ q[p] # <<>>
    BY <1>2, <2>1, TopQueueNonempty
  <2> HIDE DEF q, p
  <2>3. /\ q[p] \in Seq(Job) /\ Len(q[p]) \in Nat /\ DOMAIN q[p] = 1 .. Len(q[p])
        /\ Tail(q[p]) \in Seq(Job)
        /\ Len(Tail(q[p])) = Len(q[p]) - 1
        /\ \A i \in 1 .. Len(Tail(q[p])) : Tail(q[p])[i] = q[p][i + 1]
    BY <1>2, <2>2, HeadTailProperties, LenProperties
  <2>4. Len(q[p]) # 0 /\ Head(q[p]) = q[p][1] /\ 1 \in DOMAIN q[p]
    BY <2>2, <2>3
  <2>5. Head(q[p]) \in Job /\ Head(q[p]) <= nextJob /\ prio[Head(q[p])] # "persistent"
    BY <1>2, <2>2, <2>4
  <2>6. Long(w) \in Nat
    BY JobOffCounters
  <2>7. /\ CountersAgree'
        /\ wpc' \in [Worker -> WorkerState] /\ wjob' \in [Worker -> Job \cup {NoJob}]
        /\ busyThreads' \in Nat /\ persistentThreads' \in Nat
        /\ \A v \in Worker : /\ wjob'[v] <= nextJob'
                             /\ wjob'[v] # NoJob => wpc'[v] \in {"top", "running"}
    <3>1. persistentThreads' = Long(w) + (IF prio[Head(q[p])] = "persistent" THEN 1 ELSE 0)
      BY <1>4, <2>5, <2>6
    <3> QED BY <1>1, <1>4, <2>5, <3>1, WorkerTakes
  <2>8. jobQ' \in [Priority -> Seq(Job)]
    BY <1>2, <1>4, <2>2, <2>3
  <2>9. \A r \in Priority : \A i \in DOMAIN jobQ'[r] :
          jobQ'[r][i] <= nextJob' /\ prio'[jobQ'[r][i]] # "persistent"
    <3>1. \A r \in Priority : r # p => jobQ'[r] = q[r]
      BY <1>2, <1>4
    <3>2. jobQ'[p] = Tail(q[p])
      BY <1>2, <1>4, <2>2
    <3>3. DOMAIN Tail(q[p]) = 1 .. Len(Tail(q[p]))
      BY <2>3, LenProperties
    <3>4. \A i \in DOMAIN jobQ'[p] : i + 1 \in DOMAIN q[p] /\ jobQ'[p][i] = q[p][i + 1]
      BY <3>2, <3>3, <2>3
    <3> QED BY <1>1, <1>2, <3>1, <3>4
  <2>10. TypeOK'
    BY <1>1, <1>4, <2>7, <2>8 DEF IInv, TypeOK
  <2> QED BY <1>1, <1>4, <2>7, <2>9, <2>10 DEF IInv, JobsKnown, CallsTyped
<1> QED BY <1>3, <1>4 DEF WorkerPick

LEMMA WorkerLoopStep ==
  ASSUME IInv, NEW w \in Worker, WorkerStep(w)
  PROVE  IInv'
<1>1. /\ wpc[w] \in {"top", "signalled", "timedout"}
      /\ UNCHANGED <<lastJobId, shutdown, pendingWorkerThreadStart, attr, phase,
                     call, mutexLeaked, jobVars, now>>
  BY DEF WorkerStep
<1>2. jobQ \in [Priority -> Seq(Job)]
  BY DEF IInv, TypeOK
<1>3. CASE WorkerExit(w) /\ UNCHANGED jobQ
  BY <1>1, <1>2, <1>3, WorkerExitStep
<1>4. CASE WorkerWait(w)
  BY <1>1, <1>4, WorkerWaitStep
<1>5. CASE WorkerExit(w) /\ jobQ' = BumpPriority(jobQ)
  <2>1. /\ jobQ' \in [Priority -> Seq(Job)]
        /\ \A p \in Priority : \A i \in DOMAIN jobQ'[p] :
             \E r \in Priority : \E k \in DOMAIN jobQ[r] : jobQ'[p][i] = jobQ[r][k]
    BY <1>2, <1>5, BumpPriorityType
  <2> QED BY <1>1, <1>5, <2>1, WorkerExitStep
<1>6. CASE shutdown = 0 /\ ~Idle /\ WorkerPick(w)
  BY <1>1, <1>6, WorkerPickStep
<1> QED BY <1>3, <1>4, <1>5, <1>6 DEF WorkerStep

-----------------------------------------------------------------------------
(* The steps that touch neither queues nor counters *)

LEMMA OtherCallStep ==
  ASSUME IInv, NEW t \in Thread,
         \/ StartStillPending(t) \/ ShutdownContinue(t)
         \/ GetAttrTest(t) \/ GetAttrCopy(t)
  PROVE  IInv'
<1>1. call[t] \in Call
  BY CallTypes
<1>2. CASE StartStillPending(t)
  <2>1. call[t].op = "add" => call[t].job \in Job
    BY DEF IInv, CallsTyped
  <2>2. BlockSS(t, call[t], "cwStarted")
    BY <1>2 DEF StartStillPending
  <2>3. ThreadsKept /\ CallsTyped' /\ ssWaiters' \subseteq Thread
    BY <1>1, <1>2, <2>1, <2>2, CallTypes, SameThreads
       DEF StartStillPending, CallStepName, poolVars, workerVars
  <2> QED BY <1>2, <2>3, QuietStep
          DEF StartStillPending, poolVars, workerVars, jobVars, IInv, TypeOK
<1>3. CASE ShutdownContinue(t)
  <2>1. UNCHANGED <<wpc, pendingWorkerThreadStart>> /\ DrainOrDestroy(t)
    BY <1>3 DEF ShutdownContinue, workerVars
  <2>2. /\ ThreadsKept /\ CallsTyped' /\ ssWaiters' \subseteq Thread
        /\ phase' \in {"init", "up", "destroyed"}
    BY <2>1, DrainType, SameThreads
  <2> QED BY <1>3, <2>2, QuietStep DEF ShutdownContinue, workerVars, jobVars, IInv, TypeOK
<1>4. CASE GetAttrTest(t)
  <2> DEFINE c == [NoCall EXCEPT !.op = "getAttr", !.step = "locking"]
  <2>1. c \in Call /\ c.op = "getAttr" /\ c.step = "locking"
    BY DEF NoCall, Call, Op, CallStepName
  <2>2. call' = [call EXCEPT ![t] = c] /\ UNCHANGED ssWaiters
    BY <1>4 DEF GetAttrTest
  <2> HIDE DEF c
  <2>3. ThreadsKept /\ CallsTyped' /\ ssWaiters' \subseteq Thread
    BY <1>4, <2>1, <2>2, SameThreads
       DEF GetAttrTest, poolVars, workerVars, IInv, TypeOK, CallsTyped
  <2> QED BY <1>4, <2>3, QuietStep
          DEF GetAttrTest, poolVars, workerVars, jobVars, IInv, TypeOK
<1>5. CASE GetAttrCopy(t)
  <2>1. ThreadsKept /\ CallsTyped' /\ ssWaiters' \subseteq Thread
    BY <1>5, CallTypes, SameThreads DEF GetAttrCopy, poolVars, workerVars
  <2> QED BY <1>5, <2>1, QuietStep
          DEF GetAttrCopy, poolVars, workerVars, jobVars, IInv, TypeOK
<1> QED BY <1>2, <1>3, <1>4, <1>5

LEMMA WakeStep ==
  ASSUME IInv, (\E w \in Worker : JobReturns(w) \/ WaitTimesOut(w))
               \/ (\E t \in Thread : SpuriousWake(t))
  PROVE  IInv'
<1>1. ASSUME NEW w \in Worker, NEW s \in {"top", "timedout", "signalled"},
             wpc[w] \in {"running", "waiting"}, wpc[w] = "running" => s = "top",
             wpc' = [wpc EXCEPT ![w] = s], UNCHANGED pendingWorkerThreadStart
      PROVE  ThreadsKept
  <2>1. wpc' \in [Worker -> WorkerState]
    BY <1>1 DEF IInv, TypeOK, WorkerState
  <2>2. Alive' = Alive /\ Starting' = Starting
    BY <1>1 DEF IInv, TypeOK, Alive, Starting
  <2>3. \A v \in Worker : wpc[v] \in {"top", "running"} => wpc'[v] \in {"top", "running"}
    BY <1>1 DEF IInv, TypeOK
  <2> QED BY <1>1, <2>1, <2>2, <2>3 DEF ThreadsKept, IInv, TypeOK, CountersAgree, Starting
<1>2. ASSUME NEW w \in Worker, JobReturns(w)
      PROVE  IInv'
  <2>1. ThreadsKept
    BY <1>1, <1>2 DEF JobReturns, poolVars
  <2>2. fate' \in [Job -> {"none", "live", "refused", "removed", "freed", "ran"}]
    BY <1>2 DEF JobReturns, IInv, TypeOK
  <2> QED BY <1>2, <2>1, <2>2, QuietStep
          DEF JobReturns, poolVars, callVars, IInv, TypeOK, CallsTyped
<1>3. ASSUME NEW w \in Worker, WaitTimesOut(w)
      PROVE  IInv'
  <2>1. ThreadsKept
    BY <1>1, <1>3 DEF WaitTimesOut, poolVars
  <2> QED BY <1>3, <2>1, QuietStep
          DEF WaitTimesOut, poolVars, callVars, jobVars, IInv, TypeOK, CallsTyped
<1>4. ASSUME NEW t \in Thread, SpuriousWake(t)
      PROVE  IInv'
  <2>1. ThreadsKept
    BY <1>1, <1>4, SameThreads DEF SpuriousWake, poolVars
  <2>2. ssWaiters' \subseteq Thread
    BY <1>4 DEF SpuriousWake, IInv, TypeOK
  <2> QED BY <1>4, <2>1, <2>2, QuietStep
          DEF SpuriousWake, poolVars, jobVars, IInv, TypeOK, CallsTyped
<1> QED BY <1>2, <1>3, <1>4

-----------------------------------------------------------------------------
LEMMA InitIInv == Init => IInv
<1> SUFFICES ASSUME Init PROVE IInv
  OBVIOUS
<1>1. TypeOK
  <2>1. jobQ \in [Priority -> Seq(Job)]
    BY EmptySeq DEF Init
  <2>2. call \in [Thread -> Call]
    <3>1. NoCall \in Call /\ [NoCall EXCEPT !.op = "init", !.step = "start"] \in Call
      BY DEF NoCall, Call, CallStepName, Op
    <3> QED BY <3>1 DEF Init
  <2>3. nextJob \in 0 .. MaxJobs
    BY PoolConstants DEF Init
  <2> QED BY <2>1, <2>2, <2>3, PoolConstants DEF Init, TypeOK, WorkerState, NoJob, Priority
<1>2. CountersAgree
  <2>1. /\ {w \in Worker : wpc[w] \notin {"none", "starting"}} = {}
        /\ {w \in Worker : wjob[w] # NoJob} = {}
        /\ {w \in Worker : IsPersistent(wjob[w])} = {}
        /\ {w \in Worker : wpc[w] = "starting"} = {}
    BY DEF Init, IsPersistent
  <2> QED BY <2>1, FS_EmptySet DEF CountersAgree, Init
<1>3. JobsKnown
  <2>1. \A p \in Priority : DOMAIN jobQ[p] = {}
    BY DEF Init
  <2> QED BY <2>1 DEF Init, JobsKnown, NoJob
<1>4. CallsTyped
  <2>1. \A t \in Thread : call[t].op \in {"none", "init"} /\ call[t].step \in {"idle", "start"}
                          /\ (call[t].step = "start" => call[t].op = "init")
    BY DEF Init, NoCall
  <2> QED BY <1>1, <2>1 DEF CallsTyped, TypeOK
<1> QED BY <1>1, <1>2, <1>3, <1>4 DEF IInv

LEMMA NextIInv == IInv /\ [Next]_vars => IInv'
<1> SUFFICES ASSUME IInv, [Next]_vars PROVE IInv'
  OBVIOUS
<1>1. ASSUME NEW t \in Thread, Invoke(t)
      PROVE  IInv'
  BY <1>1, AddStep, AddPersistentStep, RemoveStep, MinThreadsStep, OtherCallStep,
     ShutdownStep DEF Invoke
<1>2. ASSUME NEW t \in Thread, CallStep(t)
      PROVE  IInv'
  BY <1>2, AddContinueStep, AddPersistentStep, PickupStep, MinThreadsStep,
     OtherCallStep, ShutdownStep DEF CallStep
<1>3. ASSUME NEW w \in Worker, WorkerNext(w)
      PROVE  IInv'
  BY <1>3, WorkerStartStep, WorkerLoopStep, WakeStep DEF WorkerNext
<1>4. CASE \E t \in Thread : SpuriousWake(t)
  BY <1>4, WakeStep
<1>5. CASE Tick \/ UNCHANGED vars
  <2>1. UNCHANGED <<poolVars, workerVars, callVars, jobVars>> /\ now' \in Nat
    BY <1>5 DEF Tick, vars, IInv, TypeOK
  <2>2. ThreadsKept
    BY <2>1, SameThreads DEF poolVars, workerVars
  <2> QED BY <2>1, <2>2, QuietStep
          DEF poolVars, workerVars, callVars, jobVars, IInv, TypeOK, CallsTyped
<1> QED BY <1>1, <1>2, <1>3, <1>4, <1>5 DEF Next

LEMMA PoolInvariant == Spec => []IInv
BY InitIInv, NextIInv, PTL DEF Spec

\* The pool's variables keep their types, whatever interleaving of calls, workers,
\* timeouts and failures happens; in particular no counter goes below zero.
THEOREM TypeCorrect == Spec => []TypeOK
<1>1. IInv => TypeOK
  BY DEF IInv
<1> QED BY <1>1, PoolInvariant, PTL

\* totalThreads, busyThreads, persistentThreads and pendingWorkerThreadStart count
\* the threads that exist, run a job, run a persistent job and are starting.
THEOREM CountersCorrect == Spec => []CountersAgree
<1>1. IInv => CountersAgree
  BY DEF IInv
<1> QED BY <1>1, PoolInvariant, PTL

-----------------------------------------------------------------------------

(* Calls in progress: who may still be inside the pool when its mutex is   *)
(* destroyed, and how many threads there are.                              *)

\* Hypotheses of the theorems.  ThreadPoolSetAttr never allows more threads than
\* ThreadPoolInit did; a client calls it only where it is the only client, since a
\* call that fails shuts the pool down under whoever else is inside it; and no
\* attributes ask for more threads than they allow.
AttrsWithinCap ==
  InitAttr.maxThreads # Infinite =>
    \A a \in Attrs : a.maxThreads # Infinite /\ a.maxThreads <= InitAttr.maxThreads
SoleSetter == "setAttr" \in ClientOps => Client = {Main}
MinBelowMax ==
  \A a \in Attrs \cup {InitAttr} : a.maxThreads # Infinite => a.minThreads <= a.maxThreads

\* No other client is inside the pool.
Alone(u) == \A v \in Client : v # u => call[v] = NoCall

\* A call that may give the pool up.
Setter(t) == call[t].op \in {"init", "setAttr"}

\* ThreadPoolInit is called by Main, before the pool is up.
InitFirst == \A t \in Thread : call[t].op = "init" => t = Main /\ phase # "up"

\* Workers call the pool from the job they run; ThreadPoolInit and a client's
\* ThreadPoolSetAttr have the pool for themselves; a worker that is starting is
\* waited for; and once shutdown is set, someone waits for the workers to leave:
\* a client that is alone, or for ever a worker.
CallersRun == \A w \in Worker : call[w] # NoCall => wpc[w] = "running"
StepsRight ==
  \A t \in Thread : /\ call[t].step = "cleanup" => Setter(t)
                    /\ call[t].step = "drain" => shutdown = 1
                    /\ t \in Client /\ call[t].op = "setAttr" => "setAttr" \in ClientOps
SettersAlone == \A t \in Client : Setter(t) => Alone(t)
StartAwaited ==
  pendingWorkerThreadStart = 1 => \E t \in Thread : call[t].step = "cwStarted"
DrainAwaited ==
  shutdown = 1 /\ phase # "destroyed" =>
    \E t \in Thread : call[t].step = "drain" /\ (t \in Client => Alone(t))
CallsOrdered ==
  CallersRun /\ StepsRight /\ SettersAlone /\ StartAwaited /\ DrainAwaited

\* The attributes in force allow no more threads than those of ThreadPoolInit.
CapKept ==
  /\ ThreadCap
  /\ InitAttr.maxThreads # Infinite =>
       attr.maxThreads # Infinite /\ attr.maxThreads <= InitAttr.maxThreads

\* The loop counter of ThreadPoolInit or ThreadPoolSetAttr has not run ahead of
\* the threads there are, as far as minThreads goes.
Accurate(t) ==
  \/ call[t].step = "cleanup"
  \/ /\ call[t].step \in {"start", "cwPending"}
     /\ totalThreads >= call[t].n \/ totalThreads >= attr.minThreads
  \/ /\ call[t].step = "cwStarted"
     /\ \/ totalThreads + pendingWorkerThreadStart >= call[t].n + 1
        \/ totalThreads + pendingWorkerThreadStart >= attr.minThreads

\* There are minThreads threads, or a call that counts right is creating them.
MinKept ==
  /\ attr \in Attrs \cup {InitAttr}
  /\ shutdown = 0 => \/ totalThreads >= attr.minThreads
                     \/ \E t \in Thread : Setter(t) /\ Accurate(t)

-----------------------------------------------------------------------------
(* What the steps of a call do to the calls and to the start of workers.   *)

SameRunning == \A w \in Worker : (wpc'[w] = "running") <=> (wpc[w] = "running")
OtherCalls(t) == \A u \in Thread : u # t => call'[u] = call[u]
Room(a) == a.maxThreads = Infinite \/ totalThreads + 1 <= a.maxThreads

\* No worker is started, or this call starts one and waits for it.
Pended(t, a) ==
  \/ pendingWorkerThreadStart' = pendingWorkerThreadStart
  \/ /\ pendingWorkerThreadStart = 0 /\ pendingWorkerThreadStart' = 1
     /\ call'[t].step = "cwStarted" /\ Room(a)

\* The call of thread t returns, or goes on as operation o at one of the steps S.
Moved(t, o, S, a) ==
  /\ SameRunning /\ OtherCalls(t) /\ Pended(t, a)
  /\ call'[t] = NoCall \/ (call'[t].op = o /\ call'[t].step \in S)

CreateSteps == {"cwPending", "cwStarted"}

LEMMA BlockMoves ==
  ASSUME IInv, NEW t \in Thread, NEW c \in Call, NEW s \in CallStepName, BlockSS(t, c, s)
  PROVE  /\ OtherCalls(t)
         /\ call'[t].op = c.op /\ call'[t].step = s /\ call'[t].n = c.n
<1> DEFINE d == [c EXCEPT !.step = s]
<1>1. d.op = c.op /\ d.step = s /\ d.n = c.n
  BY DEF Call
<1>2. call' = [call EXCEPT ![t] = d]
  BY DEF BlockSS
<1> HIDE DEF d
<1> QED BY <1>1, <1>2 DEF OtherCalls, IInv, TypeOK

LEMMA ReturnMoves ==
  ASSUME IInv, NEW t \in Thread, Return(t)
  PROVE  OtherCalls(t) /\ call'[t] = NoCall
BY DEF Return, OtherCalls, IInv, TypeOK

LEMMA SignalMoves ==
  ASSUME IInv, SignalCondition \/ UNCHANGED wpc
  PROVE  SameRunning
BY DEF SignalCondition, SameRunning, IInv, TypeOK

LEMMA CreateMoves ==
  ASSUME IInv, NEW t \in Thread, NEW c \in Call, NEW a \in Attr, CreateWorker(t, c, a)
  PROVE  /\ Moved(t, c.op, CreateSteps, a)
         /\ call'[t].op = c.op /\ call'[t].n = c.n
         /\ call'[t].step = "cwStarted" => pendingWorkerThreadStart' = 1
         /\ call'[t].step \in CreateSteps
         /\ pendingWorkerThreadStart' >= pendingWorkerThreadStart
<1>1. CASE pendingWorkerThreadStart = 1 /\ BlockSS(t, c, "cwPending")
           /\ UNCHANGED <<wpc, pendingWorkerThreadStart>>
  <2>1. OtherCalls(t) /\ call'[t].op = c.op /\ call'[t].step = "cwPending" /\ call'[t].n = c.n
    BY <1>1, BlockMoves DEF CallStepName
  <2> QED BY <1>1, <2>1, SignalMoves DEF Moved, Pended, CreateSteps
<1>2. ASSUME pendingWorkerThreadStart = 0, ~AtMax(a), NEW w \in FreeSlot,
             wpc' = [wpc EXCEPT ![w] = "starting"], pendingWorkerThreadStart' = 1,
             BlockSS(t, c, "cwStarted")
      PROVE  /\ Moved(t, c.op, CreateSteps, a)
             /\ call'[t].op = c.op /\ call'[t].n = c.n
             /\ call'[t].step = "cwStarted" => pendingWorkerThreadStart' = 1
             /\ call'[t].step \in CreateSteps
             /\ pendingWorkerThreadStart' >= pendingWorkerThreadStart
  <2>1. OtherCalls(t) /\ call'[t].op = c.op /\ call'[t].step = "cwStarted" /\ call'[t].n = c.n
    BY <1>2, BlockMoves DEF CallStepName
  <2>2. SameRunning
    BY <1>2 DEF SameRunning, FreeSlot, IInv, TypeOK
  <2>3. Room(a)
    BY <1>2 DEF Room, AtMax, Attr, IInv, TypeOK, Infinite
  <2> QED BY <1>2, <2>1, <2>2, <2>3 DEF Moved, Pended, CreateSteps
<1> QED BY <1>1, <1>2 DEF CreateWorker

LEMMA AddMoves ==
  ASSUME IInv, NEW t \in Thread, NEW c \in Call, AddWorker(t, c) \/ AddCreate(t, c)
  PROVE  Moved(t, c.op, CreateSteps, attr)
<1>1. ASSUME AddReturn(t, c), UNCHANGED pendingWorkerThreadStart
      PROVE  Moved(t, c.op, CreateSteps, attr)
  BY <1>1, ReturnMoves, SignalMoves DEF AddReturn, Moved, Pended
<1>2. ASSUME AddCreate(t, c)
      PROVE  Moved(t, c.op, CreateSteps, attr)
  <2>1. attr \in Attr
    BY DEF IInv, TypeOK
  <2> QED BY <1>1, <1>2, <2>1, CreateMoves DEF AddCreate
<1> QED BY <1>1, <1>2 DEF AddWorker

LEMMA PersistentMoves ==
  ASSUME IInv, NEW t \in Thread,
         PersistentCreate(t) \/ (PlacePersistent(t) /\ UNCHANGED pendingWorkerThreadStart)
  PROVE  Moved(t, "addPersistent", CreateSteps \cup {"pickup"}, attr)
<1>1. ASSUME PlacePersistent(t), UNCHANGED pendingWorkerThreadStart
      PROVE  Moved(t, "addPersistent", CreateSteps \cup {"pickup"}, attr)
  <2>1. CASE Return(t) /\ UNCHANGED wpc
    BY <1>1, <2>1, ReturnMoves, SignalMoves DEF Moved, Pended
  <2>2. CASE /\ nextJob < MaxJobs
             /\ SignalCondition
             /\ BlockSS(t, [NoCall EXCEPT !.op = "addPersistent", !.job = nextJob + 1],
                        "pickup")
    <3> DEFINE c == [NoCall EXCEPT !.op = "addPersistent", !.job = nextJob + 1]
    <3>a. nextJob + 1 \in Job
      BY <2>2, PoolConstants DEF Job, IInv, TypeOK
    <3>1. c \in Call /\ c.op = "addPersistent"
      BY <3>a DEF NoCall, Call, Op, CallStepName
    <3>2. BlockSS(t, c, "pickup")
      BY <2>2
    <3> HIDE DEF c
    <3> QED BY <1>1, <2>2, <3>1, <3>2, BlockMoves, SignalMoves
            DEF Moved, Pended, CallStepName
  <2> QED BY <1>1, <2>1, <2>2 DEF PlacePersistent
<1>2. ASSUME CreateWorker(t, [NoCall EXCEPT !.op = "addPersistent"], attr)
      PROVE  Moved(t, "addPersistent", CreateSteps \cup {"pickup"}, attr)
  <2> DEFINE c == [NoCall EXCEPT !.op = "addPersistent"]
  <2>1. c \in Call /\ c.op = "addPersistent" /\ attr \in Attr
    BY DEF NoCall, Call, Op, CallStepName, IInv, TypeOK
  <2>2. CreateWorker(t, c, attr)
    BY <1>2
  <2> HIDE DEF c
  <2> QED BY <2>1, <2>2, CreateMoves DEF Moved
<1> QED BY <1>1, <1>2 DEF PersistentCreate
-----------------------------------------------------------------------------
(* The steps of calls that neither set the attributes nor shut down.       *)

\* Thread t is not waiting for the worker that is starting.
NotAwaiting(t) == pendingWorkerThreadStart = 1 => call[t].step # "cwStarted"

\* Where a step of a call starts from: a new call, or one in progress of operation o.
From(t, o) ==
  \/ /\ call[t] = NoCall
     /\ t \in Client => phase = "up" /\ shutdown = 0 /\ o \in ClientOps
     /\ t \in Worker => wpc[t] = "running"
  \/ /\ call[t] # NoCall /\ call[t].op = o
     /\ call[t].step \notin {"drain", "cleanup"}

\* Such a step of operation o, with the attributes it leaves.
CallEffect(t, o, S) ==
  /\ From(t, o) /\ Moved(t, o, S, attr')
  /\ pendingWorkerThreadStart' = pendingWorkerThreadStart =>
       NotAwaiting(t) \/ call'[t].step = call[t].step
  /\ "drain" \notin S /\ ("cleanup" \in S => o \in {"init", "setAttr"})
  /\ UNCHANGED <<totalThreads, shutdown>>
  /\ phase # "destroyed"

LEMMA NoCallFields == NoCall.op = "none" /\ NoCall.step = "idle"
BY DEF NoCall

LEMMA CallBegins ==
  ASSUME NEW t \in Thread, NEW o, CanCall(t, o)
  PROVE  From(t, o) /\ NotAwaiting(t) /\ phase # "destroyed"
BY NoCallFields, PoolConstants DEF CanCall, From, NotAwaiting, MutexFree

LEMMA CallResumes ==
  ASSUME NEW t \in Thread, Retry(t) \/ Started(t)
  PROVE  From(t, call[t].op) /\ NotAwaiting(t) /\ phase # "destroyed"
BY NoCallFields DEF Retry, Started, Resumed, From, NotAwaiting, MutexFree

LEMMA AddEffect ==
  ASSUME IInv, NEW t \in Thread,
         (\E p \in AddPriorities : ThreadPoolAdd(t, p)) \/ AddContinue(t)
  PROVE  CallEffect(t, "add", CreateSteps) /\ UNCHANGED <<attr, phase>>
<1>1. ASSUME NEW p \in AddPriorities, ThreadPoolAdd(t, p)
      PROVE  CallEffect(t, "add", CreateSteps) /\ UNCHANGED <<attr, phase>>
  <2>1. From(t, "add") /\ NotAwaiting(t) /\ phase # "destroyed"
    BY <1>1, CallBegins DEF ThreadPoolAdd
  <2>2. UNCHANGED <<totalThreads, shutdown, attr, phase>>
    BY <1>1 DEF ThreadPoolAdd
  <2>3. Moved(t, "add", CreateSteps, attr)
    <3> DEFINE j == nextJob + 1
               q(ok) == IF ok THEN [jobQ EXCEPT ![p] = Append(@, j)] ELSE jobQ
               c(ok) == [op |-> "add", step |-> "idle", job |-> j,
                         n |-> totalThreads - persistentThreads,
                         jobs |-> QueuedJobs(q(ok)), ok |-> ok]
    <3>1. p \in Priority
      BY PoolConstants DEF Priority
    <3>2. PICK ok \in BOOLEAN : jobQ' = q(ok) /\ AddWorker(t, c(ok))
      BY <1>1 DEF ThreadPoolAdd
    <3>3. j \in Job
      <4>1. IsFiniteSet(Thread)
        BY PoolConstants, FS_Union DEF Thread
      <4>2. Cardinality(Expected) \in Nat
        BY <4>1, FS_Subset, FS_CardinalityType DEF Expected
      <4> QED BY <1>1, <4>2, PoolConstants DEF ThreadPoolAdd, JobsLeft, IInv, TypeOK, Job
    <3>4. QueuedJobs(jobQ') \in Nat
      <4>1. IInv'
        BY <1>1, AddStep
      <4>2. jobQ' \in [Priority -> Seq(Job)]
        BY <4>1 DEF IInv, TypeOK
      <4>3. \A r \in Priority : Len(jobQ'[r]) \in Nat
        BY <4>2, LenProperties
      <4> QED BY <4>2, <4>3 DEF QueuedJobs, Priority
    <3>5. c(ok) \in Call /\ c(ok).op = "add"
      BY <3>2, <3>3, <3>4, RegularThreads DEF Call, Op, CallStepName
    <3> HIDE DEF c
    <3>6. Moved(t, c(ok).op, CreateSteps, attr)
      BY <3>2, <3>5, AddMoves
    <3> QED BY <3>5, <3>6
  <2> QED BY <2>1, <2>2, <2>3 DEF CallEffect, CreateSteps
<1>2. CASE AddContinue(t)
  <2>1. call[t] \in Call /\ call[t].op = "add"
    BY <1>2, CallTypes DEF AddContinue
  <2>2. From(t, "add") /\ NotAwaiting(t) /\ phase # "destroyed"
    BY <1>2, <2>1, CallResumes DEF AddContinue
  <2>3. UNCHANGED <<totalThreads, shutdown, attr, phase>>
    BY <1>2 DEF AddContinue
  <2>4. CountThread(call[t]) \in Call /\ CountThread(call[t]).op = "add"
    BY <2>1 DEF CountThread, Call
  <2>5. Moved(t, "add", CreateSteps, attr)
    <3>1. CASE AddCreate(t, call[t])
      <4>1. Moved(t, call[t].op, CreateSteps, attr)
        BY <3>1, <2>1, AddMoves
      <4> QED BY <4>1, <2>1
    <3>2. CASE AddWorker(t, CountThread(call[t]))
      <4>1. Moved(t, CountThread(call[t]).op, CreateSteps, attr)
        BY <3>2, <2>4, AddMoves
      <4> QED BY <4>1, <2>4
    <3> QED BY <1>2, <3>1, <3>2 DEF AddContinue
  <2> QED BY <2>2, <2>3, <2>5 DEF CallEffect, CreateSteps
<1> QED BY <1>1, <1>2

LEMMA PersistentEffect ==
  ASSUME IInv, NEW t \in Thread, ThreadPoolAddPersistent(t) \/ PersistentContinue(t)
  PROVE  /\ CallEffect(t, "addPersistent", CreateSteps \cup {"pickup"})
         /\ UNCHANGED <<attr, phase>>
<1>1. UNCHANGED <<totalThreads, shutdown, attr, phase>>
  BY DEF ThreadPoolAddPersistent, PersistentContinue, persistentFrame
<1>2. From(t, "addPersistent") /\ NotAwaiting(t) /\ phase # "destroyed"
  <2>1. CASE ThreadPoolAddPersistent(t)
    BY <2>1, CallBegins DEF ThreadPoolAddPersistent
  <2>2. CASE PersistentContinue(t)
    <3>1. call[t].op = "addPersistent" /\ (Retry(t) \/ Started(t))
      BY <2>2 DEF PersistentContinue
    <3> QED BY <3>1, CallResumes
  <2> QED BY <2>1, <2>2
<1>3. Moved(t, "addPersistent", CreateSteps \cup {"pickup"}, attr)
  BY PersistentMoves DEF ThreadPoolAddPersistent, PersistentContinue
<1> QED BY <1>1, <1>2, <1>3 DEF CallEffect, CreateSteps

\* A call that counts threads goes on where it was.
Stays(t) ==
  \/ call[t].step \in {"idle", "pickup", "locking"}
  \/ /\ call[t].step = "cwStarted" /\ call'[t].step = "cwStarted"
     /\ call'[t].op = call[t].op /\ call'[t].n = call[t].n

LEMMA OtherEffect ==
  ASSUME IInv, NEW t \in Thread,
         PersistentPickup(t) \/ StartStillPending(t) \/ GetAttrTest(t) \/ GetAttrCopy(t)
  PROVE  /\ \E o : /\ CallEffect(t, o, {"pickup", "cwStarted", "locking"})
                   /\ o = call[t].op \/ o = "getAttr"
         /\ Stays(t) /\ UNCHANGED <<attr, phase>>
<1> DEFINE S == {"pickup", "cwStarted", "locking"}
<1>1. UNCHANGED <<totalThreads, shutdown, attr, phase, wpc, pendingWorkerThreadStart>>
  BY DEF PersistentPickup, StartStillPending, GetAttrTest, GetAttrCopy, persistentFrame,
         poolVars, workerVars
<1>2. SameRunning
  BY <1>1, SignalMoves
<1>3. call[t] \in Call
  BY CallTypes
<1>4. CASE GetAttrTest(t)
  <2> DEFINE c == [NoCall EXCEPT !.op = "getAttr", !.step = "locking"]
  <2>1. c.op = "getAttr" /\ c.step = "locking"
    BY DEF NoCall
  <2>2. call' = [call EXCEPT ![t] = c]
    BY <1>4 DEF GetAttrTest
  <2> HIDE DEF c
  <2>3. OtherCalls(t) /\ call'[t].op = "getAttr" /\ call'[t].step = "locking"
    BY <2>1, <2>2 DEF OtherCalls, IInv, TypeOK
  <2>4. From(t, "getAttr") /\ NotAwaiting(t) /\ phase # "destroyed" /\ call[t] = NoCall
    BY <1>4, CallBegins DEF GetAttrTest, CanCall
  <2>5. CallEffect(t, "getAttr", S) /\ Stays(t)
    BY <1>1, <1>2, <2>3, <2>4, NoCallFields DEF CallEffect, Moved, Pended, Stays
  <2> QED BY <1>1, <2>5
<1>5. CASE StartStillPending(t)
  <2>1. /\ call[t].step = "cwStarted" /\ phase # "destroyed"
        /\ OtherCalls(t) /\ call'[t].op = call[t].op /\ call'[t].step = "cwStarted"
        /\ call'[t].n = call[t].n
    BY <1>3, <1>5, BlockMoves DEF StartStillPending, Resumed, MutexFree, CallStepName
  <2>2. CallEffect(t, call[t].op, S) /\ Stays(t)
    BY <1>1, <1>2, <2>1, NoCallFields DEF CallEffect, Moved, Pended, From, Stays
  <2> QED BY <1>1, <2>2
<1>6. CASE PersistentPickup(t) \/ GetAttrCopy(t)
  <2>1. /\ call[t].step \in {"pickup", "locking"} /\ phase # "destroyed"
        /\ OtherCalls(t)
        /\ \/ call'[t] = NoCall
           \/ call'[t].op = call[t].op /\ call'[t].step = "pickup"
    <3>1. CASE GetAttrCopy(t)
      BY <3>1, ReturnMoves DEF GetAttrCopy, Resumed, MutexFree
    <3>2. CASE PersistentPickup(t)
      <4>1. call[t].step = "pickup" /\ phase # "destroyed"
        BY <3>2 DEF PersistentPickup, Resumed, MutexFree
      <4>2. CASE BlockSS(t, call[t], "pickup")
        BY <1>3, <4>1, <4>2, BlockMoves DEF CallStepName
      <4>3. CASE Return(t)
        BY <4>1, <4>3, ReturnMoves
      <4> QED BY <3>2, <4>2, <4>3 DEF PersistentPickup
    <3> QED BY <1>6, <3>1, <3>2
  <2>2. CallEffect(t, call[t].op, S) /\ Stays(t)
    BY <1>1, <1>2, <2>1, NoCallFields
       DEF CallEffect, Moved, Pended, From, NotAwaiting, Stays
  <2> QED BY <1>1, <2>2
<1> QED BY <1>4, <1>5, <1>6

-----------------------------------------------------------------------------
(* The steps of ThreadPoolInit and ThreadPoolSetAttr.                      *)

\* The loop is done, or the call still counts right.
LoopOK(t) == totalThreads' >= attr'.minThreads \/ (Setter(t)' /\ Accurate(t)')

\* ThreadPoolInit publishes the pool when it returns.
PhaseMoves(t, o) ==
  \/ UNCHANGED phase
  \/ o = "init" /\ phase' = "up" /\ call'[t] = NoCall

LEMMA LoopMoves ==
  ASSUME IInv, NEW t \in Thread, NEW c \in Call, c.op \in {"init", "setAttr"},
         NEW a \in Attr, attr' = a, UNCHANGED totalThreads,
         MinThreadsLoop(t, c, a) \/ MinThreadsCreate(t, c, a)
  PROVE  /\ Moved(t, c.op, CreateSteps \cup {"cleanup"}, a)
         /\ pendingWorkerThreadStart' >= pendingWorkerThreadStart
         /\ PhaseMoves(t, c.op)
         /\ totalThreads >= c.n \/ totalThreads >= a.minThreads => LoopOK(t)
<1>1. /\ totalThreads \in Nat /\ c.n \in Nat /\ a.minThreads \in Nat
      /\ pendingWorkerThreadStart \in {0, 1}
  BY DEF IInv, TypeOK, Call, Attr
<1>2. CASE CreateWorker(t, c, a) /\ UNCHANGED phase
  <2>1. /\ Moved(t, c.op, CreateSteps, a)
        /\ call'[t].op = c.op /\ call'[t].n = c.n
        /\ call'[t].step = "cwStarted" => pendingWorkerThreadStart' = 1
        /\ call'[t].step \in CreateSteps
        /\ pendingWorkerThreadStart' >= pendingWorkerThreadStart
    BY <1>2, CreateMoves
  <2>2. Moved(t, c.op, CreateSteps \cup {"cleanup"}, a)
    BY <2>1 DEF Moved
  <2>3. ASSUME totalThreads >= c.n \/ totalThreads >= a.minThreads
        PROVE  LoopOK(t)
    <3>1. Setter(t)'
      BY <2>1 DEF Setter
    <3>2. CASE call'[t].step = "cwPending"
      <4>1. Accurate(t)'
        BY <2>1, <2>3, <3>2 DEF Accurate
      <4> QED BY <3>1, <4>1 DEF LoopOK
    <3>3. CASE call'[t].step = "cwStarted"
      <4>1. Accurate(t)'
        BY <1>1, <2>1, <2>3, <3>3 DEF Accurate
      <4> QED BY <3>1, <4>1 DEF LoopOK
    <3> QED BY <2>1, <3>2, <3>3 DEF CreateSteps
  <2> QED BY <1>2, <2>1, <2>2, <2>3 DEF PhaseMoves
<1>3. ASSUME NEW done \in BOOLEAN, LoopEnd(t, c, done), UNCHANGED pendingWorkerThreadStart,
             done => c.n >= a.minThreads
      PROVE  /\ Moved(t, c.op, CreateSteps \cup {"cleanup"}, a)
             /\ pendingWorkerThreadStart' >= pendingWorkerThreadStart
             /\ PhaseMoves(t, c.op)
             /\ totalThreads >= c.n \/ totalThreads >= a.minThreads => LoopOK(t)
  <2>1. SameRunning
    <3>1. SignalCondition \/ UNCHANGED wpc
      BY <1>3 DEF LoopEnd
    <3> QED BY <3>1, SignalMoves
  <2>2. pendingWorkerThreadStart' >= pendingWorkerThreadStart /\ Pended(t, a)
    BY <1>1, <1>3 DEF Pended
  <2>3. CASE done
    <3>1. Return(t) /\ PhaseMoves(t, c.op)
      <4>1. Return(t) /\ phase' = IF c.op = "init" /\ done THEN "up" ELSE phase
        BY <1>3, <2>3 DEF LoopEnd
      <4> QED BY <4>1, ReturnMoves DEF PhaseMoves
    <3>2. OtherCalls(t) /\ call'[t] = NoCall
      BY <3>1, ReturnMoves
    <3>3. totalThreads >= c.n \/ totalThreads >= a.minThreads => LoopOK(t)
      BY <1>1, <1>3, <2>3 DEF LoopOK
    <3> QED BY <2>1, <2>2, <3>1, <3>2, <3>3 DEF Moved
  <2>4. CASE ~done
    <3> DEFINE d == [c EXCEPT !.step = "cleanup"]
    <3>1. d.op = c.op /\ d.step = "cleanup"
      BY DEF Call
    <3>2. call' = [call EXCEPT ![t] = d] /\ UNCHANGED phase
      BY <1>3, <2>4 DEF LoopEnd
    <3> HIDE DEF d
    <3>3. OtherCalls(t) /\ call'[t].op = c.op /\ call'[t].step = "cleanup"
      BY <3>1, <3>2 DEF OtherCalls, IInv, TypeOK
    <3>4. LoopOK(t)
      BY <3>3 DEF LoopOK, Setter, Accurate
    <3> QED BY <2>1, <2>2, <3>2, <3>3, <3>4 DEF Moved, PhaseMoves
  <2> QED BY <2>3, <2>4
<1>4. CASE MinThreadsCreate(t, c, a)
  <2>1. CASE LoopEnd(t, c, FALSE) /\ UNCHANGED pendingWorkerThreadStart
    BY <1>3, <2>1
  <2> QED BY <1>2, <1>4, <2>1 DEF MinThreadsCreate
<1>5. CASE c.n >= a.minThreads /\ LoopEnd(t, c, TRUE) /\ UNCHANGED pendingWorkerThreadStart
  BY <1>3, <1>5
<1> QED BY <1>4, <1>5 DEF MinThreadsLoop

\* What the three actions do.
SetterEffect(t, o) ==
  /\ CallEffect(t, o, CreateSteps \cup {"cleanup"})
  /\ pendingWorkerThreadStart' >= pendingWorkerThreadStart
  /\ PhaseMoves(t, o)
  /\ o = "init" => call[t].op = "init"
  /\ attr' = attr \/ (attr' \in Attrs /\ o = "setAttr" /\ LoopOK(t))
  /\ Setter(t) /\ Accurate(t) => LoopOK(t)

LEMMA SettersMove ==
  ASSUME IInv, NEW t \in Thread,
         \/ ThreadPoolInit(t)
         \/ \E a \in Attrs : ThreadPoolSetAttr(t, a)
         \/ MinThreadsContinue(t)
  PROVE  \E o \in {"init", "setAttr"} : SetterEffect(t, o)
<1>1. call[t] \in Call /\ attr \in Attr
  BY CallTypes DEF IInv, TypeOK
<1>2. UNCHANGED <<totalThreads, shutdown>>
  BY DEF ThreadPoolInit, ThreadPoolSetAttr, MinThreadsContinue, minThreadsFrame
<1>3. ASSUME NEW a \in Attrs, ThreadPoolSetAttr(t, a)
      PROVE  SetterEffect(t, "setAttr")
  <2> DEFINE c == [NoCall EXCEPT !.op = "setAttr", !.n = totalThreads]
  <2>1. c \in Call /\ c.op = "setAttr" /\ c.n = totalThreads
    BY DEF NoCall, Call, Op, CallStepName, IInv, TypeOK
  <2>2. MinThreadsLoop(t, c, a) /\ attr' = a /\ a \in Attr
    BY <1>3, PoolConstants DEF ThreadPoolSetAttr
  <2> HIDE DEF c
  <2>3. /\ Moved(t, c.op, CreateSteps \cup {"cleanup"}, a)
        /\ pendingWorkerThreadStart' >= pendingWorkerThreadStart
        /\ PhaseMoves(t, c.op)
        /\ totalThreads >= c.n \/ totalThreads >= a.minThreads => LoopOK(t)
    BY <1>2, <2>1, <2>2, LoopMoves
  <2>4. LoopOK(t)
    BY <2>1, <2>3 DEF IInv, TypeOK
  <2>5. From(t, "setAttr") /\ NotAwaiting(t) /\ phase # "destroyed"
    BY <1>3, CallBegins DEF ThreadPoolSetAttr
  <2> QED BY <1>2, <1>3, <2>1, <2>2, <2>3, <2>4, <2>5 DEF SetterEffect, CallEffect, CreateSteps
<1>4. CASE ThreadPoolInit(t)
  <2>1. call[t].op = "init" /\ call[t].step = "start" /\ phase # "destroyed"
    BY <1>4 DEF ThreadPoolInit, Resumed, MutexFree, IInv, CallsTyped
  <2>2. MinThreadsLoop(t, call[t], attr) /\ attr' = attr
    BY <1>4 DEF ThreadPoolInit
  <2>3. /\ Moved(t, call[t].op, CreateSteps \cup {"cleanup"}, attr)
        /\ pendingWorkerThreadStart' >= pendingWorkerThreadStart
        /\ PhaseMoves(t, call[t].op)
        /\ totalThreads >= call[t].n \/ totalThreads >= attr.minThreads => LoopOK(t)
    BY <1>1, <1>2, <2>1, <2>2, LoopMoves
  <2>4. Accurate(t) => LoopOK(t)
    BY <2>1, <2>3 DEF Accurate
  <2>5. From(t, "init") /\ NotAwaiting(t)
    BY <2>1, NoCallFields DEF From, NotAwaiting
  <2>6. SetterEffect(t, "init")
    BY <1>2, <2>1, <2>2, <2>3, <2>4, <2>5 DEF SetterEffect, CallEffect, CreateSteps
  <2> QED BY <2>6
<1>5. CASE MinThreadsContinue(t)
  <2> DEFINE c == [call[t] EXCEPT !.n = @ + 1]
  <2>1. call[t].op \in {"init", "setAttr"} /\ attr' = attr /\ (Retry(t) \/ Started(t))
    BY <1>5 DEF MinThreadsContinue
  <2>2. From(t, call[t].op) /\ NotAwaiting(t) /\ phase # "destroyed"
    BY <2>1, CallResumes
  <2>3. c \in Call /\ c.op = call[t].op /\ c.n = call[t].n + 1
    BY <1>1 DEF Call
  <2>4. /\ Moved(t, call[t].op, CreateSteps \cup {"cleanup"}, attr)
        /\ pendingWorkerThreadStart' >= pendingWorkerThreadStart
        /\ PhaseMoves(t, call[t].op)
        /\ Accurate(t) => LoopOK(t)
    <3>1. CASE Retry(t) /\ MinThreadsCreate(t, call[t], attr)
      <4>1. call[t].step = "cwPending"
        BY <3>1 DEF Retry, Resumed
      <4>2. /\ Moved(t, call[t].op, CreateSteps \cup {"cleanup"}, attr)
            /\ pendingWorkerThreadStart' >= pendingWorkerThreadStart
            /\ PhaseMoves(t, call[t].op)
            /\ totalThreads >= call[t].n \/ totalThreads >= attr.minThreads => LoopOK(t)
        BY <1>1, <1>2, <2>1, <3>1, LoopMoves
      <4>3. Accurate(t) => LoopOK(t)
        BY <4>1, <4>2 DEF Accurate
      <4> QED BY <4>2, <4>3
    <3>2. CASE Started(t) /\ MinThreadsLoop(t, c, attr)
      <4>1. call[t].step = "cwStarted" /\ pendingWorkerThreadStart = 0
        BY <3>2 DEF Started, Resumed
      <4> HIDE DEF c
      <4>2. /\ Moved(t, c.op, CreateSteps \cup {"cleanup"}, attr)
            /\ pendingWorkerThreadStart' >= pendingWorkerThreadStart
            /\ PhaseMoves(t, c.op)
            /\ totalThreads >= c.n \/ totalThreads >= attr.minThreads => LoopOK(t)
        BY <1>1, <1>2, <2>1, <2>3, <3>2, LoopMoves
      <4>3. totalThreads \in Nat /\ totalThreads + pendingWorkerThreadStart = totalThreads
        BY <4>1 DEF IInv, TypeOK
      <4>4. Accurate(t) => LoopOK(t)
        BY <4>1, <4>2, <4>3, <2>3 DEF Accurate
      <4> QED BY <4>2, <4>4, <2>3
    <3> QED BY <1>5, <3>1, <3>2 DEF MinThreadsContinue
  <2>5. SetterEffect(t, call[t].op)
    BY <1>2, <2>1, <2>2, <2>4 DEF SetterEffect, CallEffect, CreateSteps
  <2> QED BY <2>1, <2>5
<1> QED BY <1>3, <1>4, <1>5

-----------------------------------------------------------------------------
(* The invariants through the steps of calls.                              *)

LEMMA EffectKeepsInitFirst ==
  ASSUME InitFirst, NEW t \in Thread, NEW o, NEW S, CallEffect(t, o, S), PhaseMoves(t, o),
         o = "init" => call[t].op = "init"
  PROVE  InitFirst'
<1> SUFFICES ASSUME NEW u \in Thread, call'[u].op = "init"
             PROVE  u = Main /\ phase' # "up"
  BY DEF InitFirst
<1>1. CASE u # t
  <2>1. call[u].op = "init"
    BY <1>1 DEF CallEffect, Moved, OtherCalls
  <2>2. u = Main /\ phase # "up"
    BY <2>1 DEF InitFirst
  <2>3. ~(o = "init")
    BY <1>1, <2>2 DEF InitFirst
  <2> QED BY <2>2, <2>3 DEF PhaseMoves
<1>2. CASE u = t
  <2>1. call'[t] # NoCall /\ o = "init"
    BY <1>2, NoCallFields DEF CallEffect, Moved
  <2>2. u = Main /\ phase # "up"
    BY <1>2, <2>1 DEF InitFirst
  <2> QED BY <2>1, <2>2 DEF PhaseMoves
<1> QED BY <1>1, <1>2

LEMMA EffectKeepsOrder ==
  ASSUME IInv, SoleSetter, CallsOrdered, InitFirst, NEW t \in Thread, NEW o, NEW S,
         CallEffect(t, o, S), PhaseMoves(t, o), o = "init" => call[t].op = "init"
  PROVE  CallsOrdered'
<1>1. /\ UNCHANGED <<totalThreads, shutdown>> /\ phase # "destroyed"
      /\ SameRunning /\ OtherCalls(t)
      /\ call'[t] = NoCall \/ (call'[t].op = o /\ call'[t].step \in S)
      /\ "drain" \notin S /\ ("cleanup" \in S => o \in {"init", "setAttr"})
      /\ From(t, o)
  BY DEF CallEffect, Moved
<1>2. CallersRun'
  <2> SUFFICES ASSUME NEW w \in Worker, call'[w] # NoCall
               PROVE  wpc'[w] = "running"
    BY DEF CallersRun
  <2>1. w \in Thread
    BY DEF Thread
  <2>2. wpc[w] = "running"
    BY <1>1, <2>1 DEF OtherCalls, From, CallsOrdered, CallersRun
  <2> QED BY <1>1, <2>2 DEF SameRunning
<1>3. StepsRight'
  <2> SUFFICES ASSUME NEW u \in Thread
               PROVE  /\ call'[u].step = "cleanup" => Setter(u)'
                      /\ call'[u].step = "drain" => shutdown' = 1
                      /\ u \in Client /\ call'[u].op = "setAttr" => "setAttr" \in ClientOps
    BY DEF StepsRight
  <2>1. CASE u # t
    BY <1>1, <2>1 DEF OtherCalls, CallsOrdered, StepsRight, Setter
  <2>2. CASE u = t
    <3>1. t \in Client /\ o = "setAttr" => "setAttr" \in ClientOps
      BY <1>1 DEF From, CallsOrdered, StepsRight
    <3> QED BY <1>1, <2>2, <3>1, NoCallFields DEF Setter
  <2> QED BY <2>1, <2>2
<1>4. SettersAlone'
  <2> SUFFICES ASSUME NEW u \in Client, Setter(u)', NEW v \in Client, v # u
               PROVE  call'[v] = NoCall
    BY DEF SettersAlone, Alone
  <2>1. u \in Thread /\ v \in Thread
    BY DEF Thread
  <2>2. CASE u # t
    <3>1. Setter(u) /\ Alone(u)
      BY <1>1, <2>1, <2>2 DEF OtherCalls, Setter, CallsOrdered, SettersAlone
    <3>2. call[v] = NoCall
      BY <3>1 DEF Alone
    <3>3. CASE v = t
      <4>1. phase = "up"
        BY <1>1, <3>2, <3>3 DEF From
      <4>2. call[u].op = "setAttr"
        BY <2>1, <3>1, <4>1 DEF Setter, InitFirst
      <4>3. Client = {Main}
        BY <2>1, <4>2 DEF CallsOrdered, StepsRight, SoleSetter
      <4> QED BY <4>3
    <3>4. CASE v # t
      BY <1>1, <2>1, <3>2, <3>4 DEF OtherCalls
    <3> QED BY <3>3, <3>4
  <2>3. CASE u = t
    <3>1. call'[v] = call[v]
      BY <1>1, <2>1, <2>3 DEF OtherCalls
    <3>2. o \in {"init", "setAttr"}
      BY <1>1, <2>3, NoCallFields DEF Setter
    <3>3. CASE call[t] = NoCall
      <4>1. o = "setAttr"
        BY <3>2, <3>3, NoCallFields
      <4>2. o \in ClientOps
        BY <1>1, <2>3, <3>3 DEF From
      <4> QED BY <4>1, <4>2 DEF SoleSetter
    <3>4. CASE call[t] # NoCall
      <4>1. Setter(t)
        BY <1>1, <3>2, <3>4 DEF From, Setter
      <4>2. Alone(t)
        BY <2>3, <4>1 DEF CallsOrdered, SettersAlone
      <4> QED BY <2>3, <3>1, <4>2 DEF Alone
    <3> QED BY <3>3, <3>4
  <2> QED BY <2>2, <2>3
<1>5. StartAwaited'
  <2> SUFFICES ASSUME pendingWorkerThreadStart' = 1
               PROVE  \E u \in Thread : call'[u].step = "cwStarted"
    BY DEF StartAwaited
  <2>1. CASE call'[t].step = "cwStarted"
    BY <2>1
  <2>2. CASE call'[t].step # "cwStarted"
    <3>1. pendingWorkerThreadStart' = pendingWorkerThreadStart
      BY <2>2 DEF CallEffect, Moved, Pended
    <3>2. PICK u \in Thread : call[u].step = "cwStarted"
      BY <3>1 DEF CallsOrdered, StartAwaited
    <3>3. u # t
      BY <2>2, <3>1, <3>2 DEF CallEffect, NotAwaiting
    <3> QED BY <1>1, <3>2, <3>3 DEF OtherCalls
  <2> QED BY <2>1, <2>2
<1>6. DrainAwaited'
  <2> SUFFICES ASSUME shutdown = 1
               PROVE  \E u \in Thread : call'[u].step = "drain" /\ (u \in Client => Alone(u)')
    BY <1>1 DEF DrainAwaited
  <2>1. PICK u \in Thread : call[u].step = "drain" /\ (u \in Client => Alone(u))
    BY <1>1 DEF CallsOrdered, DrainAwaited
  <2>2. u # t
    BY <1>1, <2>1, NoCallFields DEF From
  <2>3. call'[u].step = "drain"
    BY <1>1, <2>1, <2>2 DEF OtherCalls
  <2>4. ASSUME u \in Client, NEW v \in Client, v # u
        PROVE  call'[v] = NoCall
    <3>1. call[v] = NoCall /\ v \in Thread
      BY <2>1, <2>4 DEF Alone, Thread
    <3>2. v # t
      BY <1>1, <3>1 DEF From
    <3> QED BY <1>1, <3>1, <3>2 DEF OtherCalls
  <2>5. u \in Client => Alone(u)'
    BY <2>4 DEF Alone
  <2> QED BY <2>3, <2>5
<1> QED BY <1>2, <1>3, <1>4, <1>5, <1>6 DEF CallsOrdered

LEMMA EffectKeepsCap ==
  ASSUME IInv, AttrsWithinCap, CapKept, NEW t \in Thread, NEW o, NEW S,
         CallEffect(t, o, S), attr' \in {attr} \cup Attrs
  PROVE  CapKept'
<1>1. UNCHANGED totalThreads /\ totalThreads \in Nat /\ pendingWorkerThreadStart \in {0, 1}
  BY DEF CallEffect, IInv, TypeOK
<1>2. CASE InitAttr.maxThreads = Infinite
  BY <1>2 DEF CapKept, ThreadCap
<1>3. CASE InitAttr.maxThreads # Infinite
  <2>1. attr'.maxThreads # Infinite /\ attr'.maxThreads <= InitAttr.maxThreads
    BY <1>3 DEF CapKept, AttrsWithinCap
  <2>2. attr' \in Attr /\ attr'.maxThreads \in Int /\ InitAttr.maxThreads \in Int
    <3>1. attr' \in Attr
      BY PoolConstants DEF IInv, TypeOK
    <3> QED BY <3>1, PoolConstants DEF Attr, Infinite
  <2>3. totalThreads + pendingWorkerThreadStart <= InitAttr.maxThreads
    BY <1>3 DEF CapKept, ThreadCap
  <2>4. CASE pendingWorkerThreadStart' = pendingWorkerThreadStart
    BY <1>1, <1>3, <2>1, <2>3, <2>4 DEF CapKept, ThreadCap
  <2>5. CASE pendingWorkerThreadStart' = 1 /\ Room(attr')
    <3>1. totalThreads + 1 <= attr'.maxThreads
      BY <2>1, <2>5 DEF Room
    <3>2. totalThreads' + pendingWorkerThreadStart' <= InitAttr.maxThreads
      BY <1>1, <2>1, <2>2, <2>5, <3>1
    <3> QED BY <2>1, <3>2 DEF CapKept, ThreadCap
  <2> QED BY <2>4, <2>5 DEF CallEffect, Moved, Pended
<1> QED BY <1>2, <1>3

\* Another call's count stays right while threads are only started.
LEMMA AccurateKept ==
  ASSUME IInv, NEW u \in Thread, Setter(u), Accurate(u),
         call'[u].op = call[u].op, call'[u].step = call[u].step, call'[u].n = call[u].n,
         UNCHANGED <<totalThreads, attr>>, pendingWorkerThreadStart' \in {0, 1},
         pendingWorkerThreadStart' >= pendingWorkerThreadStart
  PROVE  Setter(u)' /\ Accurate(u)'
<1>1. totalThreads \in Nat /\ call[u].n \in Nat /\ attr.minThreads \in Nat
      /\ pendingWorkerThreadStart \in {0, 1}
  <2>1. call[u] \in Call
    BY CallTypes
  <2> QED BY <2>1 DEF IInv, TypeOK, Call, Attr
<1>2. Setter(u)'
  BY DEF Setter
<1>3. CASE call[u].step # "cwStarted"
  BY <1>2, <1>3 DEF Accurate
<1>4. CASE call[u].step = "cwStarted"
  <2>1. \/ totalThreads + pendingWorkerThreadStart >= call[u].n + 1
        \/ totalThreads + pendingWorkerThreadStart >= attr.minThreads
    BY <1>4 DEF Accurate
  <2>2. \/ totalThreads' + pendingWorkerThreadStart' >= call'[u].n + 1
        \/ totalThreads' + pendingWorkerThreadStart' >= attr'.minThreads
    BY <1>1, <2>1
  <2> QED BY <1>2, <1>4, <2>2 DEF Accurate
<1> QED BY <1>3, <1>4

LEMMA EffectKeepsMin ==
  ASSUME IInv, IInv', MinKept, NEW t \in Thread, NEW o, NEW S, CallEffect(t, o, S),
         \/ UNCHANGED attr /\ (Setter(t) /\ Accurate(t) => LoopOK(t))
         \/ attr' \in Attrs /\ LoopOK(t)
  PROVE  MinKept'
<1>1. /\ UNCHANGED <<totalThreads, shutdown>> /\ OtherCalls(t) /\ attr' \in Attrs \cup {InitAttr}
      /\ pendingWorkerThreadStart' >= pendingWorkerThreadStart
      /\ pendingWorkerThreadStart' \in {0, 1}
  BY DEF CallEffect, Moved, Pended, MinKept, IInv, TypeOK
<1>2. CASE LoopOK(t)
  BY <1>1, <1>2 DEF LoopOK, MinKept
<1>3. CASE ~LoopOK(t) /\ shutdown = 0
  <2>1. CASE totalThreads >= attr.minThreads
    BY <1>1, <1>3, <2>1 DEF MinKept
  <2>2. ASSUME NEW u \in Thread, Setter(u), Accurate(u)
        PROVE  MinKept'
    <3>1. u # t /\ UNCHANGED attr
      BY <1>3, <2>2
    <3>2. call'[u] = call[u]
      BY <1>1, <3>1 DEF OtherCalls
    <3>3. Setter(u)' /\ Accurate(u)'
      BY <1>1, <2>2, <3>1, <3>2, AccurateKept
    <3> QED BY <1>1, <3>3 DEF MinKept
  <2> QED BY <1>3, <2>1, <2>2 DEF MinKept
<1>4. CASE shutdown # 0
  BY <1>1, <1>4 DEF MinKept
<1> QED BY <1>2, <1>3, <1>4

-----------------------------------------------------------------------------
(* The invariants through ThreadPoolShutdown and the steps of workers.     *)

\* With no thread left, no worker is inside a call.
LEMMA NoWorkerCalls ==
  ASSUME IInv, CallersRun, totalThreads = 0
  PROVE  \A w \in Worker : call[w] = NoCall /\ wpc[w] \in {"none", "starting"}
<1>1. Alive = {}
  BY WorkerSetsFinite, FS_EmptySet DEF IInv, CountersAgree, Alive
<1> QED BY <1>1 DEF Alive, CallersRun

\* What every step of ThreadPoolShutdown knows and does.
ShutdownMoves(t) ==
  /\ OtherCalls(t) /\ SameRunning /\ shutdown' = 1 /\ phase # "destroyed"
  /\ UNCHANGED <<totalThreads, pendingWorkerThreadStart, attr>>
  /\ \A w \in Worker : wpc[w] \in {"none", "starting"} => wpc'[w] = wpc[w]
  /\ \/ call[t] = NoCall /\ t \in Client /\ \A u \in Client : call[u] = NoCall
     \/ call[t].step \in {"cleanup", "drain"}
  /\ \/ totalThreads > 0 /\ call'[t].op = "shutdown" /\ call'[t].step = "drain" /\ phase' = phase
     \/ totalThreads = 0 /\ call'[t] = NoCall /\ phase' = "destroyed"

\* A step of ThreadPoolShutdown waits for the workers or destroys the pool.
LEMMA DrainMoves ==
  ASSUME IInv, NEW t \in Thread, ShutdownBegin(t) \/ ShutdownContinue(t)
  PROVE  /\ OtherCalls(t)
         /\ \/ totalThreads > 0 /\ call'[t].op = "shutdown" /\ call'[t].step = "drain" /\ phase' = phase
            \/ totalThreads = 0 /\ call'[t] = NoCall /\ phase' = "destroyed"
<1>1. CASE totalThreads > 0 /\ BlockSS(t, [NoCall EXCEPT !.op = "shutdown"], "drain")
           /\ UNCHANGED phase
  <2> DEFINE c == [NoCall EXCEPT !.op = "shutdown"]
  <2>1. c \in Call /\ c.op = "shutdown" /\ BlockSS(t, c, "drain")
    BY <1>1 DEF NoCall, Call, Op, CallStepName
  <2> HIDE DEF c
  <2> QED BY <1>1, <2>1, BlockMoves DEF CallStepName
<1>2. CASE totalThreads = 0 /\ Return(t) /\ phase' = "destroyed"
  BY <1>2, ReturnMoves
<1> QED BY <1>1, <1>2 DEF DrainOrDestroy, ShutdownBegin, ShutdownContinue

LEMMA ShutdownEffect ==
  ASSUME IInv, StepsRight, NEW t \in Thread, ShutdownBegin(t) \/ ShutdownContinue(t)
  PROVE  ShutdownMoves(t)
<1>2. /\ OtherCalls(t)
      /\ \/ totalThreads > 0 /\ call'[t].op = "shutdown" /\ call'[t].step = "drain" /\ phase' = phase
         \/ totalThreads = 0 /\ call'[t] = NoCall /\ phase' = "destroyed"
  BY DrainMoves
<1>3. UNCHANGED <<totalThreads, pendingWorkerThreadStart, attr>>
  BY DEF ShutdownBegin, ShutdownContinue
<1>4. SameRunning /\ \A w \in Worker : wpc[w] \in {"none", "starting"} => wpc'[w] = wpc[w]
  <2>1. CASE ShutdownContinue(t)
    BY <2>1 DEF ShutdownContinue, workerVars, SameRunning
  <2>2. CASE wpc' = [w \in Worker |-> IF wpc[w] = "waiting" THEN "signalled" ELSE wpc[w]]
    BY <2>2 DEF SameRunning
  <2> QED BY <2>1, <2>2 DEF ShutdownBegin
<1>5. phase # "destroyed" /\ shutdown' = 1
  BY DEF ShutdownBegin, ShutdownContinue, CanCall, Resumed, MutexFree, StepsRight
<1>6. \/ call[t] = NoCall /\ t \in Client /\ \A u \in Client : call[u] = NoCall
      \/ call[t].step \in {"cleanup", "drain"}
  BY PoolConstants DEF ShutdownBegin, ShutdownContinue, CanCall, Resumed
<1> QED BY <1>2, <1>3, <1>4, <1>5, <1>6 DEF ShutdownMoves

\* Whoever destroys the pool is the last one inside it.
LEMMA LastUser ==
  ASSUME IInv, CallsOrdered, NEW t \in Thread, ShutdownMoves(t), totalThreads = 0
  PROVE  t \in Client /\ Alone(t) /\ pendingWorkerThreadStart = 0
<1>1. \A w \in Worker : call[w] = NoCall
  BY NoWorkerCalls DEF CallsOrdered
<1>2. t \in Client
  BY <1>1, NoCallFields DEF ShutdownMoves, Thread
<1>3. Alone(t)
  <2>1. CASE \A u \in Client : call[u] = NoCall
    BY <2>1 DEF Alone
  <2>2. CASE call[t].step = "cleanup"
    BY <1>2, <2>2 DEF CallsOrdered, StepsRight, SettersAlone
  <2>3. CASE call[t].step = "drain"
    <3>1. PICK u \in Thread : call[u].step = "drain" /\ (u \in Client => Alone(u))
      BY <2>3 DEF CallsOrdered, StepsRight, DrainAwaited, ShutdownMoves
    <3>2. u \in Client /\ Alone(u)
      BY <1>1, <3>1, NoCallFields DEF Thread
    <3>3. u = t
      BY <1>2, <2>3, <3>2, NoCallFields DEF Alone
    <3> QED BY <3>2, <3>3
  <2> QED BY <2>1, <2>2, <2>3 DEF ShutdownMoves
<1>4. \A u \in Thread : call[u].step # "cwStarted"
  BY <1>1, <1>3, NoCallFields DEF Alone, Thread, ShutdownMoves
<1>5. pendingWorkerThreadStart # 1
  BY <1>4 DEF CallsOrdered, StartAwaited
<1> QED BY <1>2, <1>3, <1>5 DEF IInv, TypeOK

LEMMA ShutdownKeepsOrder ==
  ASSUME IInv, CallsOrdered, InitFirst, NEW t \in Thread, ShutdownMoves(t)
  PROVE  CallsOrdered' /\ InitFirst' /\ QuietWhenDestroyed'
<1>1. /\ OtherCalls(t) /\ SameRunning /\ shutdown' = 1 /\ phase # "destroyed"
      /\ UNCHANGED <<totalThreads, pendingWorkerThreadStart>>
  BY DEF ShutdownMoves
<1>2. call'[t] = NoCall \/ (call'[t].op = "shutdown" /\ call'[t].step = "drain")
  BY DEF ShutdownMoves
<1>3. CallersRun'
  <2> SUFFICES ASSUME NEW w \in Worker, call'[w] # NoCall
               PROVE  wpc'[w] = "running"
    BY DEF CallersRun
  <2>1. w \in Thread /\ call[w] # NoCall
    <3>1. w \in Thread
      BY DEF Thread
    <3>2. CASE w = t
      <4>1. w \notin Client
        BY PoolConstants
      <4> QED BY <3>1, <3>2, <4>1, NoCallFields DEF ShutdownMoves
    <3>3. CASE w # t
      BY <1>1, <3>1, <3>3 DEF OtherCalls
    <3> QED BY <3>2, <3>3
  <2>2. wpc[w] = "running"
    BY <2>1 DEF CallsOrdered, CallersRun
  <2> QED BY <1>1, <2>2 DEF SameRunning
<1>4. StepsRight'
  <2> SUFFICES ASSUME NEW u \in Thread
               PROVE  /\ call'[u].step = "cleanup" => Setter(u)'
                      /\ call'[u].step = "drain" => shutdown' = 1
                      /\ u \in Client /\ call'[u].op = "setAttr" => "setAttr" \in ClientOps
    BY DEF StepsRight
  <2>1. CASE u # t
    BY <1>1, <2>1 DEF OtherCalls, CallsOrdered, StepsRight, Setter
  <2>2. CASE u = t
    BY <1>1, <1>2, <2>2, NoCallFields
  <2> QED BY <2>1, <2>2
<1>5. SettersAlone'
  <2> SUFFICES ASSUME NEW u \in Client, Setter(u)', NEW v \in Client, v # u
               PROVE  call'[v] = NoCall
    BY DEF SettersAlone, Alone
  <2>1. u \in Thread /\ v \in Thread
    BY DEF Thread
  <2>2. u # t
    BY <1>2, NoCallFields DEF Setter
  <2>3. Setter(u) /\ Alone(u)
    BY <1>1, <2>1, <2>2 DEF OtherCalls, Setter, CallsOrdered, SettersAlone
  <2>4. call[v] = NoCall
    BY <2>3 DEF Alone
  <2>5. v # t
    BY <2>3, <2>4, NoCallFields DEF ShutdownMoves, Setter
  <2> QED BY <1>1, <2>1, <2>4, <2>5 DEF OtherCalls
<1>6. StartAwaited'
  <2> SUFFICES ASSUME pendingWorkerThreadStart = 1
               PROVE  \E u \in Thread : call'[u].step = "cwStarted"
    BY <1>1 DEF StartAwaited
  <2>1. PICK u \in Thread : call[u].step = "cwStarted"
    BY DEF CallsOrdered, StartAwaited
  <2>2. u # t
    BY <2>1, NoCallFields DEF ShutdownMoves
  <2> QED BY <1>1, <2>1, <2>2 DEF OtherCalls
<1>7. InitFirst'
  <2> SUFFICES ASSUME NEW u \in Thread, call'[u].op = "init"
               PROVE  u = Main /\ phase' # "up"
    BY DEF InitFirst
  <2>1. u # t
    BY <1>2, NoCallFields
  <2>2. call[u].op = "init"
    BY <1>1, <2>1 DEF OtherCalls
  <2> QED BY <2>2 DEF InitFirst, ShutdownMoves
<1>8. CASE totalThreads = 0
  <2>1. t \in Client /\ Alone(t) /\ pendingWorkerThreadStart = 0
    BY <1>8, LastUser
  <2>2. phase' = "destroyed" /\ call'[t] = NoCall
    BY <1>8 DEF ShutdownMoves
  <2>3. \A w \in Worker : call[w] = NoCall /\ wpc[w] \in {"none", "starting"}
    BY <1>8, NoWorkerCalls DEF CallsOrdered
  <2>4. Starting = {}
    BY <2>1, WorkerSetsFinite, FS_EmptySet DEF IInv, CountersAgree, Starting
  <2>5. \A w \in Worker : wpc'[w] = "none"
    BY <2>3, <2>4 DEF Starting, ShutdownMoves
  <2>6. \A u \in Thread : call'[u] = NoCall
    BY <1>1, <2>1, <2>2, <2>3 DEF OtherCalls, Alone, Thread
  <2> QED BY <1>3, <1>4, <1>5, <1>6, <1>7, <2>2, <2>5, <2>6
          DEF CallsOrdered, DrainAwaited, QuietWhenDestroyed
<1>9. CASE totalThreads # 0
  <2>1. call'[t].step = "drain" /\ phase' = phase
    BY <1>9 DEF ShutdownMoves
  <2>2. \E u \in Thread : call'[u].step = "drain" /\ (u \in Client => Alone(u)')
    <3>1. ASSUME t \in Client, Alone(t)
          PROVE  Alone(t)'
      BY <1>1, <3>1 DEF Alone, OtherCalls, Thread
    <3>2. CASE t \notin Client \/ Alone(t)
      BY <2>1, <3>1, <3>2
    <3>3. CASE t \in Client /\ ~Alone(t)
      <4>1. call[t].step = "drain"
        BY <3>3 DEF ShutdownMoves, Alone, CallsOrdered, StepsRight, SettersAlone
      <4>2. PICK u \in Thread : call[u].step = "drain" /\ (u \in Client => Alone(u))
        BY <4>1 DEF CallsOrdered, StepsRight, DrainAwaited, ShutdownMoves
      <4>3. u # t
        BY <3>3, <4>2
      <4>4. u \notin Client
        BY <3>3, <4>1, <4>2, <4>3, NoCallFields DEF Alone
      <4> QED BY <1>1, <4>2, <4>3, <4>4 DEF OtherCalls
    <3> QED BY <3>2, <3>3
  <2> QED BY <1>1, <1>3, <1>4, <1>5, <1>6, <1>7, <2>1, <2>2
          DEF CallsOrdered, DrainAwaited, QuietWhenDestroyed
<1> QED BY <1>8, <1>9

LEMMA ShutdownKeepsCounts ==
  ASSUME IInv, NEW t \in Thread, ShutdownMoves(t)
  PROVE  (CapKept => CapKept') /\ (MinKept => MinKept')
<1>1. shutdown' = 1 /\ UNCHANGED <<totalThreads, pendingWorkerThreadStart, attr>>
  BY DEF ShutdownMoves
<1> QED BY <1>1 DEF CapKept, ThreadCap, MinKept

\* Whoever waits for the workers to leave creates no thread.
LEMMA DrainKeepsMin ==
  ASSUME IInv, InitFirst, MinKept, NEW t \in Thread, ShutdownBegin(t) \/ ShutdownContinue(t)
  PROVE  InitFirst' /\ MinKept'
<1>1. OtherCalls(t) /\ call'[t].op # "init" /\ phase' \in {phase, "destroyed"}
  BY DrainMoves, NoCallFields
<1>2. InitFirst'
  BY <1>1 DEF InitFirst, OtherCalls
<1>3. UNCHANGED <<totalThreads, pendingWorkerThreadStart, attr>>
  BY DEF ShutdownBegin, ShutdownContinue
<1>4. CASE ShutdownBegin(t)
  <2>1. shutdown' = 1
    BY <1>4 DEF ShutdownBegin
  <2> QED BY <1>2, <1>3, <2>1 DEF MinKept
<1>5. CASE ShutdownContinue(t)
  <2>1. shutdown' = shutdown /\ call[t].step = "drain"
    BY <1>5 DEF ShutdownContinue, Resumed
  <2>2. ASSUME NEW u \in Thread, Setter(u), Accurate(u)
        PROVE  Setter(u)' /\ Accurate(u)'
    <3>1. u # t
      BY <2>1, <2>2 DEF Accurate
    <3>2. call'[u] = call[u]
      BY <1>1, <3>1 DEF OtherCalls
    <3> QED BY <1>3, <2>2, <3>2 DEF Setter, Accurate
  <2>3. MinKept'
    BY <1>3, <2>1, <2>2 DEF MinKept
  <2> QED BY <1>2, <2>3
<1> QED BY <1>4, <1>5

\* The steps that no call takes part in.
LEMMA QuietKeepsOrder ==
  ASSUME IInv, UNCHANGED <<call, shutdown, phase>>,
         pendingWorkerThreadStart' \in {pendingWorkerThreadStart, 0},
         \A w \in Worker : /\ wpc[w] = "none" => wpc'[w] = "none"
                           /\ call[w] # NoCall /\ wpc[w] = "running" => wpc'[w] = "running"
  PROVE  /\ CallsOrdered => CallsOrdered'
         /\ InitFirst => InitFirst'
         /\ QuietWhenDestroyed => QuietWhenDestroyed'
<1>1. InitFirst => InitFirst'
  BY DEF InitFirst
<1>2. QuietWhenDestroyed => QuietWhenDestroyed'
  BY DEF QuietWhenDestroyed
<1>3. ASSUME CallsOrdered PROVE CallsOrdered'
  <2>1. CallersRun' /\ StepsRight' /\ SettersAlone'
    BY <1>3 DEF CallsOrdered, CallersRun, StepsRight, SettersAlone, Setter, Alone
  <2>2. StartAwaited'
    BY <1>3 DEF CallsOrdered, StartAwaited
  <2>3. DrainAwaited'
    BY <1>3 DEF CallsOrdered, DrainAwaited, Alone
  <2> QED BY <2>1, <2>2, <2>3 DEF CallsOrdered
<1> QED BY <1>1, <1>2, <1>3

\* A worker that starts moves from the pending start to the threads.
LEMMA StartKeepsCounts ==
  ASSUME IInv, NEW w \in Worker, WorkerStart(w)
  PROVE  (CapKept => CapKept') /\ (MinKept => MinKept')
<1>1. /\ totalThreads' = totalThreads + 1 /\ pendingWorkerThreadStart' = 0
      /\ UNCHANGED <<attr, call, shutdown>> /\ wpc[w] = "starting"
  BY DEF WorkerStart
<1>2. totalThreads \in Nat /\ pendingWorkerThreadStart = 1 /\ attr.minThreads \in Nat
  <2>1. Starting # {}
    BY <1>1 DEF Starting
  <2>2. pendingWorkerThreadStart # 0
    BY <2>1, WorkerSetsFinite, FS_EmptySet DEF IInv, CountersAgree, Starting
  <2> QED BY <2>2 DEF IInv, TypeOK, Attr
<1>3. CapKept => CapKept'
  BY <1>1, <1>2 DEF CapKept, ThreadCap
<1>4. ASSUME MinKept PROVE MinKept'
  <2>1. CASE shutdown = 0 /\ totalThreads >= attr.minThreads
    <3>1. totalThreads' >= attr'.minThreads
      BY <1>1, <1>2, <2>1
    <3> QED BY <1>1, <1>4, <3>1 DEF MinKept
  <2>2. ASSUME NEW u \in Thread, Setter(u), Accurate(u)
        PROVE  MinKept'
    <3>1. call[u].n \in Nat
      BY CallTypes DEF Call
    <3>2. Setter(u)'
      BY <1>1, <2>2 DEF Setter
    <3>3. CASE call[u].step = "cwStarted"
      <4>1. \/ totalThreads + 1 >= call[u].n + 1
            \/ totalThreads + 1 >= attr.minThreads
        BY <1>2, <2>2, <3>3 DEF Accurate
      <4>2. \/ totalThreads' + pendingWorkerThreadStart' >= call'[u].n + 1
            \/ totalThreads' + pendingWorkerThreadStart' >= attr'.minThreads
        BY <1>1, <1>2, <3>1, <4>1
      <4>3. Accurate(u)'
        BY <1>1, <3>3, <4>2 DEF Accurate
      <4> QED BY <1>1, <1>4, <3>2, <4>3 DEF MinKept
    <3>4. CASE call[u].step # "cwStarted" /\ call[u].step # "cleanup"
      <4>1. totalThreads >= call[u].n \/ totalThreads >= attr.minThreads
        BY <2>2, <3>4 DEF Accurate
      <4>2. totalThreads' >= call'[u].n \/ totalThreads' >= attr'.minThreads
        BY <1>1, <1>2, <3>1, <4>1
      <4>3. Accurate(u)'
        BY <1>1, <2>2, <3>4, <4>2 DEF Accurate
      <4> QED BY <1>1, <1>4, <3>2, <4>3 DEF MinKept
    <3>5. CASE call[u].step = "cleanup"
      <4>1. Accurate(u)'
        BY <1>1, <3>5 DEF Accurate
      <4> QED BY <1>1, <1>4, <3>2, <4>1 DEF MinKept
    <3> QED BY <3>3, <3>4, <3>5
  <2>3. CASE shutdown # 0
    BY <1>1, <1>4, <2>3 DEF MinKept
  <2> QED BY <1>4, <2>1, <2>2, <2>3 DEF MinKept
<1> QED BY <1>3, <1>4

LEMMA SameKeepsCounts ==
  ASSUME UNCHANGED <<totalThreads, pendingWorkerThreadStart, attr, call, shutdown>>
  PROVE  (CapKept => CapKept') /\ (MinKept => MinKept')
BY DEF CapKept, ThreadCap, MinKept, Setter, Accurate

\* A worker leaves the pool only when minThreads remain, or when it shuts down.
LEMMA LoopKeepsCounts ==
  ASSUME IInv, NEW w \in Worker, WorkerStep(w)
  PROVE  (CapKept => CapKept') /\ (MinBelowMax /\ MinKept => MinKept')
<1>1. UNCHANGED <<pendingWorkerThreadStart, attr, call, shutdown>>
  BY DEF WorkerStep
<1>2. totalThreads \in Nat /\ attr \in Attr /\ pendingWorkerThreadStart \in {0, 1}
  BY DEF IInv, TypeOK
<1>3. CASE UNCHANGED totalThreads
  BY <1>1, <1>3, SameKeepsCounts
<1>4. CASE totalThreads' = totalThreads - 1 /\ (shutdown = 1 \/ Surplus(w))
  <2>1. CapKept => CapKept'
    <3>1. InitAttr.maxThreads \in Int
      BY PoolConstants DEF Attr, Infinite
    <3> QED BY <1>1, <1>2, <1>4, <3>1 DEF CapKept, ThreadCap
  <2>2. ASSUME MinBelowMax, MinKept PROVE MinKept'
    <3>1. CASE shutdown = 1
      BY <1>1, <2>2, <3>1 DEF MinKept
    <3>2. CASE Surplus(w)
      <4>1. attr.minThreads \in Nat /\ attr.maxThreads \in Int
        BY <1>2 DEF Attr, Infinite
      <4>2. totalThreads > attr.minThreads
        <5>1. attr.maxThreads # Infinite => attr.minThreads <= attr.maxThreads
          BY <2>2 DEF MinBelowMax, MinKept
        <5> QED BY <1>2, <3>2, <4>1, <5>1 DEF Surplus
      <4>3. totalThreads' >= attr'.minThreads
        BY <1>1, <1>2, <1>4, <4>1, <4>2
      <4> QED BY <1>1, <2>2, <4>3 DEF MinKept
    <3> QED BY <1>4, <3>1, <3>2
  <2> QED BY <2>1, <2>2
<1> QED BY <1>3, <1>4 DEF WorkerStep, WorkerExit, WorkerWait, WorkerPick

-----------------------------------------------------------------------------
(* A job has one place.                                                    *)

InQueues(j, q) == \E p \in Priority : \E i \in DOMAIN q[p] : q[p][i] = j

\* PlacedOnce for the queues q, the persistent slot s and the workers' jobs f.
Placed(q, s, f) ==
  /\ Distinct(q)
  /\ \A w \in Worker : f[w] # NoJob =>
       /\ f[w] # s /\ ~InQueues(f[w], q)
       /\ \A v \in Worker : f[v] = f[w] => v = w
  /\ s # NoJob => ~InQueues(s, q)

LEMMA PlacedForm ==
  /\ PlacedOnce <=> Placed(jobQ, persistentJob, wjob)
  /\ PlacedOnce' <=> Placed(jobQ', persistentJob', wjob')
<1>1. \A j : (\A p \in Priority : ~Queued(j, p)) <=> ~InQueues(j, jobQ)
  BY DEF Queued, InQueues
<1>2. \A j : (\A p \in Priority : ~Queued(j, p)') <=> ~InQueues(j, jobQ')
  BY DEF Queued, InQueues
<1>3. PlacedOnce <=> Placed(jobQ, persistentJob, wjob)
  BY <1>1 DEF PlacedOnce, Placed, Distinct
<1>4. PlacedOnce' <=> Placed(jobQ', persistentJob', wjob')
  BY <1>2 DEF PlacedOnce, Placed, Distinct, Queued, InQueues
<1> QED BY <1>3, <1>4

\* Jobs may leave and move between the queues.
LEMMA ShrinkKeepsPlaced ==
  ASSUME NEW q, NEW s, NEW f, NEW r, NEW u, NEW g, Placed(q, s, f), Distinct(r),
         \A j : InQueues(j, r) => InQueues(j, q),
         u \in {s, NoJob}, \A w \in Worker : g[w] \in {f[w], NoJob}
  PROVE  Placed(r, u, g)
BY DEF Placed

\* The queues after the steps that do not add a job.
LEMMA BumpedQueues ==
  ASSUME NEW q \in [Priority -> Seq(Job)], Distinct(q)
  PROVE  /\ Distinct(BumpPriority(q))
         /\ \A j : InQueues(j, BumpPriority(q)) => InQueues(j, q)
<1>1. Distinct(BumpPriority(q))
  BY BumpPriorityDistinct
<1>2. \A p \in Priority : \A i \in DOMAIN BumpPriority(q)[p] :
        \E r \in Priority : \E k \in DOMAIN q[r] : BumpPriority(q)[p][i] = q[r][k]
  BY BumpPriorityType
<1> QED BY <1>1, <1>2 DEF InQueues

\* One queue changes and holds jobs it held before, in other positions.
LEMMA OneQueueShrinks ==
  ASSUME NEW q \in [Priority -> Seq(Job)], NEW p \in Priority, NEW s \in Seq(Job), Distinct(q),
         \A i \in DOMAIN s : \E k \in DOMAIN q[p] : s[i] = q[p][k],
         \A i, k \in DOMAIN s : s[i] = s[k] => i = k
  PROVE  /\ Distinct([q EXCEPT ![p] = s])
         /\ \A j : InQueues(j, [q EXCEPT ![p] = s]) => InQueues(j, q)
<1> DEFINE r == [q EXCEPT ![p] = s]
<1>1. r[p] = s /\ \A p1 \in Priority : p1 # p => r[p1] = q[p1]
  OBVIOUS
<1> HIDE DEF r
<1>2. Distinct(r)
  <2> SUFFICES ASSUME NEW p1 \in Priority, NEW p2 \in Priority, NEW i \in DOMAIN r[p1],
                      NEW k \in DOMAIN r[p2], r[p1][i] = r[p2][k]
               PROVE  p1 = p2 /\ i = k
    BY DEF Distinct
  <2>1. PICK h \in DOMAIN q[p1] : r[p1][i] = q[p1][h] /\ (p1 # p => h = i)
    BY <1>1
  <2>2. PICK l \in DOMAIN q[p2] : r[p2][k] = q[p2][l] /\ (p2 # p => l = k)
    BY <1>1
  <2>a. q[p1][h] = q[p2][l]
    BY <2>1, <2>2
  <2>3. p1 = p2 /\ h = l
    BY <2>a DEF Distinct
  <2>4. CASE p1 = p
    BY <1>1, <2>3, <2>4
  <2>5. CASE p1 # p
    BY <2>1, <2>2, <2>3, <2>5
  <2> QED BY <2>4, <2>5
<1>3. ASSUME NEW j, InQueues(j, r)
      PROVE  InQueues(j, q)
  <2>1. PICK p1 \in Priority : \E i \in DOMAIN r[p1] : r[p1][i] = j
    BY <1>3 DEF InQueues
  <2>2. CASE p1 = p
    BY <1>1, <2>1, <2>2 DEF InQueues
  <2>3. CASE p1 # p
    BY <1>1, <2>1, <2>3 DEF InQueues
  <2> QED BY <2>2, <2>3
<1> QED BY <1>2, <1>3 DEF r

LEMMA RemoveKeepsPlaced ==
  ASSUME IInv, PlacedOnce, NEW t \in Thread, NEW id, ThreadPoolRemove(t, id)
  PROVE  PlacedOnce'
<1>1. jobQ \in [Priority -> Seq(Job)] /\ Placed(jobQ, persistentJob, wjob)
  BY PlacedForm DEF IInv, TypeOK
<1>2. UNCHANGED wjob
  BY DEF ThreadPoolRemove, workerVars
<1>3. Distinct(jobQ)
  BY <1>1 DEF Placed
<1>4. ASSUME NEW p \in Priority, RemoveFrom(p, id)
      PROVE  PlacedOnce'
  <2>1. PICK i \in DOMAIN jobQ[p] :
          jobQ' = [jobQ EXCEPT ![p] = RemoveAt(@, i)] /\ UNCHANGED persistentJob
    BY <1>4 DEF RemoveFrom, WithId
  <2> DEFINE s == RemoveAt(jobQ[p], i)
  <2>2. jobQ[p] \in Seq(Job) /\ jobQ' = [jobQ EXCEPT ![p] = s]
    BY <1>1, <2>1
  <2>3. /\ s \in Seq(Job)
        /\ \A k \in DOMAIN s : LET h == IF k < i THEN k ELSE k + 1
                               IN h \in DOMAIN jobQ[p] /\ s[k] = jobQ[p][h]
        /\ \A k \in DOMAIN s : \E h \in DOMAIN jobQ[p] : s[k] = jobQ[p][h]
        /\ DOMAIN s = 1 .. Len(jobQ[p]) - 1
    BY <2>2, RemoveAtType
  <2> HIDE DEF s
  <2>4. ASSUME NEW k \in DOMAIN s, NEW l \in DOMAIN s, s[k] = s[l]
        PROVE  k = l
    <3> DEFINE h(x) == IF x < i THEN x ELSE x + 1
    <3>1. h(k) \in DOMAIN jobQ[p] /\ h(l) \in DOMAIN jobQ[p] /\ jobQ[p][h(k)] = jobQ[p][h(l)]
      BY <2>3, <2>4
    <3>2. h(k) = h(l)
      <4> HIDE DEF h
      <4> QED BY <1>3, <3>1 DEF Distinct
    <3>3. k \in Int /\ l \in Int /\ i \in Int
      BY <2>2, <2>3, LenProperties
    <3> QED BY <3>2, <3>3
  <2>5. /\ Distinct([jobQ EXCEPT ![p] = s])
        /\ \A j : InQueues(j, [jobQ EXCEPT ![p] = s]) => InQueues(j, jobQ)
    BY <1>1, <1>3, <2>3, <2>4, OneQueueShrinks
  <2>a. Distinct(jobQ') /\ \A j : InQueues(j, jobQ') => InQueues(j, jobQ)
    BY <2>2, <2>5
  <2>b. persistentJob' \in {persistentJob, NoJob} /\ \A w \in Worker : wjob'[w] \in {wjob[w], NoJob}
    BY <1>2, <2>1
  <2>6. Placed(jobQ', persistentJob', wjob')
    BY <1>1, <2>a, <2>b, ShrinkKeepsPlaced
  <2> QED BY <2>6, PlacedForm
<1>5. CASE persistentJob' = NoJob /\ UNCHANGED jobQ
  <2>1. Placed(jobQ', persistentJob', wjob')
    BY <1>1, <1>2, <1>3, <1>5, ShrinkKeepsPlaced
  <2> QED BY <2>1, PlacedForm
<1> QED BY <1>4, <1>5 DEF ThreadPoolRemove, Priority

\* The new job is nowhere in the pool.
LEMMA NewJobNowhere ==
  ASSUME IInv
  PROVE  /\ nextJob + 1 # NoJob /\ ~InQueues(nextJob + 1, jobQ)
         /\ nextJob + 1 # persistentJob /\ \A w \in Worker : wjob[w] # nextJob + 1
<1>1. nextJob \in Nat
  BY PoolConstants DEF IInv, TypeOK
<1>2. \A p \in Priority : \A i \in DOMAIN jobQ[p] : jobQ[p][i] \in Job /\ jobQ[p][i] <= nextJob
  BY QueueElements DEF IInv, TypeOK, JobsKnown
<1>3. ~InQueues(nextJob + 1, jobQ)
  BY <1>1, <1>2 DEF InQueues, Job
<1>4. nextJob + 1 # persistentJob /\ \A w \in Worker : wjob[w] # nextJob + 1
  BY <1>1 DEF IInv, JobsKnown, TypeOK, Job, NoJob
<1> QED BY <1>1, <1>3, <1>4 DEF NoJob

LEMMA AddKeepsPlaced ==
  ASSUME IInv, PlacedOnce, NEW t \in Thread, NEW p \in AddPriorities, ThreadPoolAdd(t, p)
  PROVE  PlacedOnce'
<1> DEFINE j == nextJob + 1
<1>1. jobQ \in [Priority -> Seq(Job)] /\ Placed(jobQ, persistentJob, wjob) /\ p \in Priority
  BY PlacedForm, PoolConstants DEF IInv, TypeOK, Priority
<1>2. UNCHANGED <<wjob, persistentJob>>
  BY DEF ThreadPoolAdd
<1>3. /\ j # NoJob /\ ~InQueues(j, jobQ)
      /\ j # persistentJob /\ \A w \in Worker : wjob[w] # j
  BY NewJobNowhere
<1>4. CASE jobQ' = jobQ
  <2>1. Placed(jobQ', persistentJob', wjob')
    BY <1>1, <1>2, <1>4
  <2> QED BY <2>1, PlacedForm
<1>5. CASE jobQ' = [jobQ EXCEPT ![p] = Append(@, j)]
  <2> DEFINE s == jobQ[p]
             n == Len(s)
  <2>1. /\ jobQ'[p] = Append(s, j)
        /\ \A r \in Priority : r # p => jobQ'[r] = jobQ[r]
    BY <1>1, <1>5
  <2>2. /\ n \in Nat /\ DOMAIN s = 1 .. n /\ DOMAIN Append(s, j) = 1 .. n + 1
        /\ \A i \in 1 .. n : Append(s, j)[i] = s[i]
        /\ Append(s, j)[n + 1] = j
    <3>1. s \in Seq(Job) /\ n \in Nat /\ DOMAIN s = 1 .. n
      BY <1>1, LenProperties
    <3>2. s \in Seq(Job \cup {j}) /\ j \in Job \cup {j}
      BY <3>1, SeqDef
    <3>3. /\ Append(s, j) \in Seq(Job \cup {j}) /\ Len(Append(s, j)) = n + 1
          /\ \A i \in 1 .. n : Append(s, j)[i] = s[i]
          /\ Append(s, j)[n + 1] = j
      BY <3>2, AppendProperties
    <3>4. DOMAIN Append(s, j) = 1 .. n + 1
      BY <3>3, LenProperties
    <3> QED BY <3>1, <3>3, <3>4
  <2> HIDE DEF j, s, n
  <2>3. \A r \in Priority : \A i \in DOMAIN jobQ'[r] :
          \/ i \in DOMAIN jobQ[r] /\ jobQ'[r][i] = jobQ[r][i]
          \/ r = p /\ i = n + 1 /\ jobQ'[r][i] = j
    <3> SUFFICES ASSUME NEW r \in Priority, NEW i \in DOMAIN jobQ'[r]
                 PROVE  \/ i \in DOMAIN jobQ[r] /\ jobQ'[r][i] = jobQ[r][i]
                        \/ r = p /\ i = n + 1 /\ jobQ'[r][i] = j
      OBVIOUS
    <3>1. CASE r = p
      <4>1. i \in 1 .. n + 1 /\ jobQ'[r] = Append(s, j)
        BY <2>1, <2>2, <3>1
      <4>2. i \in 1 .. n \/ i = n + 1
        BY <2>2, <4>1
      <4> QED BY <2>2, <3>1, <4>1, <4>2 DEF s
    <3>2. CASE r # p
      BY <2>1, <3>2
    <3> QED BY <3>1, <3>2
  <2>4. \A x : InQueues(x, jobQ') => InQueues(x, jobQ) \/ x = j
    BY <2>3 DEF InQueues
  <2>5. Distinct(jobQ')
    <3> SUFFICES ASSUME NEW p1 \in Priority, NEW p2 \in Priority, NEW i \in DOMAIN jobQ'[p1],
                        NEW k \in DOMAIN jobQ'[p2], jobQ'[p1][i] = jobQ'[p2][k]
                 PROVE  p1 = p2 /\ i = k
      BY DEF Distinct
    <3>1. Distinct(jobQ) /\ ~InQueues(j, jobQ)
      BY <1>1, <1>3 DEF Placed
    <3>2. CASE p1 = p /\ i = n + 1 /\ jobQ'[p1][i] = j
      BY <2>3, <3>1, <3>2 DEF InQueues
    <3>3. CASE i \in DOMAIN jobQ[p1] /\ jobQ'[p1][i] = jobQ[p1][i]
      <4>1. k \in DOMAIN jobQ[p2] /\ jobQ'[p2][k] = jobQ[p2][k]
        BY <2>3, <3>1, <3>3 DEF InQueues
      <4>2. jobQ[p1][i] = jobQ[p2][k]
        BY <3>3, <4>1
      <4> QED BY <3>1, <3>3, <4>1, <4>2 DEF Distinct
    <3> QED BY <2>3, <3>2, <3>3
  <2>6. Placed(jobQ', persistentJob', wjob')
    BY <1>1, <1>2, <1>3, <2>4, <2>5 DEF Placed
  <2> QED BY <2>6, PlacedForm
<1> QED BY <1>4, <1>5 DEF ThreadPoolAdd

LEMMA PersistentKeepsPlaced ==
  ASSUME IInv, PlacedOnce, NEW t \in Thread,
         ThreadPoolAddPersistent(t) \/ PersistentContinue(t)
  PROVE  PlacedOnce'
<1>1. Placed(jobQ, persistentJob, wjob) /\ UNCHANGED <<jobQ, wjob>>
  BY PlacedForm DEF ThreadPoolAddPersistent, PersistentContinue, persistentFrame
<1>2. persistentJob' \in {persistentJob, nextJob + 1}
  BY DEF ThreadPoolAddPersistent, PersistentContinue, PersistentCreate, PlacePersistent
<1>3. /\ ~InQueues(nextJob + 1, jobQ) /\ \A w \in Worker : wjob[w] # nextJob + 1
  BY NewJobNowhere
<1>4. Placed(jobQ', persistentJob', wjob')
  BY <1>1, <1>2, <1>3 DEF Placed
<1> QED BY <1>4, PlacedForm

LEMMA ShutdownKeepsPlaced ==
  ASSUME PlacedOnce, NEW t \in Thread, ShutdownBegin(t)
  PROVE  PlacedOnce'
<1>1. jobQ' = [p \in Priority |-> <<>>] /\ persistentJob' = NoJob /\ UNCHANGED wjob
  BY DEF ShutdownBegin
<1>2. \A p \in Priority : DOMAIN jobQ'[p] = {}
  BY <1>1
<1>3. Distinct(jobQ') /\ \A j : ~InQueues(j, jobQ')
  BY <1>2 DEF Distinct, InQueues
<1>4. Placed(jobQ', persistentJob', wjob')
  BY <1>1, <1>3, PlacedForm, ShrinkKeepsPlaced
<1> QED BY <1>4, PlacedForm

LEMMA LoopKeepsPlaced ==
  ASSUME IInv, PlacedOnce, NEW w \in Worker, WorkerStep(w)
  PROVE  PlacedOnce'
<1> DEFINE q == BumpPriority(jobQ)
           p == TopQueue(q)
<1>1. /\ jobQ \in [Priority -> Seq(Job)] /\ Placed(jobQ, persistentJob, wjob)
      /\ Distinct(jobQ) /\ wjob \in [Worker -> Job \cup {NoJob}]
  BY PlacedForm DEF IInv, TypeOK, Placed
<1>2. /\ Distinct(q) /\ \A j : InQueues(j, q) => InQueues(j, jobQ)
      /\ q \in [Priority -> Seq(Job)] /\ QueuedJobs(q) = QueuedJobs(jobQ)
  BY <1>1, BumpedQueues, BumpPriorityType
<1>3. CASE /\ jobQ' \in {jobQ, q} /\ UNCHANGED persistentJob
           /\ wjob' = [wjob EXCEPT ![w] = NoJob]
  <2>1. \A v \in Worker : wjob'[v] \in {wjob[v], NoJob}
    BY <1>1, <1>3
  <2>2. Distinct(jobQ') /\ \A j : InQueues(j, jobQ') => InQueues(j, jobQ)
    BY <1>1, <1>2, <1>3
  <2> HIDE DEF q
  <2>3. Placed(jobQ', persistentJob', wjob')
    BY <1>1, <1>3, <2>1, <2>2, ShrinkKeepsPlaced
  <2> QED BY <2>3, PlacedForm
<1>4. CASE /\ persistentJob # NoJob
           /\ wjob' = [wjob EXCEPT ![w] = persistentJob]
           /\ persistentJob' = NoJob /\ jobQ' = q
  <2> HIDE DEF q
  <2>1. /\ wjob'[w] = persistentJob /\ \A v \in Worker : v # w => wjob'[v] = wjob[v]
    BY <1>1, <1>4
  <2>2. /\ ~InQueues(persistentJob, jobQ) /\ \A v \in Worker : wjob[v] # persistentJob
    BY <1>1, <1>4 DEF Placed
  <2>3. Placed(jobQ', persistentJob', wjob')
    BY <1>1, <1>2, <1>4, <2>1, <2>2 DEF Placed
  <2> QED BY <2>3, PlacedForm
<1>5. CASE /\ persistentJob = NoJob /\ shutdown = 0 /\ ~Idle
           /\ wjob' = [wjob EXCEPT ![w] = Head(q[p])]
           /\ jobQ' = [q EXCEPT ![p] = Tail(@)]
           /\ UNCHANGED persistentJob
  <2>1. QueuedJobs(jobQ) # 0
    BY <1>5 DEF Idle
  <2>2. p \in Priority /\ q[p] # <<>>
    BY <1>2, <2>1, TopQueueNonempty
  <2> HIDE DEF q, p
  <2> DEFINE s == Tail(q[p])
             j == Head(q[p])
  <2>3. /\ q[p] \in Seq(Job) /\ Len(q[p]) \in Nat /\ DOMAIN q[p] = 1 .. Len(q[p])
        /\ s \in Seq(Job) /\ Len(s) = Len(q[p]) - 1
        /\ \A i \in 1 .. Len(s) : s[i] = q[p][i + 1]
    BY <1>2, <2>2, HeadTailProperties, LenProperties
  <2>4. /\ Len(q[p]) # 0 /\ j = q[p][1] /\ 1 \in DOMAIN q[p] /\ j \in Job
        /\ DOMAIN s = 1 .. Len(q[p]) - 1
    BY <2>2, <2>3, LenProperties, ElementOfSeq
  <2>5. \A i \in DOMAIN s : i \in Nat /\ i + 1 # 1 /\ i + 1 \in DOMAIN q[p] /\ s[i] = q[p][i + 1]
    BY <2>3, <2>4
  <2> HIDE DEF s, j
  <2>6. /\ \A i \in DOMAIN s : \E k \in DOMAIN q[p] : s[i] = q[p][k]
        /\ \A i, k \in DOMAIN s : s[i] = s[k] => i = k
    <3>1. ASSUME NEW i \in DOMAIN s, NEW k \in DOMAIN s, s[i] = s[k]
          PROVE  i = k
      <4>1. i + 1 = k + 1
        BY <1>2, <2>2, <2>5, <3>1 DEF Distinct
      <4> QED BY <2>5, <4>1
    <3> QED BY <2>5, <3>1
  <2>7. jobQ' = [q EXCEPT ![p] = s]
    BY <1>5 DEF s
  <2>8. Distinct(jobQ') /\ \A x : InQueues(x, jobQ') => InQueues(x, q)
    BY <1>2, <2>2, <2>3, <2>6, <2>7, OneQueueShrinks
  <2>9. ~InQueues(j, jobQ')
    <3> SUFFICES ASSUME NEW r \in Priority, NEW i \in DOMAIN jobQ'[r], jobQ'[r][i] = j
                 PROVE  FALSE
      BY DEF InQueues
    <3>1. CASE r = p
      <4>1. jobQ'[r] = s
        BY <1>2, <2>7, <3>1
      <4>2. i + 1 \in DOMAIN q[p] /\ i + 1 # 1 /\ q[p][i + 1] = q[p][1]
        BY <2>4, <2>5, <4>1
      <4> QED BY <1>2, <2>2, <2>4, <4>2 DEF Distinct
    <3>2. CASE r # p
      <4>1. jobQ'[r] = q[r]
        BY <1>2, <2>7, <3>2
      <4> QED BY <1>2, <2>2, <2>4, <3>2, <4>1 DEF Distinct
    <3> QED BY <3>1, <3>2
  <2>10. InQueues(j, jobQ) /\ j # NoJob
    <3>1. InQueues(j, q)
      BY <2>2, <2>4 DEF InQueues
    <3> QED BY <1>2, <2>4, <3>1 DEF Job, NoJob
  <2>11. /\ wjob'[w] = j /\ \A v \in Worker : v # w => wjob'[v] = wjob[v]
    BY <1>1, <1>5 DEF j
  <2>12. \A v \in Worker : wjob[v] # j
    BY <1>1, <2>10 DEF Placed
  <2>13. \A x : InQueues(x, jobQ') => InQueues(x, jobQ)
    BY <1>2, <2>8
  <2>14. Placed(jobQ', persistentJob', wjob')
    BY <1>1, <1>5, <2>8, <2>9, <2>10, <2>11, <2>12, <2>13 DEF Placed
  <2> QED BY <2>14, PlacedForm
<1> QED BY <1>3, <1>4, <1>5 DEF WorkerStep, WorkerExit, WorkerWait, WorkerPick

-----------------------------------------------------------------------------
(* The invariants through every step.                                      *)

\* What every step of Next is, for the four invariants above.
Kind ==
  \/ \E t \in Thread : \E o : \E S :
       /\ CallEffect(t, o, S) /\ PhaseMoves(t, o) /\ (o = "init" => call[t].op = "init")
       /\ \/ UNCHANGED attr /\ (Setter(t) /\ Accurate(t) => LoopOK(t))
          \/ attr' \in Attrs /\ LoopOK(t)
  \/ \E t \in Thread : ShutdownBegin(t) \/ ShutdownContinue(t)
  \/ \E w \in Worker : WorkerStart(w) \/ WorkerStep(w)
  \/ /\ UNCHANGED <<totalThreads, pendingWorkerThreadStart, attr, call, shutdown, phase>>
     /\ \A w \in Worker : /\ wpc[w] = "none" => wpc'[w] = "none"
                          /\ call[w] # NoCall /\ wpc[w] = "running" => wpc'[w] = "running"

\* A step of a call that counts no threads.
LEMMA NotCounting ==
  ASSUME NEW t \in Thread, NEW o, NEW S, CallEffect(t, o, S), o \notin {"init", "setAttr"}
  PROVE  ~Setter(t)
BY NoCallFields DEF CallEffect, From, Setter

LEMMA EveryStep ==
  ASSUME IInv, IInv', [Next]_vars
  PROVE  Kind
<1>1. ASSUME NEW t \in Thread, NEW o, NEW S, o \notin {"init", "setAttr"},
             CallEffect(t, o, S), UNCHANGED <<attr, phase>>
      PROVE  Kind
  <2>1. ~Setter(t) /\ PhaseMoves(t, o)
    BY <1>1, NotCounting DEF PhaseMoves
  <2> QED BY <1>1, <2>1 DEF Kind
<1>2. ASSUME NEW t \in Thread,
             (\E p \in AddPriorities : ThreadPoolAdd(t, p)) \/ AddContinue(t)
      PROVE  Kind
  BY <1>1, <1>2, AddEffect
<1>3. ASSUME NEW t \in Thread, ThreadPoolAddPersistent(t) \/ PersistentContinue(t)
      PROVE  Kind
  BY <1>1, <1>3, PersistentEffect
<1>4. ASSUME NEW t \in Thread, PersistentPickup(t) \/ StartStillPending(t)
                               \/ GetAttrTest(t) \/ GetAttrCopy(t)
      PROVE  Kind
  <2>1. PICK o : /\ CallEffect(t, o, {"pickup", "cwStarted", "locking"})
                 /\ o = call[t].op \/ o = "getAttr"
    BY <1>4, OtherEffect
  <2>2. Stays(t) /\ UNCHANGED <<attr, phase>>
    BY <1>4, OtherEffect
  <2>3. PhaseMoves(t, o) /\ (o = "init" => call[t].op = "init")
    BY <2>1, <2>2 DEF PhaseMoves
  <2>4. ASSUME Setter(t), Accurate(t) PROVE LoopOK(t)
    <3>1. /\ call'[t].op = call[t].op /\ call'[t].step = call[t].step /\ call'[t].n = call[t].n
      BY <2>2, <2>4 DEF Stays, Accurate
    <3>2. /\ UNCHANGED <<totalThreads, attr>> /\ pendingWorkerThreadStart' \in {0, 1}
          /\ pendingWorkerThreadStart' >= pendingWorkerThreadStart
      BY <2>1, <2>2 DEF CallEffect, Moved, Pended, IInv, TypeOK
    <3> QED BY <2>4, <3>1, <3>2, AccurateKept DEF LoopOK
  <2> QED BY <2>1, <2>2, <2>3, <2>4 DEF Kind
<1>5. ASSUME NEW t \in Thread,
             \/ ThreadPoolInit(t)
             \/ \E a \in Attrs : ThreadPoolSetAttr(t, a)
             \/ MinThreadsContinue(t)
      PROVE  Kind
  <2>1. PICK o \in {"init", "setAttr"} : SetterEffect(t, o)
    BY <1>5, SettersMove
  <2> QED BY <2>1 DEF SetterEffect, Kind
<1>6. ASSUME UNCHANGED <<totalThreads, pendingWorkerThreadStart, attr, call, shutdown, phase, wpc>>
      PROVE  Kind
  BY <1>6 DEF Kind
<1>7. ASSUME NEW t \in Thread, Invoke(t)
      PROVE  Kind
  <2>1. ASSUME NEW id, ThreadPoolRemove(t, id)
        PROVE  Kind
    BY <1>6, <2>1 DEF ThreadPoolRemove, workerVars, callVars
  <2>2. CASE ShutdownBegin(t)
    BY <2>2 DEF Kind
  <2> QED BY <1>2, <1>3, <1>4, <1>5, <1>7, <2>1, <2>2 DEF Invoke
<1>8. ASSUME NEW t \in Thread, CallStep(t)
      PROVE  Kind
  <2>1. CASE ShutdownBegin(t) \/ ShutdownContinue(t)
    BY <2>1 DEF Kind
  <2> QED BY <1>2, <1>3, <1>4, <1>5, <1>8, <2>1 DEF CallStep
<1>9. ASSUME NEW w \in Worker, NEW s \in {"top", "signalled", "timedout"},
             wpc[w] # "none", wpc[w] = "running" => call[w] = NoCall,
             wpc' = [wpc EXCEPT ![w] = s], UNCHANGED <<poolVars, call>>
      PROVE  Kind
  <2>1. \A v \in Worker : /\ wpc[v] = "none" => wpc'[v] = "none"
                          /\ call[v] # NoCall /\ wpc[v] = "running" => wpc'[v] = "running"
    BY <1>9 DEF IInv, TypeOK
  <2> QED BY <1>9, <2>1 DEF Kind, poolVars
<1>10. ASSUME NEW t \in Thread, SpuriousWake(t)
       PROVE  Kind
  BY <1>6, <1>9, <1>10 DEF SpuriousWake, poolVars
<1>11. ASSUME NEW w \in Worker, WorkerNext(w)
       PROVE  Kind
  <2>1. CASE WorkerStart(w) \/ WorkerStep(w)
    BY <2>1 DEF Kind
  <2>2. CASE JobReturns(w)
    BY <1>9, <2>2 DEF JobReturns, callVars
  <2>3. CASE WaitTimesOut(w)
    BY <1>9, <2>3 DEF WaitTimesOut, callVars
  <2> QED BY <1>11, <2>1, <2>2, <2>3 DEF WorkerNext
<1>12. CASE Tick \/ UNCHANGED vars
  BY <1>6, <1>12 DEF Tick, vars, poolVars, workerVars, callVars
<1> QED BY <1>7, <1>8, <1>10, <1>11, <1>12 DEF Next

\* A worker that starts or runs its loop is not inside a call.
LEMMA WorkersKeepOrder ==
  ASSUME IInv, NEW w \in Worker, WorkerStart(w) \/ WorkerStep(w)
  PROVE  /\ CallsOrdered => CallsOrdered'
         /\ InitFirst => InitFirst'
         /\ QuietWhenDestroyed => QuietWhenDestroyed'
<1>1. UNCHANGED <<call, shutdown, phase>>
  BY DEF WorkerStart, WorkerStep
<1>2. pendingWorkerThreadStart' \in {pendingWorkerThreadStart, 0}
  BY DEF WorkerStart, WorkerStep
<1>3. PICK s : wpc' = [wpc EXCEPT ![w] = s] /\ wpc[w] \in {"starting", "top", "signalled", "timedout"}
  BY DEF WorkerStart, WorkerStep, WorkerExit, WorkerWait, WorkerPick
<1>4. \A v \in Worker : /\ wpc[v] = "none" => wpc'[v] = "none"
                        /\ call[v] # NoCall /\ wpc[v] = "running" => wpc'[v] = "running"
  BY <1>3 DEF IInv, TypeOK
<1> QED BY <1>1, <1>2, <1>4, QuietKeepsOrder

LEMMA InitOrder == Init => CallsOrdered /\ InitFirst /\ CapKept /\ MinKept /\ PlacedOnce
<1> SUFFICES ASSUME Init PROVE CallsOrdered /\ InitFirst /\ CapKept /\ MinKept /\ PlacedOnce
  OBVIOUS
<1> DEFINE c == [NoCall EXCEPT !.op = "init", !.step = "start"]
<1>1. c.op = "init" /\ c.step = "start" /\ c.n = 0
  BY DEF NoCall
<1>2. /\ \A t \in Thread : t # Main => call[t] = NoCall
      /\ Main \in Thread /\ call[Main] = c
      /\ phase = "init" /\ shutdown = 0 /\ pendingWorkerThreadStart = 0 /\ totalThreads = 0
      /\ attr = InitAttr
  BY PoolConstants DEF Init, Thread
<1> HIDE DEF c
<1>3. InitFirst
  BY <1>1, <1>2, NoCallFields DEF InitFirst
<1>4. CallsOrdered
  <2>1. \A w \in Worker : w # Main /\ w \in Thread
    BY PoolConstants DEF Thread
  <2>2. CallersRun
    BY <1>2, <2>1 DEF CallersRun
  <2>3. StepsRight
    BY <1>1, <1>2, NoCallFields DEF StepsRight
  <2>4. SettersAlone
    BY <1>2, NoCallFields DEF SettersAlone, Setter, Alone, Thread
  <2> QED BY <1>2, <2>2, <2>3, <2>4 DEF CallsOrdered, StartAwaited, DrainAwaited
<1>5. CapKept
  BY <1>2, PoolConstants DEF CapKept, ThreadCap, Attr, Infinite
<1>6. MinKept
  <2>1. Setter(Main) /\ Accurate(Main)
    BY <1>1, <1>2 DEF Setter, Accurate
  <2> QED BY <1>2, <2>1 DEF MinKept
<1>7. PlacedOnce
  <2>1. \A p \in Priority : DOMAIN jobQ[p] = {}
    BY DEF Init
  <2>2. persistentJob = NoJob /\ \A w \in Worker : wjob[w] = NoJob
    BY DEF Init
  <2> QED BY <2>1, <2>2 DEF PlacedOnce
<1> QED BY <1>3, <1>4, <1>5, <1>6, <1>7

LEMMA PlacedStep ==
  ASSUME IInv, PlacedOnce, [Next]_vars
  PROVE  PlacedOnce'
<1>1. ASSUME UNCHANGED <<jobQ, persistentJob, wjob>>
      PROVE  PlacedOnce'
  <2>1. Placed(jobQ', persistentJob', wjob')
    BY <1>1, PlacedForm
  <2> QED BY <2>1, PlacedForm
<1>2. ASSUME NEW t \in Thread, Invoke(t)
      PROVE  PlacedOnce'
  <2>1. CASE (\E a \in Attrs : ThreadPoolSetAttr(t, a)) \/ GetAttrTest(t)
    BY <1>1, <2>1 DEF ThreadPoolSetAttr, minThreadsFrame, GetAttrTest, poolVars, workerVars
  <2>2. CASE \E p \in AddPriorities : ThreadPoolAdd(t, p)
    BY <2>2, AddKeepsPlaced
  <2>3. CASE ThreadPoolAddPersistent(t)
    BY <2>3, PersistentKeepsPlaced
  <2>4. CASE \E j \in Job : ThreadPoolRemove(t, retId[j])
    BY <2>4, RemoveKeepsPlaced
  <2>5. CASE ShutdownBegin(t)
    BY <2>5, ShutdownKeepsPlaced
  <2> QED BY <1>2, <2>1, <2>2, <2>3, <2>4, <2>5 DEF Invoke
<1>3. ASSUME NEW t \in Thread, CallStep(t)
      PROVE  PlacedOnce'
  <2>1. CASE ThreadPoolInit(t) \/ MinThreadsContinue(t)
    BY <1>1, <2>1 DEF ThreadPoolInit, MinThreadsContinue, minThreadsFrame
  <2>2. CASE StartStillPending(t) \/ GetAttrCopy(t) \/ ShutdownContinue(t) \/ AddContinue(t)
    BY <1>1, <2>2 DEF StartStillPending, GetAttrCopy, ShutdownContinue, AddContinue,
                      poolVars, workerVars
  <2>3. CASE PersistentPickup(t)
    BY <1>1, <2>3 DEF PersistentPickup, persistentFrame
  <2>4. CASE PersistentContinue(t)
    BY <2>4, PersistentKeepsPlaced
  <2>5. CASE ShutdownBegin(t)
    BY <2>5, ShutdownKeepsPlaced
  <2> QED BY <1>3, <2>1, <2>2, <2>3, <2>4, <2>5 DEF CallStep
<1>4. ASSUME NEW w \in Worker, WorkerNext(w)
      PROVE  PlacedOnce'
  <2>1. CASE WorkerStep(w)
    BY <2>1, LoopKeepsPlaced
  <2>2. CASE WorkerStart(w) \/ JobReturns(w) \/ WaitTimesOut(w)
    BY <1>1, <2>2 DEF WorkerStart, JobReturns, WaitTimesOut, poolVars
  <2> QED BY <1>4, <2>1, <2>2 DEF WorkerNext
<1>5. CASE (\E t \in Thread : SpuriousWake(t)) \/ Tick \/ UNCHANGED vars
  BY <1>1, <1>5 DEF SpuriousWake, Tick, vars, poolVars, workerVars
<1> QED BY <1>2, <1>3, <1>4, <1>5 DEF Next

\* The pool stays consistent, for any number of workers, clients and jobs: a job of
\* the queues, the persistent slot and the workers has one place; there are never
\* more threads, running and starting, than the attributes of ThreadPoolInit allow;
\* and ThreadPoolShutdown destroys the mutex only after the last user.  The last two
\* need the hypotheses on ThreadPoolSetAttr.
THEOREM PoolStaysConsistent ==
  ASSUME AttrsWithinCap, SoleSetter
  PROVE  Spec => []PoolConsistent
<1> DEFINE J == PlacedOnce /\ CallsOrdered /\ InitFirst /\ CapKept /\ QuietWhenDestroyed
<1>1. Init => J
  BY InitOrder DEF Init, QuietWhenDestroyed
<1>2. IInv /\ IInv' /\ J /\ [Next]_vars => J'
  <2> SUFFICES ASSUME IInv, IInv', J, [Next]_vars PROVE J'
    OBVIOUS
  <2>1. PlacedOnce'
    BY PlacedStep
  <2>2. ASSUME NEW t \in Thread, NEW o, NEW S, CallEffect(t, o, S), PhaseMoves(t, o),
               o = "init" => call[t].op = "init", attr' \in {attr} \cup Attrs
        PROVE  J'
    <3>1. CallsOrdered' /\ InitFirst' /\ CapKept'
      BY <2>2, EffectKeepsOrder, EffectKeepsInitFirst, EffectKeepsCap
    <3>2. QuietWhenDestroyed'
      BY <2>2 DEF CallEffect, PhaseMoves, QuietWhenDestroyed
    <3> QED BY <2>1, <3>1, <3>2
  <2>3. ASSUME NEW t \in Thread, ShutdownBegin(t) \/ ShutdownContinue(t)
        PROVE  J'
    <3>1. ShutdownMoves(t)
      BY <2>3, ShutdownEffect DEF CallsOrdered
    <3> QED BY <2>1, <3>1, ShutdownKeepsOrder, ShutdownKeepsCounts
  <2>4. ASSUME NEW w \in Worker, WorkerStart(w) \/ WorkerStep(w)
        PROVE  J'
    BY <2>1, <2>4, WorkersKeepOrder, StartKeepsCounts, LoopKeepsCounts
  <2>5. ASSUME UNCHANGED <<totalThreads, pendingWorkerThreadStart, attr, call, shutdown, phase>>,
               \A w \in Worker : /\ wpc[w] = "none" => wpc'[w] = "none"
                                 /\ call[w] # NoCall /\ wpc[w] = "running" => wpc'[w] = "running"
        PROVE  J'
    BY <2>1, <2>5, QuietKeepsOrder, SameKeepsCounts
  <2> HIDE DEF J
  <2>6. Kind
    BY EveryStep
  <2> QED BY <2>2, <2>3, <2>4, <2>5, <2>6 DEF Kind
<1>3. J => PoolConsistent
  BY DEF PoolConsistent, CapKept
<1> HIDE DEF J
<1> QED BY <1>1, <1>2, <1>3, PoolInvariant, PTL DEF Spec

\* "ThreadPool will always maintain at least this many threads": whatever the faults
\* and the calls, and however many ThreadPoolSetAttr calls overlap, there are
\* minThreads threads whenever the pool is up and no such call is in progress, as
\* long as no attributes ask for more threads than they allow.
THEOREM MinThreadsStay ==
  ASSUME MinBelowMax
  PROVE  Spec => []MinThreadsKept
<1> DEFINE J == InitFirst /\ MinKept
<1>1. Init => J
  BY InitOrder
<1>2. IInv /\ IInv' /\ J /\ [Next]_vars => J'
  <2> SUFFICES ASSUME IInv, IInv', J, [Next]_vars PROVE J'
    OBVIOUS
  <2>1. ASSUME NEW t \in Thread, NEW o, NEW S, CallEffect(t, o, S), PhaseMoves(t, o),
               o = "init" => call[t].op = "init",
               \/ UNCHANGED attr /\ (Setter(t) /\ Accurate(t) => LoopOK(t))
               \/ attr' \in Attrs /\ LoopOK(t)
        PROVE  J'
    BY <2>1, EffectKeepsInitFirst, EffectKeepsMin
  <2>2. ASSUME NEW t \in Thread, ShutdownBegin(t) \/ ShutdownContinue(t)
        PROVE  J'
    BY <2>2, DrainKeepsMin
  <2>3. ASSUME NEW w \in Worker, WorkerStart(w) \/ WorkerStep(w)
        PROVE  J'
    BY <2>3, WorkersKeepOrder, StartKeepsCounts, LoopKeepsCounts
  <2>4. ASSUME UNCHANGED <<totalThreads, pendingWorkerThreadStart, attr, call, shutdown, phase>>,
               \A w \in Worker : /\ wpc[w] = "none" => wpc'[w] = "none"
                                 /\ call[w] # NoCall /\ wpc[w] = "running" => wpc'[w] = "running"
        PROVE  J'
    BY <2>4, QuietKeepsOrder, SameKeepsCounts
  <2> HIDE DEF J
  <2>5. Kind
    BY EveryStep
  <2> QED BY <2>1, <2>2, <2>3, <2>4, <2>5 DEF Kind
<1>3. J => MinThreadsKept
  BY DEF InitFirst, MinKept, MinThreadsKept, Setter
<1> HIDE DEF J
<1> QED BY <1>1, <1>2, <1>3, PoolInvariant, PTL DEF Spec

-----------------------------------------------------------------------------
(***************************************************************************)
(* No wakeup of the pool's workers is ever lost, for any number of         *)
(* workers, clients and jobs.  NoLostWakeup is inductive relative to the   *)
(* invariant of ThreadPoolProofs: every step that adds a job or takes away *)
(* an awake worker or a call about to signal makes up for it.              *)
(***************************************************************************)

Waiting == {w \in Worker : wpc[w] = "waiting"}

\* The quantities of NoLostWakeup are natural numbers.
SizesOK ==
  /\ IsFiniteSet(Awake) /\ Cardinality(Awake) \in Nat
  /\ IsFiniteSet(Adding) /\ Cardinality(Adding) \in Nat
  /\ QueuedJobs(jobQ) \in Nat /\ Starved \in Nat

LEMMA Sizes == IInv => SizesOK
<1> SUFFICES ASSUME IInv PROVE SizesOK
  OBVIOUS
<1>1. Awake \in SUBSET Worker /\ Adding \in SUBSET Thread
  BY DEF Awake, Adding
<1>2. IsFiniteSet(Worker) /\ IsFiniteSet(Thread)
  BY PoolConstants, FS_Union DEF Thread
<1>3. IsFiniteSet(Awake) /\ IsFiniteSet(Adding)
  BY <1>1, <1>2, FS_Subset
<1>4. Cardinality(Awake) \in Nat /\ Cardinality(Adding) \in Nat
  BY <1>3, FS_CardinalityType
<1>5. QueuedJobs(jobQ) \in Nat
  <2> DEFINE h == Len(jobQ["high"])
             m == Len(jobQ["med"])
             l == Len(jobQ["low"])
  <2>1. h \in Nat /\ m \in Nat /\ l \in Nat
    BY QueueElements DEF IInv, TypeOK, Priority
  <2>2. QueuedJobs(jobQ) = h + m + l
    BY DEF QueuedJobs
  <2> HIDE DEF h, m, l
  <2> QED BY <2>1, <2>2
<1> QED BY <1>3, <1>4, <1>5 DEF Starved, SizesOK

LEMMA SizesNext == IInv' => SizesOK'
BY Sizes, PTL

\* The balance NoLostWakeup asks for.
Balance == Starved <= Cardinality(Awake) + Cardinality(Adding)

LEMMA BalanceSuffices ==
  /\ NoLostWakeup <=> (shutdown = 0 /\ Waiting # {} => Balance)
  /\ NoLostWakeup' <=> (shutdown' = 0 /\ Waiting' # {} => Balance')
BY DEF NoLostWakeup, Balance, Waiting

\* A step that puts no worker to sleep, takes no awake worker and no pending signal
\* away, and adds no job.
LEMMA NothingTaken ==
  ASSUME IInv, IInv', NoLostWakeup, shutdown' = 0 => shutdown = 0,
         Waiting' \subseteq Waiting, Awake \subseteq Awake', Adding \subseteq Adding',
         Starved' <= Starved
  PROVE  NoLostWakeup'
<1> SUFFICES ASSUME shutdown' = 0, Waiting' # {} PROVE Balance'
  BY BalanceSuffices
<1>1. Balance
  BY BalanceSuffices
<1>2. Starved \in Nat /\ Cardinality(Awake) \in Nat /\ Cardinality(Adding) \in Nat
  BY Sizes, SizesNext DEF SizesOK
<1>3. /\ IsFiniteSet(Awake') /\ Cardinality(Awake') \in Nat
      /\ IsFiniteSet(Adding') /\ Cardinality(Adding') \in Nat /\ Starved' \in Nat
  BY Sizes, SizesNext DEF SizesOK
<1>4. Cardinality(Awake) <= Cardinality(Awake')
  BY <1>3, FS_Subset
<1>5. Cardinality(Adding) <= Cardinality(Adding')
  BY <1>3, FS_Subset
<1> QED BY <1>1, <1>2, <1>3, <1>4, <1>5 DEF Balance

\* ithread_cond_signal wakes a sleeping worker if there is one.
LEMMA SignalWakes ==
  ASSUME IInv, SignalCondition
  PROVE  \/ Waiting' = {} /\ Awake' = Awake
         \/ /\ Waiting' \subseteq Waiting
            /\ \E v : v \notin Awake /\ Awake' = Awake \cup {v}
<1>1. CASE UNCHANGED wpc /\ \A w \in Worker : wpc[w] # "waiting"
  BY <1>1 DEF Waiting, Awake
<1>2. ASSUME NEW v \in Worker, wpc[v] = "waiting", wpc' = [wpc EXCEPT ![v] = "signalled"]
      PROVE  Waiting' \subseteq Waiting /\ v \notin Awake /\ Awake' = Awake \cup {v}
  BY <1>2 DEF IInv, TypeOK, Waiting, Awake
<1> QED BY <1>1, <1>2 DEF SignalCondition

\* A step that signals and adds at most one job, or lets at most one call go.
LEMMA SignalPays ==
  ASSUME IInv, IInv', NoLostWakeup, shutdown' = 0 => shutdown = 0, SignalCondition,
         \/ Starved' <= Starved + 1 /\ Adding \subseteq Adding'
         \/ /\ Starved' <= Starved
            /\ \E t : Adding \ {t} \subseteq Adding'
  PROVE  NoLostWakeup'
<1> SUFFICES ASSUME shutdown' = 0, Waiting' # {} PROVE Balance'
  BY BalanceSuffices
<1>1. PICK v : v \notin Awake /\ Awake' = Awake \cup {v} /\ Waiting' \subseteq Waiting
  BY SignalWakes
<1>2. Balance
  BY <1>1, BalanceSuffices
<1>3. /\ IsFiniteSet(Awake) /\ Cardinality(Awake) \in Nat
      /\ IsFiniteSet(Adding) /\ Cardinality(Adding) \in Nat /\ Starved \in Nat
  BY Sizes, SizesNext DEF SizesOK
<1>4. IsFiniteSet(Adding') /\ Cardinality(Adding') \in Nat /\ Starved' \in Nat
  BY Sizes, SizesNext DEF SizesOK
<1>5. Cardinality(Awake') = Cardinality(Awake) + 1
  <2>1. Cardinality(Awake \cup {v}) = Cardinality(Awake) + 1
    BY <1>1, <1>3, FS_AddElement
  <2> QED BY <1>1, <2>1
<1>6. CASE Starved' <= Starved + 1 /\ Adding \subseteq Adding'
  <2>1. Cardinality(Adding) <= Cardinality(Adding')
    BY <1>4, <1>6, FS_Subset
  <2> QED BY <1>2, <1>3, <1>4, <1>5, <1>6, <2>1 DEF Balance
<1>7. ASSUME Starved' <= Starved, NEW t, Adding \ {t} \subseteq Adding'
      PROVE  Balance'
  <2>1. /\ IsFiniteSet(Adding \ {t})
        /\ Cardinality(Adding \ {t}) =
             IF t \in Adding THEN Cardinality(Adding) - 1 ELSE Cardinality(Adding)
    BY <1>3, FS_RemoveElement
  <2>2. Cardinality(Adding \ {t}) <= Cardinality(Adding')
    BY <1>4, <1>7, FS_Subset
  <2>3. Cardinality(Adding) - 1 <= Cardinality(Adding')
    BY <1>3, <1>4, <2>1, <2>2
  <2> QED BY <1>2, <1>3, <1>4, <1>5, <1>7, <2>3 DEF Balance
<1> QED BY <1>6, <1>7

\* A call that adds a job and blocks on its way to the signal is counted.
LEMMA CallPays ==
  ASSUME IInv, IInv', NoLostWakeup, shutdown' = 0 => shutdown = 0,
         Waiting' \subseteq Waiting, Awake \subseteq Awake',
         Starved' <= Starved + 1, NEW t, t \notin Adding, Adding' = Adding \cup {t}
  PROVE  NoLostWakeup'
<1> SUFFICES ASSUME shutdown' = 0, Waiting' # {} PROVE Balance'
  BY BalanceSuffices
<1>1. Balance
  BY BalanceSuffices
<1>2. /\ Starved \in Nat /\ Cardinality(Awake) \in Nat
      /\ IsFiniteSet(Adding) /\ Cardinality(Adding) \in Nat
  BY Sizes, SizesNext DEF SizesOK
<1>3. IsFiniteSet(Awake') /\ Cardinality(Awake') \in Nat /\ Starved' \in Nat
  BY Sizes, SizesNext DEF SizesOK
<1>4. Cardinality(Awake) <= Cardinality(Awake')
  BY <1>3, FS_Subset
<1>5. Cardinality(Adding') = Cardinality(Adding) + 1
  <2>1. Cardinality(Adding \cup {t}) = Cardinality(Adding) + 1
    BY <1>2, FS_AddElement
  <2> QED BY <2>1
<1> QED BY <1>1, <1>2, <1>3, <1>4, <1>5 DEF Balance

LEMMA CreateWakes ==
  ASSUME IInv, NEW t \in Thread, NEW c, NEW a, CreateWorker(t, c, a)
  PROVE  /\ Waiting' \subseteq Waiting /\ Awake \subseteq Awake'
         /\ \E s \in {"cwPending", "cwStarted"} : BlockSS(t, c, s)
<1>1. CASE BlockSS(t, c, "cwPending") /\ UNCHANGED wpc
  BY <1>1 DEF Waiting, Awake
<1>2. ASSUME NEW w \in FreeSlot, wpc' = [wpc EXCEPT ![w] = "starting"],
             BlockSS(t, c, "cwStarted")
      PROVE  /\ Waiting' \subseteq Waiting /\ Awake \subseteq Awake'
             /\ BlockSS(t, c, "cwStarted")
  <2>1. w \in Worker /\ wpc[w] = "none"
    BY <1>2 DEF FreeSlot
  <2> QED BY <1>2, <2>1 DEF IInv, TypeOK, Waiting, Awake
<1> QED BY <1>1, <1>2 DEF CreateWorker

\* What blocking or returning does to the set of calls about to signal.
LEMMA AddingChanges ==
  ASSUME IInv, NEW t \in Thread
  PROVE  /\ Return(t) => Adding' = Adding \ {t}
         /\ \A c \in Call, s \in CallStepName : BlockSS(t, c, s) =>
              Adding' = IF c.op = "add" /\ c.ok THEN Adding \cup {t} ELSE Adding \ {t}
<1>1. ASSUME Return(t) PROVE Adding' = Adding \ {t}
  BY <1>1 DEF Return, Adding, NoCall, IInv, CallsTyped
<1>2. ASSUME NEW c \in Call, NEW s \in CallStepName, BlockSS(t, c, s)
      PROVE  Adding' = IF c.op = "add" /\ c.ok THEN Adding \cup {t} ELSE Adding \ {t}
  <2> DEFINE d == [c EXCEPT !.step = s]
  <2>1. d.op = c.op /\ d.ok = c.ok
    BY <1>2 DEF Call
  <2>2. call' = [call EXCEPT ![t] = d]
    BY <1>2 DEF BlockSS
  <2> HIDE DEF d
  <2> QED BY <2>1, <2>2 DEF Adding, IInv, CallsTyped
<1> QED BY <1>1, <1>2

-----------------------------------------------------------------------------
(* Starved when a job is queued, placed, taken or moved *)

\* Queue p grows or shrinks by d, the others stay.
LEMMA QueueChanges ==
  ASSUME NEW q \in [Priority -> Seq(Job)], NEW r \in [Priority -> Seq(Job)],
         NEW p \in Priority, NEW d \in Int, Len(r[p]) = Len(q[p]) + d,
         \A x \in Priority \ {p} : r[x] = q[x]
  PROVE  QueuedJobs(r) = QueuedJobs(q) + d
<1> DEFINE hq == Len(q["high"])
           mq == Len(q["med"])
           lq == Len(q["low"])
           hr == Len(r["high"])
           mr == Len(r["med"])
           lr == Len(r["low"])
<1>1. hq \in Nat /\ mq \in Nat /\ lq \in Nat
  BY QueueElements DEF Priority
<1>2. QueuedJobs(r) = hr + mr + lr /\ QueuedJobs(q) = hq + mq + lq
  BY DEF QueuedJobs
<1>3. \/ hr = hq + d /\ mr = mq /\ lr = lq
      \/ hr = hq /\ mr = mq + d /\ lr = lq
      \/ hr = hq /\ mr = mq /\ lr = lq + d
  BY DEF Priority
<1> HIDE DEF hq, mq, lq, hr, mr, lr
<1> QED BY <1>1, <1>2, <1>3

-----------------------------------------------------------------------------
(* ThreadPoolAdd *)

LEMMA AddBalanced ==
  ASSUME IInv, IInv', NoLostWakeup, NEW t \in Thread, NEW p \in AddPriorities,
         ThreadPoolAdd(t, p)
  PROVE  NoLostWakeup'
<1> DEFINE j == nextJob + 1
           q(ok) == IF ok THEN [jobQ EXCEPT ![p] = Append(@, j)] ELSE jobQ
           c(ok) == [op |-> "add", step |-> "idle", job |-> j,
                     n |-> totalThreads - persistentThreads,
                     jobs |-> QueuedJobs(q(ok)), ok |-> ok]
<1>1. p \in Priority
  BY PoolConstants DEF Priority
<1>2. PICK ok \in BOOLEAN :
        /\ jobQ' = q(ok) /\ nextJob' = j
        /\ AddWorker(t, c(ok))
  BY DEF ThreadPoolAdd, CreateThreadPoolJob
<1>3. j \in Job
  BY <1>2, PoolConstants DEF IInv, TypeOK, Job
<1>4. Starved' = IF ok THEN Starved + 1 ELSE Starved
  <2>1. persistentJob' = persistentJob
    BY DEF ThreadPoolAdd
  <2>2. QueuedJobs(jobQ') = IF ok THEN QueuedJobs(jobQ) + 1 ELSE QueuedJobs(jobQ)
    <3>1. CASE ok
      <4>1. jobQ \in [Priority -> Seq(Job)] /\ jobQ' \in [Priority -> Seq(Job)]
        BY DEF IInv, TypeOK
      <4>2. jobQ'[p] = Append(jobQ[p], j) /\ \A x \in Priority \ {p} : jobQ'[x] = jobQ[x]
        BY <1>1, <1>2, <3>1, <4>1
      <4>3. Len(jobQ'[p]) = Len(jobQ[p]) + 1
        BY <1>1, <1>3, <4>1, <4>2, AppendProperties
      <4>4. QueuedJobs(jobQ') = QueuedJobs(jobQ) + 1
        <5>1. 1 \in Int
          OBVIOUS
        <5> QED BY <1>1, <4>1, <4>2, <4>3, <5>1, QueueChanges, ZenonT(60)
      <4> QED BY <3>1, <4>4
    <3>2. CASE ~ok
      BY <1>2, <3>2
    <3> QED BY <3>1, <3>2
  <2>3. QueuedJobs(jobQ) \in Nat
    BY Sizes DEF SizesOK
  <2> QED BY <2>1, <2>2, <2>3 DEF Starved
<1>5. /\ Starved \in Nat /\ shutdown' = shutdown /\ t \notin Adding
  <2>1. call[t] = NoCall
    BY DEF ThreadPoolAdd, CanCall
  <2> QED BY <2>1, Sizes DEF ThreadPoolAdd, Adding, NoCall, SizesOK
<1>6. c(ok) \in Call /\ c(ok).op = "add" /\ c(ok).ok = ok
  <2>1. QueuedJobs(jobQ') \in Nat
    BY SizesNext DEF SizesOK
  <2> QED BY <1>2, <1>3, <2>1, RegularThreads DEF Call, Op, CallStepName
<1> HIDE DEF c, q
<1>7. CASE AddReturn(t, c(ok))
  <2>1. Adding' = Adding
    BY <1>5, <1>7, AddingChanges DEF AddReturn
  <2>2. CASE ok
    BY <1>4, <1>5, <1>6, <1>7, <2>1, <2>2, SignalPays DEF AddReturn
  <2>3. CASE ~ok
    <3>1. UNCHANGED wpc
      BY <1>6, <1>7, <2>3 DEF AddReturn
    <3>2. Waiting' = Waiting /\ Awake' = Awake
      BY <3>1 DEF Waiting, Awake
    <3> QED BY <1>4, <1>5, <2>1, <2>3, <3>2, NothingTaken
  <2> QED BY <2>2, <2>3
<1>8. CASE CreateWorker(t, c(ok), attr)
  <2>1. Waiting' \subseteq Waiting /\ Awake \subseteq Awake'
        /\ \E s \in {"cwPending", "cwStarted"} : BlockSS(t, c(ok), s)
    BY <1>8, CreateWakes
  <2>2. Adding' = IF ok THEN Adding \cup {t} ELSE Adding
    BY <1>5, <1>6, <2>1, AddingChanges DEF CallStepName
  <2>3. CASE ok
    BY <1>4, <1>5, <2>1, <2>2, <2>3, CallPays
  <2>4. CASE ~ok
    BY <1>4, <1>5, <2>1, <2>2, <2>4, NothingTaken
  <2> QED BY <2>3, <2>4
<1> QED BY <1>2, <1>7, <1>8 DEF AddWorker, AddCreate

LEMMA AddContinueBalanced ==
  ASSUME IInv, IInv', NoLostWakeup, NEW t \in Thread, AddContinue(t)
  PROVE  NoLostWakeup'
<1>1. Starved' = Starved /\ shutdown' = shutdown /\ Starved \in Nat
  BY Sizes DEF AddContinue, Starved, SizesOK
<1>2. call[t] \in Call /\ call[t].op = "add" /\ (call[t].ok <=> t \in Adding)
  BY DEF AddContinue, Adding, IInv, CallsTyped
<1>3. PICK c \in Call : /\ c.op = "add" /\ c.ok = call[t].ok
                        /\ AddReturn(t, c) \/ CreateWorker(t, c, attr)
  <2>1. /\ CountThread(call[t]) \in Call /\ CountThread(call[t]).op = "add"
        /\ CountThread(call[t]).ok = call[t].ok
    BY <1>2 DEF CountThread, Call
  <2> QED BY <1>2, <2>1 DEF AddContinue, AddCreate, AddWorker
<1>4. CASE AddReturn(t, c)
  <2>1. Adding' = Adding \ {t}
    BY <1>4, AddingChanges DEF AddReturn
  <2>2. CASE c.ok
    BY <1>1, <1>4, <2>1, <2>2, SignalPays DEF AddReturn
  <2>3. CASE ~c.ok
    <3>1. UNCHANGED wpc /\ Adding' = Adding
      BY <1>2, <1>3, <1>4, <2>1, <2>3 DEF AddReturn
    <3>2. Waiting' = Waiting /\ Awake' = Awake
      BY <3>1 DEF Waiting, Awake
    <3> QED BY <1>1, <3>1, <3>2, NothingTaken
  <2> QED BY <2>2, <2>3
<1>5. CASE CreateWorker(t, c, attr)
  <2>1. Waiting' \subseteq Waiting /\ Awake \subseteq Awake'
        /\ \E s \in {"cwPending", "cwStarted"} : BlockSS(t, c, s)
    BY <1>5, CreateWakes
  <2>2. Adding' = IF c.ok THEN Adding \cup {t} ELSE Adding \ {t}
    BY <1>3, <2>1, AddingChanges DEF CallStepName
  <2>3. Adding' = Adding
    BY <1>2, <1>3, <2>2
  <2> QED BY <1>1, <2>1, <2>3, NothingTaken
<1> QED BY <1>3, <1>4, <1>5

-----------------------------------------------------------------------------
(* ThreadPoolAddPersistent *)

LEMMA PlaceBalanced ==
  ASSUME IInv, IInv', NoLostWakeup, NEW t \in Thread, PlacePersistent(t), t \notin Adding,
         UNCHANGED <<jobQ, shutdown>>
  PROVE  NoLostWakeup'
<1>1. QueuedJobs(jobQ) \in Nat /\ Starved \in Nat
  BY Sizes DEF SizesOK
<1>2. ASSUME persistentJob' = nextJob + 1, SignalCondition,
             BlockSS(t, [NoCall EXCEPT !.op = "addPersistent", !.job = nextJob + 1],
                     "pickup")
      PROVE  NoLostWakeup'
  <2>1. Starved' <= Starved + 1
    BY <1>1 DEF Starved
  <2>2. Adding \subseteq Adding'
    BY <1>2 DEF BlockSS, Adding, IInv, CallsTyped
  <2> QED BY <1>2, <2>1, <2>2, SignalPays
<1>3. CASE Return(t) /\ UNCHANGED <<persistentJob, wpc>>
  <2>1. Adding' = Adding
    BY <1>3, AddingChanges
  <2>2. Waiting' = Waiting /\ Awake' = Awake
    BY <1>3 DEF Waiting, Awake
  <2>3. Starved' <= Starved
    BY <1>1, <1>3 DEF Starved
  <2> QED BY <2>1, <2>2, <2>3, NothingTaken
<1> QED BY <1>2, <1>3 DEF PlacePersistent

LEMMA PersistentBalanced ==
  ASSUME IInv, IInv', NoLostWakeup, NEW t \in Thread,
         ThreadPoolAddPersistent(t) \/ PersistentContinue(t)
  PROVE  NoLostWakeup'
<1> DEFINE c == [NoCall EXCEPT !.op = "addPersistent"]
<1>1. t \notin Adding /\ UNCHANGED <<jobQ, shutdown>>
  BY DEF ThreadPoolAddPersistent, PersistentContinue, CanCall, NoCall, Adding, persistentFrame
<1>2. c \in Call /\ c.op # "add"
  BY DEF NoCall, Call, Op, CallStepName
<1>3. PlacePersistent(t) \/ (CreateWorker(t, c, attr) /\ UNCHANGED persistentJob)
  BY DEF ThreadPoolAddPersistent, PersistentContinue, PersistentCreate
<1>4. CASE CreateWorker(t, c, attr) /\ UNCHANGED persistentJob
  <2> HIDE DEF c
  <2>1. Waiting' \subseteq Waiting /\ Awake \subseteq Awake'
        /\ \E s \in {"cwPending", "cwStarted"} : BlockSS(t, c, s)
    BY <1>4, CreateWakes
  <2>2. Adding' = Adding
    BY <1>1, <1>2, <2>1, AddingChanges DEF CallStepName
  <2>3. Starved' <= Starved
    BY <1>1, <1>4, Sizes DEF Starved, SizesOK
  <2> QED BY <1>1, <2>1, <2>2, <2>3, NothingTaken
<1> QED BY <1>1, <1>3, <1>4, PlaceBalanced

-----------------------------------------------------------------------------
(* The other calls *)

LEMMA MinThreadsBalanced ==
  ASSUME IInv, IInv', NoLostWakeup, NEW t \in Thread,
         \/ ThreadPoolInit(t)
         \/ \E a \in Attrs : ThreadPoolSetAttr(t, a)
         \/ MinThreadsContinue(t)
  PROVE  NoLostWakeup'
<1>1. t \notin Adding /\ UNCHANGED <<jobQ, persistentJob, shutdown>>
  BY DEF ThreadPoolInit, ThreadPoolSetAttr, MinThreadsContinue, Resumed, CanCall,
         NoCall, Adding, minThreadsFrame, IInv, CallsTyped
<1>2. Starved' <= Starved /\ Starved' <= Starved + 1
  BY <1>1, Sizes DEF Starved, SizesOK
<1>3. ASSUME NEW c \in Call, c.op # "add", NEW done \in BOOLEAN, LoopEnd(t, c, done)
      PROVE  NoLostWakeup'
  <2>1. Adding \subseteq Adding'
    BY <1>1, <1>3 DEF LoopEnd, Return, Adding, IInv, CallsTyped
  <2>2. CASE SignalCondition
    BY <1>1, <1>2, <2>1, <2>2, SignalPays
  <2>3. CASE UNCHANGED wpc
    <3>1. Waiting' = Waiting /\ Awake' = Awake
      BY <2>3 DEF Waiting, Awake
    <3> QED BY <1>1, <1>2, <2>1, <3>1, NothingTaken
  <2> QED BY <1>3, <2>2, <2>3 DEF LoopEnd
<1>4. ASSUME NEW c \in Call, c.op # "add", NEW a, CreateWorker(t, c, a)
      PROVE  NoLostWakeup'
  <2>1. Waiting' \subseteq Waiting /\ Awake \subseteq Awake'
        /\ \E s \in {"cwPending", "cwStarted"} : BlockSS(t, c, s)
    BY <1>4, CreateWakes
  <2>2. Adding' = Adding
    BY <1>1, <1>4, <2>1, AddingChanges DEF CallStepName
  <2> QED BY <1>1, <1>2, <2>1, <2>2, NothingTaken
<1>5. ASSUME NEW c \in Call, c.op # "add", NEW a,
             MinThreadsLoop(t, c, a) \/ MinThreadsCreate(t, c, a)
      PROVE  NoLostWakeup'
  BY <1>3, <1>4, <1>5 DEF MinThreadsLoop, MinThreadsCreate
<1>6. call[t] \in Call /\ (call[t].step = "start" => call[t].op # "add")
  BY DEF IInv, CallsTyped
<1>7. CASE ThreadPoolInit(t)
  BY <1>5, <1>6, <1>7 DEF ThreadPoolInit, Resumed
<1>8. ASSUME NEW a \in Attrs, ThreadPoolSetAttr(t, a)
      PROVE  NoLostWakeup'
  <2> DEFINE c == [NoCall EXCEPT !.op = "setAttr", !.n = totalThreads]
  <2>1. c \in Call /\ c.op # "add" /\ MinThreadsLoop(t, c, a)
    BY <1>8 DEF ThreadPoolSetAttr, NoCall, Call, Op, CallStepName, IInv, TypeOK
  <2> HIDE DEF c
  <2> QED BY <1>5, <2>1
<1>9. CASE MinThreadsContinue(t)
  <2> DEFINE c == [call[t] EXCEPT !.n = @ + 1]
  <2>1. call[t].op # "add"
    BY <1>9 DEF MinThreadsContinue
  <2>2. c \in Call /\ c.op # "add"
    BY <1>6, <2>1 DEF Call
  <2>3. MinThreadsCreate(t, call[t], attr) \/ MinThreadsLoop(t, c, attr)
    BY <1>9 DEF MinThreadsContinue
  <2> HIDE DEF c
  <2> QED BY <1>5, <1>6, <2>1, <2>2, <2>3
<1> QED BY <1>7, <1>8, <1>9

LEMMA OtherCallBalanced ==
  ASSUME IInv, IInv', NoLostWakeup, NEW t \in Thread,
         \/ StartStillPending(t) \/ ShutdownContinue(t)
         \/ GetAttrTest(t) \/ GetAttrCopy(t) \/ PersistentPickup(t)
         \/ \E id : ThreadPoolRemove(t, id)
         \/ ShutdownBegin(t)
  PROVE  NoLostWakeup'
<1>1. CASE ShutdownBegin(t)
  BY <1>1, BalanceSuffices DEF ShutdownBegin
<1>2. CASE ~ShutdownBegin(t)
  <2>1. UNCHANGED <<wpc, shutdown>>
    BY <1>2 DEF StartStillPending, ShutdownContinue, GetAttrTest, GetAttrCopy,
       PersistentPickup, persistentFrame, ThreadPoolRemove, poolVars, workerVars
  <2>2. Waiting' = Waiting /\ Awake' = Awake
    BY <2>1 DEF Waiting, Awake
  <2>3. Starved' <= Starved
    <3>1. CASE UNCHANGED <<jobQ, persistentJob>>
      BY <3>1, Sizes DEF Starved, SizesOK
    <3>2. ASSUME NEW id, ThreadPoolRemove(t, id)
          PROVE  Starved' <= Starved
      <4>1. ASSUME NEW p \in Priority, RemoveFrom(p, id)
            PROVE  Starved' <= Starved
        <5>1. PICK i \in DOMAIN jobQ[p] : jobQ' = [jobQ EXCEPT ![p] = RemoveAt(@, i)]
          BY <4>1 DEF RemoveFrom, WithId
        <5>2. jobQ \in [Priority -> Seq(Job)] /\ jobQ' \in [Priority -> Seq(Job)]
              /\ UNCHANGED persistentJob
          BY <4>1 DEF IInv, TypeOK, RemoveFrom
        <5>3. jobQ'[p] = RemoveAt(jobQ[p], i) /\ \A x \in Priority \ {p} : jobQ'[x] = jobQ[x]
          BY <5>1, <5>2
        <5>4. Len(jobQ'[p]) = Len(jobQ[p]) + (-1)
          <6>1. jobQ[p] \in Seq(Job) /\ Len(jobQ[p]) \in Nat
            BY <5>2, QueueElements
          <6> QED BY <5>1, <5>3, <6>1, RemoveAtType
        <5>5. QueuedJobs(jobQ') = QueuedJobs(jobQ) + (-1)
          <6>1. -1 \in Int
            OBVIOUS
          <6> QED BY <5>2, <5>3, <5>4, <6>1, QueueChanges, ZenonT(60)
        <5> QED BY <5>2, <5>5, Sizes DEF Starved, SizesOK
      <4>2. CASE UNCHANGED jobQ /\ persistentJob' = NoJob
        BY <4>2, Sizes DEF Starved, SizesOK
      <4> QED BY <3>2, <4>1, <4>2 DEF ThreadPoolRemove, Priority
    <3>3. (\E id : ThreadPoolRemove(t, id)) \/ UNCHANGED <<jobQ, persistentJob>>
      BY <1>2 DEF StartStillPending, ShutdownContinue, GetAttrTest, GetAttrCopy,
         PersistentPickup, persistentFrame, poolVars
    <3> QED BY <3>1, <3>2, <3>3
  <2>4. Adding' = Adding
    <3>1. CASE StartStillPending(t)
      <4>1. BlockSS(t, call[t], "cwStarted") /\ call[t] \in Call
        BY <3>1 DEF StartStillPending, IInv, CallsTyped
      <4>2. Adding' = IF call[t].op = "add" /\ call[t].ok THEN Adding \cup {t} ELSE Adding \ {t}
        BY <4>1, AddingChanges DEF CallStepName
      <4> QED BY <4>2 DEF Adding
    <3>2. CASE ShutdownContinue(t) \/ GetAttrCopy(t) \/ PersistentPickup(t)
      <4>1. t \notin Adding
        BY <3>2 DEF ShutdownContinue, GetAttrCopy, PersistentPickup, Resumed, Adding,
                    IInv, CallsTyped
      <4> DEFINE c == [NoCall EXCEPT !.op = "shutdown"]
      <4>2. c \in Call /\ c.op # "add" /\ call[t] \in Call /\ (call[t].step = "pickup" => call[t].op # "add")
        BY DEF NoCall, Call, Op, CallStepName, IInv, CallsTyped
      <4>3. \/ Return(t) \/ BlockSS(t, c, "drain")
            \/ BlockSS(t, call[t], "pickup") /\ call[t].step = "pickup"
        BY <3>2 DEF ShutdownContinue, DrainOrDestroy, GetAttrCopy, PersistentPickup, Resumed
      <4> HIDE DEF c
      <4> QED BY <4>1, <4>2, <4>3, AddingChanges DEF CallStepName
    <3>3. CASE GetAttrTest(t)
      BY <3>3 DEF GetAttrTest, CanCall, NoCall, Adding, IInv, CallsTyped
    <3>4. CASE \E id : ThreadPoolRemove(t, id)
      BY <3>4 DEF ThreadPoolRemove, callVars, Adding
    <3> QED BY <1>2, <3>1, <3>2, <3>3, <3>4
  <2> QED BY <2>1, <2>2, <2>3, <2>4, NothingTaken
<1> QED BY <1>1, <1>2

-----------------------------------------------------------------------------
(* The workers *)

LEMMA WorkerBalanced ==
  ASSUME IInv, IInv', NoLostWakeup, NEW w \in Worker, WorkerStep(w)
  PROVE  NoLostWakeup'
<1>1. w \in Awake /\ UNCHANGED <<shutdown, call>>
  BY DEF WorkerStep, Awake
<1>2. Adding' = Adding
  BY <1>1 DEF Adding
<1>3. jobQ \in [Priority -> Seq(Job)] /\ jobQ' \in [Priority -> Seq(Job)]
  BY DEF IInv, TypeOK
<1>4. CASE \/ Idle /\ WorkerExit(w) /\ UNCHANGED jobQ
           \/ Idle /\ WorkerWait(w)
  <2>1. Starved' = 0
    BY <1>4 DEF Idle, WorkerExit, WorkerWait, Starved
  <2>2. Balance'
    BY <2>1, SizesNext DEF Balance, SizesOK
  <2> QED BY <2>2, BalanceSuffices
<1>5. CASE shutdown = 1
  BY <1>1, <1>5, BalanceSuffices
<1>6. CASE shutdown = 0 /\ ~Idle /\ WorkerPick(w)
  <2> SUFFICES ASSUME Waiting' # {} PROVE Balance'
    BY BalanceSuffices
  <2>1. wpc' = [wpc EXCEPT ![w] = "running"]
    BY <1>6 DEF WorkerPick
  <2>2. Waiting' \subseteq Waiting /\ Awake' = Awake \ {w}
    BY <2>1 DEF Waiting, Awake, IInv, TypeOK
  <2>3. Balance
    BY <1>6, <2>2, BalanceSuffices
  <2>4. /\ IsFiniteSet(Awake) /\ Cardinality(Awake) \in Nat /\ Cardinality(Adding) \in Nat
        /\ Starved \in Nat /\ QueuedJobs(jobQ) \in Nat
    BY Sizes DEF SizesOK
  <2>5. Cardinality(Awake') = Cardinality(Awake) - 1
    <3>1. Cardinality(Awake \ {w}) = Cardinality(Awake) - 1
      BY <1>1, <2>4, FS_RemoveElement
    <3> QED BY <2>2, <3>1
  <2>6. Starved' = Starved - 1
    <3> DEFINE q == BumpPriority(jobQ)
               p == TopQueue(q)
    <3>1. q \in [Priority -> Seq(Job)] /\ QueuedJobs(q) = QueuedJobs(jobQ)
      BY <1>3, BumpPriorityType
    <3>2. CASE persistentJob # NoJob /\ persistentJob' = NoJob /\ jobQ' = q
      <4> HIDE DEF q
      <4> QED BY <2>4, <3>1, <3>2 DEF Starved
    <3>3. CASE persistentJob = NoJob /\ UNCHANGED persistentJob
               /\ jobQ' = [q EXCEPT ![p] = Tail(@)]
      <4>1. p \in Priority /\ q[p] # <<>>
        BY <1>6, <3>1, <3>3, TopQueueNonempty DEF Idle
      <4> HIDE DEF q, p
      <4>2. q[p] \in Seq(Job) /\ Len(q[p]) \in Nat
        BY <3>1, <4>1, QueueElements
      <4>3. jobQ'[p] = Tail(q[p]) /\ \A x \in Priority \ {p} : jobQ'[x] = q[x]
        BY <3>1, <3>3, <4>1
      <4>4. Len(jobQ'[p]) = Len(q[p]) + (-1)
        BY <4>1, <4>2, <4>3, HeadTailProperties
      <4>5. -1 \in Int
        OBVIOUS
      <4>6. QueuedJobs(jobQ') = QueuedJobs(q) + (-1)
        BY <1>3, <3>1, <4>1, <4>3, <4>4, <4>5, QueueChanges, ZenonT(60)
      <4> QED BY <2>4, <3>1, <3>3, <4>6 DEF Starved
    <3> QED BY <1>6, <3>2, <3>3 DEF WorkerPick
  <2> QED BY <1>2, <2>3, <2>4, <2>5, <2>6 DEF Balance
<1> QED BY <1>4, <1>5, <1>6 DEF WorkerStep

LEMMA WakeBalanced ==
  ASSUME IInv, IInv', NoLostWakeup,
         \/ \E w \in Worker : WorkerStart(w) \/ JobReturns(w) \/ WaitTimesOut(w)
         \/ \E t \in Thread : SpuriousWake(t)
         \/ Tick \/ UNCHANGED vars
  PROVE  NoLostWakeup'
<1>1. UNCHANGED <<jobQ, persistentJob, shutdown, call>>
  BY DEF WorkerStart, JobReturns, WaitTimesOut, SpuriousWake, Tick, vars, poolVars, callVars
<1>2. Starved' <= Starved /\ Adding' = Adding
  BY <1>1, Sizes DEF Starved, Adding, SizesOK
<1>3. Waiting' \subseteq Waiting /\ Awake \subseteq Awake'
  <2>1. ASSUME NEW w \in Worker, wpc[w] \in {"starting", "running", "waiting"},
               NEW s \in {"top", "timedout", "signalled"}, wpc' = [wpc EXCEPT ![w] = s]
        PROVE  Waiting' \subseteq Waiting /\ Awake \subseteq Awake'
    BY <2>1 DEF Waiting, Awake, IInv, TypeOK
  <2>2. CASE UNCHANGED wpc
    BY <2>2 DEF Waiting, Awake
  <2> QED BY <2>1, <2>2 DEF WorkerStart, JobReturns, WaitTimesOut, SpuriousWake, Tick, vars,
             workerVars
<1> QED BY <1>1, <1>2, <1>3, NothingTaken

-----------------------------------------------------------------------------
LEMMA InitBalanced == Init => NoLostWakeup
BY DEF Init, NoLostWakeup, Starved, QueuedJobs

LEMMA NextBalanced == IInv /\ IInv' /\ NoLostWakeup /\ [Next]_vars => NoLostWakeup'
<1> SUFFICES ASSUME IInv, IInv', NoLostWakeup, [Next]_vars PROVE NoLostWakeup'
  OBVIOUS
<1>1. ASSUME NEW t \in Thread, Invoke(t)
      PROVE  NoLostWakeup'
  BY <1>1, AddBalanced, PersistentBalanced, OtherCallBalanced, MinThreadsBalanced DEF Invoke
<1>2. ASSUME NEW t \in Thread, CallStep(t)
      PROVE  NoLostWakeup'
  BY <1>2, AddContinueBalanced, PersistentBalanced, MinThreadsBalanced,
     OtherCallBalanced DEF CallStep
<1>3. ASSUME NEW w \in Worker, WorkerNext(w)
      PROVE  NoLostWakeup'
  BY <1>3, WorkerBalanced, WakeBalanced DEF WorkerNext
<1>4. CASE Tick \/ UNCHANGED vars \/ \E t \in Thread : SpuriousWake(t)
  BY <1>4, WakeBalanced
<1> QED BY <1>1, <1>2, <1>3, <1>4 DEF Next

\* However the calls of ThreadPoolAdd and ThreadPoolAddPersistent interleave with the
\* workers, as long as the pool is up no worker sleeps on tp->condition while a job
\* waits that no awake worker and no pending signal will see to.
THEOREM WakeupsNotLost == Spec => []NoLostWakeup
BY InitBalanced, NextBalanced, PoolInvariant, PTL DEF Spec

-----------------------------------------------------------------------------
(* The order in which jobs leave the queues *)

\* The jobs of the queues in the order in which they would be taken now.
At(q, g) ==
  IF g <= Len(q["high"]) THEN q["high"][g]
  ELSE IF g <= Len(q["high"]) + Len(q["med"]) THEN q["med"][g - Len(q["high"])]
  ELSE q["low"][g - (Len(q["high"]) + Len(q["med"]))]

\* How many jobs are taken before those of queue p.
Before(q, p) == IF p = "high" THEN 0
                ELSE IF p = "med" THEN Len(q["high"]) ELSE Len(q["high"]) + Len(q["med"])

\* Of two jobs of one priority (pr) the older one is taken first.
InTurn(q, pr) ==
  \A g, h \in 1 .. QueuedJobs(q) :
    g < h /\ pr[At(q, g)] = pr[At(q, h)] => At(q, g) < At(q, h)

\* A job is in the queue of its priority or in a higher one.
Raised(q, pr) ==
  \A g \in 1 .. QueuedJobs(q) : /\ g > Before(q, "med") => pr[At(q, g)] # "high"
                                /\ g > Before(q, "low") => pr[At(q, g)] # "med"

\* What the workers run (f) is older than what waits.
Younger(q, f, pr) ==
  \A w \in Worker : \A g \in 1 .. QueuedJobs(q) :
    f[w] # NoJob /\ pr[f[w]] = pr[At(q, g)] => f[w] < At(q, g)

Fair(q, f, pr) == InTurn(q, pr) /\ Raised(q, pr) /\ Younger(q, f, pr)

LEMMA QueueSizes ==
  ASSUME NEW q \in [Priority -> Seq(Job)]
  PROVE  /\ Len(q["high"]) \in Nat /\ Len(q["med"]) \in Nat /\ Len(q["low"]) \in Nat
         /\ DOMAIN q["high"] = 1 .. Len(q["high"]) /\ DOMAIN q["med"] = 1 .. Len(q["med"])
         /\ DOMAIN q["low"] = 1 .. Len(q["low"])
         /\ QueuedJobs(q) = Len(q["high"]) + Len(q["med"]) + Len(q["low"]) /\ QueuedJobs(q) \in Nat
<1>1. /\ Len(q["high"]) \in Nat /\ Len(q["med"]) \in Nat /\ Len(q["low"]) \in Nat
      /\ DOMAIN q["high"] = 1 .. Len(q["high"]) /\ DOMAIN q["med"] = 1 .. Len(q["med"])
      /\ DOMAIN q["low"] = 1 .. Len(q["low"])
  BY QueueElements DEF Priority
<1> DEFINE a == Len(q["high"])
           b == Len(q["med"])
           c == Len(q["low"])
<1>2. QueuedJobs(q) = a + b + c
  BY DEF QueuedJobs
<1>3. QueuedJobs(q) \in Nat
  <2>1. a \in Nat /\ b \in Nat /\ c \in Nat
    BY <1>1
  <2> HIDE DEF a, b, c
  <2> QED BY <1>2, <2>1
<1> QED BY <1>1, <1>2, <1>3

LEMMA BeforeSizes ==
  ASSUME NEW q \in [Priority -> Seq(Job)]
  PROVE  /\ Before(q, "med") \in Nat /\ Before(q, "low") \in Nat /\ QueuedJobs(q) \in Nat
         /\ Before(q, "med") <= Before(q, "low") /\ Before(q, "low") <= QueuedJobs(q)
         /\ Len(q["high"]) = Before(q, "med")
         /\ Len(q["med"]) = Before(q, "low") - Before(q, "med")
         /\ Len(q["low"]) = QueuedJobs(q) - Before(q, "low")
<1>1. PICK a \in Nat, b \in Nat, c \in Nat :
        /\ a = Len(q["high"]) /\ b = Len(q["med"]) /\ c = Len(q["low"]) /\ QueuedJobs(q) = a + b + c
  BY QueueSizes
<1>2. Before(q, "med") = a /\ Before(q, "low") = a + b
  BY <1>1 DEF Before
<1>3. a + b \in Nat /\ a + b + c \in Nat /\ a <= a + b /\ a + b <= a + b + c /\ b = (a + b) - a /\ c = (a + b + c) - (a + b)
  OBVIOUS
<1> QED BY <1>1, <1>2, <1>3

\* Each job of a queue has its turn, after those before it in the queue.
LEMMA AtTurn ==
  ASSUME NEW q \in [Priority -> Seq(Job)], NEW p \in Priority, NEW i \in DOMAIN q[p]
  PROVE  Before(q, p) + i \in 1 .. QueuedJobs(q) /\ At(q, Before(q, p) + i) = q[p][i] /\ i \in Nat
<1> DEFINE a == Len(q["high"])
           b == Len(q["med"])
           c == Len(q["low"])
<1>1. /\ a \in Nat /\ b \in Nat /\ c \in Nat /\ QueuedJobs(q) = a + b + c
      /\ DOMAIN q["high"] = 1 .. a /\ DOMAIN q["med"] = 1 .. b /\ DOMAIN q["low"] = 1 .. c
  BY QueueSizes
<1>2. /\ Before(q, "high") = 0 /\ Before(q, "med") = a /\ Before(q, "low") = a + b
  BY DEF Before
<1>3. PICK g : g = Before(q, p) + i
  OBVIOUS
<1>4. CASE p = "high"
  <2> HIDE DEF a, b, c
  <2>1. i \in 1 .. a /\ g = i /\ g \in 1 .. QueuedJobs(q) /\ g <= a
    BY <1>1, <1>2, <1>3, <1>4
  <2>2. At(q, g) = q["high"][g]
    BY <2>1 DEF At, a
  <2> QED BY <1>3, <1>4, <2>1, <2>2
<1>5. CASE p = "med"
  <2> HIDE DEF a, b, c
  <2>1. i \in 1 .. b /\ g = a + i /\ g \in 1 .. QueuedJobs(q) /\ ~(g <= a) /\ g <= a + b /\ g - a = i
    BY <1>1, <1>2, <1>3, <1>5
  <2>2. At(q, g) = q["med"][g - a]
    BY <2>1 DEF At, a, b
  <2> QED BY <1>3, <1>5, <2>1, <2>2
<1>6. CASE p = "low"
  <2> HIDE DEF a, b, c
  <2>1. /\ i \in 1 .. c /\ g = a + b + i /\ g \in 1 .. QueuedJobs(q) /\ ~(g <= a) /\ ~(g <= a + b)
        /\ g - (a + b) = i
    BY <1>1, <1>2, <1>3, <1>6
  <2>2. At(q, g) = q["low"][g - (a + b)]
    BY <2>1 DEF At, a, b
  <2> QED BY <1>3, <1>6, <2>1, <2>2
<1> QED BY <1>4, <1>5, <1>6 DEF Priority

\* Whoever has a turn is in a queue.
LEMMA AtQueue ==
  ASSUME NEW q \in [Priority -> Seq(Job)], NEW g \in 1 .. QueuedJobs(q)
  PROVE  /\ At(q, g) \in Job
         /\ \E p \in Priority : \E i \in DOMAIN q[p] : g = Before(q, p) + i /\ At(q, g) = q[p][i]
<1> DEFINE a == Len(q["high"])
           b == Len(q["med"])
           c == Len(q["low"])
<1>1. /\ a \in Nat /\ b \in Nat /\ c \in Nat /\ QueuedJobs(q) = a + b + c
      /\ DOMAIN q["high"] = 1 .. a /\ DOMAIN q["med"] = 1 .. b /\ DOMAIN q["low"] = 1 .. c
  BY QueueSizes
<1>2. /\ Before(q, "high") = 0 /\ Before(q, "med") = a /\ Before(q, "low") = a + b
  BY DEF Before
<1>a. \A p \in Priority : \A i \in DOMAIN q[p] : q[p][i] \in Job
  BY QueueElements
<1> HIDE DEF a, b, c
<1>3. CASE g <= a
  <2>1. g \in DOMAIN q["high"] /\ g = Before(q, "high") + g
    BY <1>1, <1>2, <1>3
  <2>2. At(q, g) = q["high"][g]
    BY <1>3 DEF At, a
  <2> QED BY <1>a, <2>1, <2>2 DEF Priority
<1>4. CASE ~(g <= a) /\ g <= a + b
  <2>1. g - a \in DOMAIN q["med"] /\ g = Before(q, "med") + (g - a)
    BY <1>1, <1>2, <1>4
  <2>2. At(q, g) = q["med"][g - a]
    BY <1>4 DEF At, a, b
  <2> QED BY <1>a, <2>1, <2>2 DEF Priority
<1>5. CASE ~(g <= a) /\ ~(g <= a + b)
  <2>1. g - (a + b) \in DOMAIN q["low"] /\ g = Before(q, "low") + (g - (a + b))
    BY <1>1, <1>2, <1>5
  <2>2. At(q, g) = q["low"][g - (a + b)]
    BY <1>5 DEF At, a, b
  <2> QED BY <1>a, <2>1, <2>2 DEF Priority
<1> QED BY <1>3, <1>4, <1>5

\* The property of the queues, from the invariant.
LEMMA FairIsFifo ==
  ASSUME IInv, Fair(jobQ, wjob, prio)
  PROVE  FifoPerPriority
<1>0. jobQ \in [Priority -> Seq(Job)]
  BY DEF IInv, TypeOK
<1> SUFFICES ASSUME NEW p1 \in Priority, NEW i \in DOMAIN jobQ[p1]
             PROVE  /\ \A w \in Worker :
                         wjob[w] # NoJob /\ prio[wjob[w]] = prio[jobQ[p1][i]] => wjob[w] < jobQ[p1][i]
                    /\ \A p2 \in Priority : \A k \in DOMAIN jobQ[p2] :
                         /\ prio[jobQ[p1][i]] = prio[jobQ[p2][k]]
                         /\ jobQ[p1][i] < jobQ[p2][k]
                         => Level[p1] > Level[p2] \/ (p1 = p2 /\ i < k)
  BY DEF FifoPerPriority
<1> DEFINE g == Before(jobQ, p1) + i
<1>1. g \in 1 .. QueuedJobs(jobQ) /\ At(jobQ, g) = jobQ[p1][i] /\ i \in Nat
  BY <1>0, AtTurn
<1>2. \A w \in Worker :
        wjob[w] # NoJob /\ prio[wjob[w]] = prio[jobQ[p1][i]] => wjob[w] < jobQ[p1][i]
  BY <1>1 DEF Fair, Younger
<1>3. ASSUME NEW p2 \in Priority, NEW k \in DOMAIN jobQ[p2], prio[jobQ[p1][i]] = prio[jobQ[p2][k]],
             jobQ[p1][i] < jobQ[p2][k], ~(Level[p1] > Level[p2] \/ (p1 = p2 /\ i < k))
      PROVE  FALSE
  <2> DEFINE h == Before(jobQ, p2) + k
  <2>1. h \in 1 .. QueuedJobs(jobQ) /\ At(jobQ, h) = jobQ[p2][k] /\ k \in Nat
    BY <1>0, AtTurn
  <2>2. h < g \/ (p1 = p2 /\ i = k)
    <3> DEFINE a == Len(jobQ["high"])
               b == Len(jobQ["med"])
    <3>1. /\ a \in Nat /\ b \in Nat /\ DOMAIN jobQ["high"] = 1 .. a /\ DOMAIN jobQ["med"] = 1 .. b
          /\ DOMAIN jobQ["low"] = 1 .. Len(jobQ["low"]) /\ Len(jobQ["low"]) \in Nat
      BY <1>0, QueueSizes
    <3>2. /\ Before(jobQ, p1) = IF p1 = "high" THEN 0 ELSE IF p1 = "med" THEN a ELSE a + b
          /\ Before(jobQ, p2) = IF p2 = "high" THEN 0 ELSE IF p2 = "med" THEN a ELSE a + b
      BY DEF Before
    <3>3. i \in Nat \ {0} /\ k \in Nat \ {0} /\ (p2 = "high" => k <= a) /\ (p2 = "med" => k <= b)
      BY <3>1 DEF Priority
    <3> HIDE DEF a, b
    <3>4. CASE p1 = p2
      BY <1>3, <3>1, <3>2, <3>3, <3>4
    <3>5. CASE p1 = "low" /\ p2 \in {"high", "med"}
      BY <3>1, <3>2, <3>3, <3>5
    <3>6. CASE p1 = "med" /\ p2 = "high"
      BY <3>1, <3>2, <3>3, <3>6
    <3>7. p1 = p2 \/ (p1 = "low" /\ p2 \in {"high", "med"}) \/ (p1 = "med" /\ p2 = "high")
      BY <1>3 DEF Level, Priority
    <3> QED BY <3>4, <3>5, <3>6, <3>7
  <2>3. jobQ[p1][i] \in Job /\ jobQ[p2][k] \in Job
    BY <1>0, QueueElements
  <2>4. CASE h < g
    <3>1. jobQ[p2][k] < jobQ[p1][i]
      BY <1>1, <1>3, <2>1, <2>4 DEF Fair, InTurn
    <3> QED BY <1>3, <2>3, <3>1 DEF Job
  <2>5. CASE p1 = p2 /\ i = k
    BY <1>3, <2>3, <2>5 DEF Job
  <2> QED BY <2>2, <2>4, <2>5
<1> QED BY <1>2, <1>3

\* The jobs of r are jobs of q, in the order of q (s says where), and none of them
\* is in a lower queue than before.
Follows(r, q, s) ==
  /\ s \in [1 .. QueuedJobs(r) -> 1 .. QueuedJobs(q)]
  /\ \A g \in 1 .. QueuedJobs(r) : At(r, g) = At(q, s[g])
  /\ \A g, h \in 1 .. QueuedJobs(r) : g < h => s[g] < s[h]
  /\ \A g \in 1 .. QueuedJobs(r) : \A p \in {"med", "low"} : g > Before(r, p) => s[g] > Before(q, p)

LEMMA FollowsKeepsFair ==
  ASSUME NEW q, NEW r, NEW s, NEW f, NEW pr, Follows(r, q, s), Fair(q, f, pr)
  PROVE  Fair(r, f, pr)
<1>1. InTurn(r, pr)
  BY DEF Follows, Fair, InTurn
<1>2. Raised(r, pr)
  BY DEF Follows, Fair, Raised
<1>3. Younger(r, f, pr)
  BY DEF Follows, Fair, Younger
<1> QED BY <1>1, <1>2, <1>3 DEF Fair

\* BumpPriority changes the queues, not the order in which jobs leave them.
LEMMA BumpLine ==
  ASSUME NEW q \in [Priority -> Seq(Job)]
  PROVE  /\ BumpPriority(q) \in [Priority -> Seq(Job)]
         /\ QueuedJobs(BumpPriority(q)) = QueuedJobs(q)
         /\ \A g \in 1 .. QueuedJobs(q) : At(BumpPriority(q), g) = At(q, g)
         /\ \E k \in 0 .. Len(q["low"]) : \E n \in 0 .. Len(q["med"]) + k :
              /\ AllOverdue(q, k, n)
              /\ Before(BumpPriority(q), "med") = Before(q, "med") + n
              /\ Before(BumpPriority(q), "low") = Before(q, "low") + k
<1> DEFINE r == BumpPriority(q)
           a == Len(q["high"])
           b == Len(q["med"])
           c == Len(q["low"])
<1>1. r \in [Priority -> Seq(Job)] /\ QueuedJobs(r) = QueuedJobs(q)
  BY BumpPriorityType
<1>2. PICK k \in 0 .. c : \E n \in 0 .. b + k : Bumped(q, r, k, n) /\ AllOverdue(q, k, n)
  BY BumpPriorityShape
<1>3. PICK n \in 0 .. b + k : Bumped(q, r, k, n) /\ AllOverdue(q, k, n)
  BY <1>2
<1>4. a \in Nat /\ b \in Nat /\ c \in Nat /\ QueuedJobs(q) = a + b + c
  BY QueueSizes
<1>5. /\ Len(r["high"]) = a + n /\ Len(r["med"]) = b + k - n
      /\ \A i \in 1 .. a + n : r["high"][i] = IF i <= a THEN q["high"][i] ELSE Moving(q, i - a)
      /\ \A i \in 1 .. b + k - n : r["med"][i] = Moving(q, n + i)
      /\ \A i \in 1 .. c - k : r["low"][i] = q["low"][k + i]
  BY <1>3 DEF Bumped
<1>6. k \in Nat /\ n \in Nat /\ k <= c /\ n <= b + k
  <2> HIDE DEF a, b, c
  <2> QED BY <1>4, <1>2, <1>3
<1>7. ASSUME NEW g \in 1 .. QueuedJobs(q)
      PROVE  At(r, g) = At(q, g)
  <2>a. g \in Nat /\ g >= 1 /\ g <= a + b + c
    <3> HIDE DEF a, b, c
    <3> QED BY <1>4, <1>7
  <2>1. ASSUME ~(g <= a)
        PROVE  At(q, g) = Moving(q, g - a)
    <3> HIDE DEF a, b, c
    <3>1. CASE g <= a + b
      <4>1. g - a <= b
        BY <1>4, <2>a, <3>1
      <4>2. At(q, g) = q["med"][g - a]
        BY <2>1, <3>1 DEF At, a, b
      <4> QED BY <4>1, <4>2 DEF Moving, b
    <3>2. CASE ~(g <= a + b)
      <4>1. ~(g - a <= b) /\ g - a - b = g - (a + b)
        BY <1>4, <2>a, <3>2
      <4>2. At(q, g) = q["low"][g - (a + b)]
        BY <2>1, <3>2 DEF At, a, b
      <4> QED BY <4>1, <4>2 DEF Moving, b
    <3> QED BY <3>1, <3>2
  <2> HIDE DEF a, b, c
  <2> DEFINE d == Len(r["high"])
             e == Len(r["med"])
  <2>2. d = a + n /\ e = b + k - n
    BY <1>5
  <2> HIDE DEF d, e, r
  <2>3. CASE g <= a
    <3>1. g <= d /\ g \in 1 .. a + n
      BY <1>4, <1>6, <2>a, <2>2, <2>3
    <3>2. At(r, g) = r["high"][g] /\ At(q, g) = q["high"][g]
      BY <2>3, <3>1 DEF At, d, a
    <3> QED BY <1>5, <2>3, <3>1, <3>2
  <2>4. CASE ~(g <= a) /\ g <= a + n
    <3>1. g <= d /\ g \in 1 .. a + n
      BY <1>4, <1>6, <2>a, <2>2, <2>4
    <3>2. At(r, g) = r["high"][g]
      BY <3>1 DEF At, d
    <3> QED BY <1>5, <2>1, <2>4, <3>1, <3>2
  <2>5. CASE ~(g <= a + n) /\ g <= a + b + k
    <3>1. /\ ~(g <= a) /\ ~(g <= d) /\ g <= d + e /\ g - d \in 1 .. b + k - n /\ n + (g - d) = g - a
      BY <1>4, <1>6, <2>a, <2>2, <2>5
    <3>2. At(r, g) = r["med"][g - d]
      BY <3>1 DEF At, d, e
    <3> QED BY <1>5, <2>1, <3>1, <3>2
  <2>6. CASE ~(g <= a + b + k)
    <3>1. /\ ~(g <= a) /\ ~(g <= d) /\ ~(g <= d + e) /\ g - (d + e) \in 1 .. c - k
          /\ ~(g - a <= b) /\ k + (g - (d + e)) = g - a - b
      BY <1>4, <1>6, <2>a, <2>2, <2>6
    <3>2. At(r, g) = r["low"][g - (d + e)]
      BY <3>1 DEF At, d, e
    <3>3. At(q, g) = q["low"][g - a - b]
      BY <2>1, <3>1 DEF Moving, b
    <3> QED BY <1>5, <3>1, <3>2, <3>3
  <2> QED BY <2>3, <2>4, <2>5, <2>6
<1>8. /\ Before(r, "med") = a + n /\ Before(q, "med") = a
      /\ Before(r, "low") = a + n + (b + k - n) /\ Before(q, "low") = a + b
  BY <1>5 DEF Before
<1>9. Before(r, "low") = Before(q, "low") + k
  <2> HIDE DEF a, b, c
  <2>1. a + n + (b + k - n) = a + b + k
    BY <1>4, <1>6
  <2> QED BY <1>8, <2>1
<1> HIDE DEF r
<1>10. /\ AllOverdue(q, k, n) /\ Before(r, "med") = Before(q, "med") + n
       /\ Before(r, "low") = Before(q, "low") + k
  BY <1>3, <1>8, <1>9
<1> QED BY <1>1, <1>2, <1>3, <1>7, <1>10 DEF r

LEMMA BumpKeepsTurns ==
  ASSUME NEW q \in [Priority -> Seq(Job)]
  PROVE  \E s : Follows(BumpPriority(q), q, s)
<1>1. PICK r : r = BumpPriority(q)
  OBVIOUS
<1>2. /\ QueuedJobs(r) = QueuedJobs(q)
      /\ \A g \in 1 .. QueuedJobs(q) : At(r, g) = At(q, g)
  BY <1>1, BumpLine
<1>3. PICK k \in 0 .. Len(q["low"]), n \in Nat :
        Before(r, "med") = Before(q, "med") + n /\ Before(r, "low") = Before(q, "low") + k
  <2>1. PICK k \in 0 .. Len(q["low"]) : \E n \in 0 .. Len(q["med"]) + k :
          Before(r, "med") = Before(q, "med") + n /\ Before(r, "low") = Before(q, "low") + k
    BY <1>1, BumpLine
  <2> QED BY <2>1
<1>4. Before(q, "med") \in Nat /\ Before(q, "low") \in Nat /\ QueuedJobs(q) \in Nat
  BY BeforeSizes
<1> DEFINE s == [g \in 1 .. QueuedJobs(q) |-> g]
<1>5. \A g \in 1 .. QueuedJobs(r) : \A p \in {"med", "low"} : g > Before(r, p) => g > Before(q, p)
  BY <1>2, <1>3, <1>4
<1>6. Follows(r, q, s)
  BY <1>2, <1>5 DEF Follows
<1> HIDE DEF s
<1> QED BY <1>1, <1>6

\* r is q without the job at place i of queue p, whose turn was x.
Dropped(q, r, p, i, x) ==
  /\ i \in DOMAIN q[p] /\ x = Before(q, p) + i
  /\ \A o \in Priority : o # p => r[o] = q[o]
  /\ Len(r[p]) = Len(q[p]) - 1
  /\ \A k \in 1 .. Len(q[p]) - 1 : r[p][k] = q[p][IF k < i THEN k ELSE k + 1]

Skip(x, g) == IF g < x THEN g ELSE g + 1

\* The jobs behind the one that left move up by one turn.
LEMMA DroppedTurns ==
  ASSUME NEW q \in [Priority -> Seq(Job)], NEW r \in [Priority -> Seq(Job)],
         NEW p \in Priority, NEW i, NEW x, Dropped(q, r, p, i, x)
  PROVE  /\ QueuedJobs(q) = QueuedJobs(r) + 1 /\ x \in 1 .. QueuedJobs(q)
         /\ At(q, x) = q[p][i]
         /\ \A g \in 1 .. QueuedJobs(r) : At(r, g) = At(q, Skip(x, g))
         /\ \A o \in {"med", "low"} :
              /\ Before(q, o) \in Nat
              /\ Before(r, o) = IF Before(q, o) < x THEN Before(q, o) ELSE Before(q, o) - 1
<1> DEFINE a == Len(q["high"])
           b == Len(q["med"])
           c == Len(q["low"])
           d == Len(r["high"])
           e == Len(r["med"])
           f == Len(r["low"])
<1>1. /\ a \in Nat /\ b \in Nat /\ c \in Nat /\ QueuedJobs(q) = a + b + c
      /\ DOMAIN q["high"] = 1 .. a /\ DOMAIN q["med"] = 1 .. b /\ DOMAIN q["low"] = 1 .. c
  BY QueueSizes
<1>2. /\ d \in Nat /\ e \in Nat /\ f \in Nat /\ QueuedJobs(r) = d + e + f
      /\ DOMAIN r["high"] = 1 .. d /\ DOMAIN r["med"] = 1 .. e /\ DOMAIN r["low"] = 1 .. f
  BY QueueSizes
<1>3. /\ Before(q, "high") = 0 /\ Before(q, "med") = a /\ Before(q, "low") = a + b
      /\ Before(r, "high") = 0 /\ Before(r, "med") = d /\ Before(r, "low") = d + e
  BY DEF Before
<1>4. i \in DOMAIN q[p] /\ x = Before(q, p) + i
  BY DEF Dropped
<1>5. x \in 1 .. QueuedJobs(q) /\ At(q, x) = q[p][i] /\ i \in Nat
  BY <1>4, AtTurn
<1>6. /\ p = "high" => d = a - 1 /\ e = b /\ f = c
      /\ p = "med" => d = a /\ e = b - 1 /\ f = c
      /\ p = "low" => d = a /\ e = b /\ f = c - 1
  BY DEF Dropped, Priority
<1>7. i \in Nat \ {0} /\ (p = "high" => i <= a) /\ (p = "med" => i <= b) /\ (p = "low" => i <= c)
  <2>1. p \in {"high", "med", "low"}
    BY DEF Priority
  <2> HIDE DEF a, b, c
  <2> QED BY <1>1, <1>4, <2>1
<1>8. p \in {"high", "med", "low"}
  BY DEF Priority
<1>9. ASSUME NEW g \in 1 .. QueuedJobs(r)
      PROVE  At(r, g) = At(q, Skip(x, g))
  <2>1. PICK o \in Priority : \E k \in DOMAIN r[o] : g = Before(r, o) + k /\ At(r, g) = r[o][k]
    BY AtQueue
  <2>2. PICK k \in DOMAIN r[o] : g = Before(r, o) + k /\ At(r, g) = r[o][k]
    BY <2>1
  <2>a. o \in {"high", "med", "low"}
    BY DEF Priority
  <2>3. k \in Nat \ {0} /\ (o = "high" => k <= d) /\ (o = "med" => k <= e) /\ (o = "low" => k <= f)
    <3> HIDE DEF d, e, f
    <3> QED BY <1>2, <2>2, <2>a
  <2> DEFINE l == IF o = p THEN Skip(i, k) ELSE k
  <2>4. l \in DOMAIN q[o] /\ r[o][k] = q[o][l]
    <3>1. CASE o = p
      <4>1. k \in 1 .. Len(q[p]) - 1 /\ Len(q[p]) \in Nat /\ DOMAIN q[p] = 1 .. Len(q[p])
        <5>1. Len(q[p]) \in Nat /\ DOMAIN q[p] = 1 .. Len(q[p]) /\ DOMAIN r[p] = 1 .. Len(r[p])
          BY QueueElements
        <5> QED BY <2>2, <3>1, <5>1 DEF Dropped
      <4>2. r[p][k] = q[p][Skip(i, k)]
        BY <4>1 DEF Dropped, Skip
      <4>3. Skip(i, k) \in 1 .. Len(q[p])
        BY <1>7, <4>1 DEF Skip
      <4> QED BY <3>1, <4>1, <4>2, <4>3
    <3>2. CASE o # p
      BY <2>2, <3>2 DEF Dropped
    <3> QED BY <3>1, <3>2
  <2> HIDE DEF l
  <2>5. At(q, Before(q, o) + l) = q[o][l]
    BY <2>4, AtTurn
  <2>6. Before(q, o) + l = Skip(x, g)
    <3> HIDE DEF a, b, c, d, e, f
    <3>a. Before(r, o) \in Nat /\ Before(q, p) \in Nat
      <4>1. Before(r, o) \in Nat
        BY <1>2, <1>3, <2>a
      <4>2. Before(q, p) \in Nat
        BY <1>1, <1>3, <1>8
      <4> QED BY <4>1, <4>2
    <3>1. g \in Nat /\ x \in Nat /\ g = Before(r, o) + k /\ x = Before(q, p) + i
      BY <1>4, <1>7, <2>2, <2>3, <3>a
    <3>2. CASE o = p
      <4>1. Before(r, o) = Before(q, o) /\ Before(q, o) \in Nat
        BY <1>1, <1>3, <1>6, <1>8, <3>2
      <4> QED BY <1>7, <2>3, <3>1, <3>2, <4>1 DEF l, Skip
    <3>3. CASE (p = "low" /\ o # "low") \/ (p = "med" /\ o = "high")
      <4>1. Before(r, o) = Before(q, o) /\ Before(q, o) \in Nat
        BY <1>1, <1>3, <1>6, <2>a, <3>3
      <4>2. g < x
        <5>1. CASE p = "low" /\ o = "high"
          <6>1. g = k /\ x = a + b + i /\ k <= a
            BY <1>3, <1>6, <2>3, <3>1, <5>1
          <6> QED BY <1>1, <1>7, <2>3, <6>1
        <5>2. CASE p = "low" /\ o = "med"
          <6>1. g = a + k /\ x = a + b + i /\ k <= b
            BY <1>3, <1>6, <2>3, <3>1, <5>2
          <6> QED BY <1>1, <1>7, <2>3, <6>1
        <5>3. CASE p = "med" /\ o = "high"
          <6>1. g = k /\ x = a + i /\ k <= a
            BY <1>3, <1>6, <2>3, <3>1, <5>3
          <6> QED BY <1>1, <1>7, <2>3, <6>1
        <5> QED BY <2>a, <3>3, <5>1, <5>2, <5>3
      <4> QED BY <3>1, <3>3, <4>1, <4>2 DEF l, Skip
    <3>4. CASE (p = "high" /\ o # "high") \/ (p = "med" /\ o = "low")
      <4>1. Before(r, o) = Before(q, o) - 1 /\ Before(q, o) \in Nat
        BY <1>1, <1>3, <1>6, <2>a, <3>4
      <4>2. ~(g < x)
        <5>1. CASE p = "high" /\ o = "med"
          <6>1. g = d + k /\ x = i /\ d = a - 1 /\ i <= a
            BY <1>3, <1>6, <1>7, <3>1, <5>1
          <6> QED BY <1>1, <1>7, <2>3, <6>1
        <5>2. CASE p = "high" /\ o = "low"
          <6>1. g = d + e + k /\ x = i /\ d = a - 1 /\ e = b /\ i <= a
            BY <1>3, <1>6, <1>7, <3>1, <5>2
          <6> QED BY <1>1, <1>7, <2>3, <6>1
        <5>3. CASE p = "med" /\ o = "low"
          <6>1. g = d + e + k /\ x = a + i /\ d = a /\ e = b - 1 /\ i <= b
            BY <1>3, <1>6, <1>7, <3>1, <5>3
          <6> QED BY <1>1, <1>7, <2>3, <6>1
        <5> QED BY <2>a, <3>4, <5>1, <5>2, <5>3
      <4> QED BY <2>3, <3>1, <3>4, <4>1, <4>2 DEF l, Skip
    <3> QED BY <1>8, <2>a, <3>2, <3>3, <3>4
  <2> QED BY <2>2, <2>4, <2>5, <2>6
<1> HIDE DEF a, b, c, d, e, f
<1>10. QueuedJobs(q) = QueuedJobs(r) + 1
  BY <1>1, <1>2, <1>6, <1>8
<1>11. ASSUME NEW o \in {"med", "low"}
       PROVE  /\ Before(q, o) \in Nat
              /\ Before(r, o) = IF Before(q, o) < x THEN Before(q, o) ELSE Before(q, o) - 1
  <2>1. CASE p = "high"
    <3>1. x = i /\ d = a - 1 /\ e = b /\ i <= a
      BY <1>3, <1>4, <1>6, <1>7, <2>1
    <3> QED BY <1>1, <1>3, <1>7, <3>1
  <2>2. CASE p = "med"
    <3>1. x = a + i /\ d = a /\ e = b - 1 /\ i <= b
      BY <1>3, <1>4, <1>6, <1>7, <2>2
    <3> QED BY <1>1, <1>3, <1>7, <3>1
  <2>3. CASE p = "low"
    <3>1. x = a + b + i /\ d = a /\ e = b
      BY <1>3, <1>4, <1>6, <1>7, <2>3
    <3> QED BY <1>1, <1>3, <1>7, <3>1
  <2> QED BY <1>8, <2>1, <2>2, <2>3
<1> QED BY <1>5, <1>9, <1>10, <1>11

LEMMA DroppedFollows ==
  ASSUME NEW q \in [Priority -> Seq(Job)], NEW r \in [Priority -> Seq(Job)],
         NEW p \in Priority, NEW i, NEW x, Dropped(q, r, p, i, x)
  PROVE  \E s : Follows(r, q, s)
<1>1. /\ QueuedJobs(q) = QueuedJobs(r) + 1 /\ x \in 1 .. QueuedJobs(q)
      /\ At(q, x) = q[p][i]
      /\ \A g \in 1 .. QueuedJobs(r) : At(r, g) = At(q, Skip(x, g))
      /\ \A o \in {"med", "low"} :
           /\ Before(q, o) \in Nat
           /\ Before(r, o) = IF Before(q, o) < x THEN Before(q, o) ELSE Before(q, o) - 1
  BY DroppedTurns
<1>2. QueuedJobs(q) \in Nat /\ QueuedJobs(r) \in Nat
  BY QueueSizes
<1> DEFINE s == [g \in 1 .. QueuedJobs(r) |-> Skip(x, g)]
<1>3. \A g \in 1 .. QueuedJobs(r) : s[g] = Skip(x, g) /\ Skip(x, g) \in 1 .. QueuedJobs(q)
  BY <1>1, <1>2 DEF Skip
<1>4. \A g, h \in 1 .. QueuedJobs(r) : g < h => Skip(x, g) < Skip(x, h)
  BY <1>1, <1>2 DEF Skip
<1>5. ASSUME NEW g \in 1 .. QueuedJobs(r), NEW o \in {"med", "low"}, g > Before(r, o)
      PROVE  Skip(x, g) > Before(q, o)
  <2>1. PICK m \in Nat : m = Before(q, o)
    BY <1>1
  <2>2. g > (IF m < x THEN m ELSE m - 1)
    BY <1>1, <1>5, <2>1
  <2>3. Skip(x, g) > m
    BY <1>1, <1>2, <2>2 DEF Skip
  <2> QED BY <2>1, <2>3
<1>6. s \in [1 .. QueuedJobs(r) -> 1 .. QueuedJobs(q)]
  BY <1>3
<1> HIDE DEF s
<1>7. Follows(r, q, s)
  BY <1>1, <1>3, <1>4, <1>5, <1>6 DEF Follows
<1> QED BY <1>7

LEMMA NoJobsFair ==
  ASSUME NEW q, NEW f, NEW pr, \A p \in Priority : q[p] = <<>>
  PROVE  Fair(q, f, pr)
<1>1. Len(q["high"]) = 0 /\ Len(q["med"]) = 0 /\ Len(q["low"]) = 0
  BY DEF Priority
<1>2. QueuedJobs(q) = 0
  BY <1>1 DEF QueuedJobs
<1> QED BY <1>2 DEF Fair, InTurn, Raised, Younger

\* The jobs that wait and those that run were made before the next one.
LEMMA OlderJobs ==
  ASSUME IInv
  PROVE  /\ jobQ \in [Priority -> Seq(Job)] /\ nextJob \in Nat
         /\ \A g \in 1 .. QueuedJobs(jobQ) :
              At(jobQ, g) \in Job /\ At(jobQ, g) <= nextJob /\ prio[At(jobQ, g)] # "persistent"
         /\ \A w \in Worker : wjob[w] # NoJob => wjob[w] \in Job /\ wjob[w] <= nextJob
<1>1. jobQ \in [Priority -> Seq(Job)] /\ nextJob \in Nat
  BY PoolConstants DEF IInv, TypeOK
<1>2. ASSUME NEW g \in 1 .. QueuedJobs(jobQ)
      PROVE  At(jobQ, g) \in Job /\ At(jobQ, g) <= nextJob /\ prio[At(jobQ, g)] # "persistent"
  <2>1. /\ At(jobQ, g) \in Job
        /\ \E p \in Priority : \E i \in DOMAIN jobQ[p] : At(jobQ, g) = jobQ[p][i]
    BY <1>1, AtQueue
  <2> QED BY <2>1 DEF IInv, JobsKnown
<1>3. \A w \in Worker : wjob[w] # NoJob => wjob[w] \in Job /\ wjob[w] <= nextJob
  BY DEF IInv, TypeOK, JobsKnown
<1> QED BY <1>1, <1>2, <1>3

\* The priority of a new job is nothing to those that wait or run.
LEMMA NewJobKeepsFair ==
  ASSUME IInv, Fair(jobQ, wjob, prio), NEW pr, \A j \in Job : j <= nextJob => pr[j] = prio[j]
  PROVE  Fair(jobQ, wjob, pr)
<1>1. /\ \A g \in 1 .. QueuedJobs(jobQ) : pr[At(jobQ, g)] = prio[At(jobQ, g)]
      /\ \A w \in Worker : wjob[w] # NoJob => pr[wjob[w]] = prio[wjob[w]]
  BY OlderJobs
<1>2. InTurn(jobQ, pr)
  BY <1>1 DEF Fair, InTurn
<1>3. Raised(jobQ, pr)
  BY <1>1 DEF Fair, Raised
<1>4. Younger(jobQ, wjob, pr)
  BY <1>1 DEF Fair, Younger
<1> QED BY <1>2, <1>3, <1>4 DEF Fair

LEMMA PersistentKeepsFair ==
  ASSUME IInv, Fair(jobQ, wjob, prio), NEW t \in Thread,
         ThreadPoolAddPersistent(t) \/ PersistentContinue(t)
  PROVE  Fair(jobQ', wjob', prio')
<1>1. UNCHANGED <<jobQ, wjob>>
  BY DEF ThreadPoolAddPersistent, PersistentContinue, persistentFrame
<1>2. prio' = prio \/ prio' = [prio EXCEPT ![nextJob + 1] = "persistent"]
  BY DEF ThreadPoolAddPersistent, PersistentContinue, PersistentCreate, PlacePersistent,
         CreateThreadPoolJob
<1>3. nextJob \in Nat /\ prio \in [Job -> Priority \cup {"persistent"}]
  BY OlderJobs DEF IInv, TypeOK
<1>a. \A j \in Job : j <= nextJob => j # nextJob + 1
  BY <1>3 DEF Job
<1>4. \A j \in Job : j <= nextJob => prio'[j] = prio[j]
  BY <1>2, <1>3, <1>a
<1>5. Fair(jobQ, wjob, prio')
  BY <1>4, NewJobKeepsFair
<1> QED BY <1>1, <1>5

LEMMA RemoveKeepsFair ==
  ASSUME IInv, Fair(jobQ, wjob, prio), NEW t \in Thread, NEW id, ThreadPoolRemove(t, id)
  PROVE  Fair(jobQ', wjob', prio')
<1>1. jobQ \in [Priority -> Seq(Job)]
  BY DEF IInv, TypeOK
<1>2. UNCHANGED <<wjob, prio>>
  BY DEF ThreadPoolRemove, workerVars
<1>3. ASSUME NEW p \in Priority, RemoveFrom(p, id)
      PROVE  Fair(jobQ', wjob, prio)
  <2>1. PICK i \in DOMAIN jobQ[p] : jobQ' = [jobQ EXCEPT ![p] = RemoveAt(@, i)]
    BY <1>3 DEF RemoveFrom, WithId
  <2> DEFINE s == RemoveAt(jobQ[p], i)
  <2>2. jobQ[p] \in Seq(Job) /\ jobQ' = [jobQ EXCEPT ![p] = s]
    BY <1>1, <2>1
  <2>3. /\ s \in Seq(Job) /\ Len(s) = Len(jobQ[p]) - 1
        /\ \A k \in DOMAIN s : s[k] = jobQ[p][IF k < i THEN k ELSE k + 1]
        /\ DOMAIN s = 1 .. Len(jobQ[p]) - 1
    BY <2>2, RemoveAtType
  <2> HIDE DEF s
  <2>4. /\ jobQ'[p] = s /\ \A o \in Priority : o # p => jobQ'[o] = jobQ[o]
        /\ jobQ' \in [Priority -> Seq(Job)]
    BY <1>1, <2>2, <2>3
  <2>5. PICK x : x = Before(jobQ, p) + i
    OBVIOUS
  <2>6. Dropped(jobQ, jobQ', p, i, x)
    BY <2>3, <2>4, <2>5 DEF Dropped
  <2>7. PICK u : Follows(jobQ', jobQ, u)
    BY <1>1, <2>4, <2>6, DroppedFollows
  <2> QED BY <2>7, FollowsKeepsFair
<1>4. CASE UNCHANGED jobQ
  BY <1>2, <1>4
<1> QED BY <1>2, <1>3, <1>4 DEF ThreadPoolRemove, Priority

\* Without the job of the first turn the queues are as fair, and the other jobs of its
\* priority are younger.
LEMMA FirstDropped ==
  ASSUME NEW q \in [Priority -> Seq(Job)], NEW r \in [Priority -> Seq(Job)], NEW p \in Priority,
         NEW i, NEW x, Dropped(q, r, p, i, x), NEW f, NEW pr, Fair(q, f, pr)
  PROVE  /\ Fair(r, f, pr)
         /\ \A g \in 1 .. QueuedJobs(r) :
              x = 1 /\ pr[q[p][i]] = pr[At(r, g)] => q[p][i] < At(r, g)
<1>1. PICK y : Follows(r, q, y)
  BY DroppedFollows
<1>2. Fair(r, f, pr)
  BY <1>1, FollowsKeepsFair
<1>3. /\ QueuedJobs(q) = QueuedJobs(r) + 1 /\ x \in 1 .. QueuedJobs(q)
      /\ At(q, x) = q[p][i]
      /\ \A g \in 1 .. QueuedJobs(r) : At(r, g) = At(q, Skip(x, g))
      /\ \A o \in {"med", "low"} :
           /\ Before(q, o) \in Nat
           /\ Before(r, o) = IF Before(q, o) < x THEN Before(q, o) ELSE Before(q, o) - 1
  BY DroppedTurns
<1>4. ASSUME NEW g \in 1 .. QueuedJobs(r), x = 1, pr[q[p][i]] = pr[At(r, g)]
      PROVE  q[p][i] < At(r, g)
  <2>1. QueuedJobs(r) \in Nat
    BY QueueSizes
  <2>2. Skip(x, g) = g + 1 /\ g + 1 \in 1 .. QueuedJobs(q) /\ x < g + 1
    BY <1>3, <1>4, <2>1 DEF Skip
  <2>3. At(r, g) = At(q, g + 1)
    BY <1>3, <2>2
  <2>4. At(q, x) < At(q, g + 1)
    BY <1>3, <1>4, <2>2, <2>3 DEF Fair, InTurn
  <2> QED BY <1>3, <2>3, <2>4
<1> QED BY <1>2, <1>4

\* The job a worker takes had the first turn.
LEMMA TakeKeepsFair ==
  ASSUME NEW q \in [Priority -> Seq(Job)], NEW f, NEW pr, QueuedJobs(q) # 0, Fair(q, f, pr),
         NEW r, r = [q EXCEPT ![TopQueue(q)] = Tail(q[TopQueue(q)])]
  PROVE  /\ Fair(r, f, pr)
         /\ LET j == Head(q[TopQueue(q)])
            IN \A g \in 1 .. QueuedJobs(r) : pr[j] = pr[At(r, g)] => j < At(r, g)
<1>1. PICK p : p = TopQueue(q)
  OBVIOUS
<1>2. p \in Priority /\ q[p] # <<>>
  BY <1>1, TopQueueNonempty
<1>3. Before(q, p) = 0
  <2>1. (q["high"] = <<>> \/ p = "high") /\ (p = "low" => q["med"] = <<>>)
    BY <1>1 DEF TopQueue
  <2>2. Len(<<>>) = 0
    OBVIOUS
  <2>3. (p # "high" => Len(q["high"]) = 0) /\ (p = "low" => Len(q["med"]) = 0)
    BY <2>1, <2>2
  <2>4. CASE p = "low"
    <3>1. Before(q, p) = Len(q["high"]) + Len(q["med"])
      BY <2>4 DEF Before
    <3>2. Before(q, p) = 0 + 0
      BY <2>3, <2>4, <3>1
    <3> QED BY <3>2
  <2> QED BY <1>2, <2>3, <2>4 DEF Before, Priority
<1> DEFINE s == Tail(q[p])
           j == Head(q[p])
<1>4. /\ q[p] \in Seq(Job) /\ Len(q[p]) \in Nat /\ DOMAIN q[p] = 1 .. Len(q[p])
      /\ s \in Seq(Job) /\ Len(s) = Len(q[p]) - 1
      /\ \A i \in 1 .. Len(s) : s[i] = q[p][i + 1]
  BY <1>2, HeadTailProperties, LenProperties
<1>5. j = q[p][1] /\ 1 \in DOMAIN q[p]
  BY <1>2, <1>4, LenProperties
<1> HIDE DEF s, j
<1>6. r[p] = s /\ (\A o \in Priority : o # p => r[o] = q[o]) /\ r \in [Priority -> Seq(Job)]
  BY <1>1, <1>2, <1>4 DEF s
<1>a. PICK i : i = 1
  OBVIOUS
<1>7. PICK x : x = 1
  OBVIOUS
<1>8. Dropped(q, r, p, i, x)
  <2>1. \A k \in 1 .. Len(q[p]) - 1 : s[k] = q[p][k + 1] /\ ~(k < 1)
    BY <1>4
  <2>2. \A k \in 1 .. Len(q[p]) - 1 : r[p][k] = q[p][IF k < i THEN k ELSE k + 1]
    BY <1>6, <1>a, <2>1
  <2>3. i \in DOMAIN q[p] /\ x = Before(q, p) + i
    BY <1>3, <1>5, <1>7, <1>a
  <2>4. Len(r[p]) = Len(q[p]) - 1
    BY <1>4, <1>6
  <2> QED BY <1>6, <2>2, <2>3, <2>4 DEF Dropped
<1>9. /\ Fair(r, f, pr)
      /\ \A g \in 1 .. QueuedJobs(r) : x = 1 /\ pr[q[p][i]] = pr[At(r, g)] => q[p][i] < At(r, g)
  <2>1. r \in [Priority -> Seq(Job)] /\ p \in Priority
    BY <1>2, <1>6
  <2>2. Fair(r, f, pr)
    BY <1>8, <2>1, FirstDropped
  <2>3. \A g \in 1 .. QueuedJobs(r) : x = 1 /\ pr[q[p][i]] = pr[At(r, g)] => q[p][i] < At(r, g)
    BY <1>8, <2>1, FirstDropped
  <2> QED BY <2>2, <2>3
<1> QED BY <1>1, <1>5, <1>7, <1>9, <1>a DEF j

LEMMA LoopKeepsFair ==
  ASSUME IInv, Fair(jobQ, wjob, prio), NEW w \in Worker, WorkerStep(w)
  PROVE  Fair(jobQ', wjob', prio')
<1> DEFINE q == BumpPriority(jobQ)
           p == TopQueue(q)
<1>1. jobQ \in [Priority -> Seq(Job)] /\ wjob \in [Worker -> Job \cup {NoJob}] /\ UNCHANGED prio
  BY DEF IInv, TypeOK, WorkerStep, jobVars
<1>2. q \in [Priority -> Seq(Job)] /\ QueuedJobs(q) = QueuedJobs(jobQ)
  BY <1>1, BumpPriorityType
<1>a. PICK u : Follows(q, jobQ, u)
  BY <1>1, BumpKeepsTurns
<1>3. Fair(q, wjob, prio)
  BY <1>a, FollowsKeepsFair
<1>4. ASSUME NEW r, Fair(r, wjob, prio), NEW j,
             \A g \in 1 .. QueuedJobs(r) :
               j # NoJob /\ prio[j] = prio[At(r, g)] => j < At(r, g),
             wjob' = [wjob EXCEPT ![w] = j]
      PROVE  Fair(r, wjob', prio)
  <2>1. wjob'[w] = j /\ \A v \in Worker : v # w => wjob'[v] = wjob[v]
    BY <1>1, <1>4
  <2>2. Younger(r, wjob', prio)
    BY <1>4, <2>1 DEF Fair, Younger
  <2> QED BY <1>4, <2>2 DEF Fair
<1>5. CASE jobQ' \in {jobQ, q} /\ wjob' = [wjob EXCEPT ![w] = NoJob]
  <2>1. Fair(jobQ', wjob, prio)
    BY <1>3, <1>5
  <2>2. Fair(jobQ', wjob', prio)
    BY <1>4, <1>5, <2>1
  <2> QED BY <1>1, <2>2
<1>6. CASE persistentJob # NoJob /\ wjob' = [wjob EXCEPT ![w] = persistentJob] /\ jobQ' = q
  <2>1. prio[persistentJob] = "persistent"
    BY <1>6 DEF IInv, JobsKnown
  <2>2. \A g \in 1 .. QueuedJobs(q) : prio[At(q, g)] # "persistent"
    BY <1>2, <1>a, OlderJobs DEF Follows
  <2>3. Fair(q, wjob', prio)
    BY <1>3, <1>4, <1>6, <2>1, <2>2
  <2> QED BY <1>1, <1>6, <2>3
<1>7. CASE /\ persistentJob = NoJob /\ shutdown = 0 /\ ~Idle
           /\ wjob' = [wjob EXCEPT ![w] = Head(q[p])]
           /\ jobQ' = [q EXCEPT ![p] = Tail(@)]
  <2>1. QueuedJobs(jobQ) # 0
    BY <1>7 DEF Idle
  <2> DEFINE j == Head(q[p])
  <2>2. jobQ' = [q EXCEPT ![p] = Tail(q[p])] /\ wjob' = [wjob EXCEPT ![w] = j]
    BY <1>7
  <2>3. /\ Fair(jobQ', wjob, prio)
        /\ \A g \in 1 .. QueuedJobs(jobQ') : prio[j] = prio[At(jobQ', g)] => j < At(jobQ', g)
    BY <1>2, <1>3, <2>1, <2>2, TakeKeepsFair
  <2> HIDE DEF j, p, q
  <2>4. Fair(jobQ', wjob', prio)
    BY <1>4, <2>2, <2>3
  <2> QED BY <1>1, <2>4
<1> QED BY <1>5, <1>6, <1>7 DEF WorkerStep, WorkerExit, WorkerWait, WorkerPick

LEMMA AddKeepsFair ==
  ASSUME IInv, Fair(jobQ, wjob, prio), NEW t \in Thread, NEW p \in AddPriorities, ThreadPoolAdd(t, p)
  PROVE  Fair(jobQ', wjob', prio')
<1> DEFINE j == nextJob + 1
           s == jobQ[p]
           n == Len(s)
<1>1. /\ jobQ \in [Priority -> Seq(Job)] /\ p \in Priority
      /\ prio \in [Job -> Priority \cup {"persistent"}] /\ nextJob \in Nat
  BY PoolConstants, OlderJobs DEF IInv, TypeOK, Priority
<1>2. UNCHANGED wjob /\ prio' = [prio EXCEPT ![j] = p]
  BY DEF ThreadPoolAdd, CreateThreadPoolJob
<1>3. j \in Job
  <2>1. nextJob + Cardinality(Expected) < MaxJobs
    BY DEF ThreadPoolAdd, JobsLeft
  <2>2. Cardinality(Expected) \in Nat
    <3>1. IsFiniteSet(Thread)
      BY PoolConstants, FS_Union DEF Thread
    <3>2. Expected \subseteq Thread
      BY DEF Expected
    <3> QED BY <3>1, <3>2, FS_Subset, FS_CardinalityType
  <2>3. nextJob + 1 \in 1 .. MaxJobs
    BY <1>1, <2>1, <2>2, PoolConstants
  <2> QED BY <2>3 DEF Job
<1>4. \A x \in Job : x <= nextJob => x # j /\ x < j
  BY <1>1 DEF Job
<1>5. prio'[j] = p /\ \A x \in Job : x <= nextJob => prio'[x] = prio[x]
  BY <1>1, <1>2, <1>3, <1>4
<1>6. Fair(jobQ, wjob, prio')
  BY <1>5, NewJobKeepsFair
<1>7. CASE jobQ' = jobQ
  BY <1>2, <1>6, <1>7
<1>8. CASE jobQ' = [jobQ EXCEPT ![p] = Append(@, j)]
  <2>1. s \in Seq(Job) /\ n \in Nat /\ DOMAIN s = 1 .. n
    BY <1>1, LenProperties
  <2>2. /\ Append(s, j) \in Seq(Job) /\ Len(Append(s, j)) = n + 1
        /\ \A i \in 1 .. n : Append(s, j)[i] = s[i]
        /\ Append(s, j)[n + 1] = j
    BY <1>3, <2>1, AppendProperties
  <2>3. /\ jobQ'[p] = Append(s, j) /\ \A o \in Priority : o # p => jobQ'[o] = jobQ[o]
        /\ jobQ' \in [Priority -> Seq(Job)]
    BY <1>1, <1>8, <2>2
  <2>4. PICK i : i = n + 1
    OBVIOUS
  <2>5. PICK y : y = Before(jobQ', p) + i
    OBVIOUS
  <2>6. DOMAIN jobQ'[p] = 1 .. n + 1
    BY <2>2, <2>3, LenProperties
  <2> HIDE DEF j
  <2>7. Dropped(jobQ', jobQ, p, i, y)
    <3>1. \A k \in 1 .. n : k < n + 1
      BY <2>1
    <3>2. n = n + 1 - 1 /\ n + 1 \in 1 .. n + 1
      BY <2>1
    <3> HIDE DEF n
    <3>3. Len(jobQ[p]) = n
      BY DEF n
    <3>4. \A k \in 1 .. n : jobQ[p][k] = jobQ'[p][k]
      BY <2>2, <2>3
    <3>5. Len(jobQ'[p]) = n + 1
      BY <2>2, <2>3
    <3> QED BY <2>3, <2>4, <2>5, <2>6, <3>1, <3>2, <3>3, <3>4, <3>5 DEF Dropped
  <2>8. /\ QueuedJobs(jobQ') = QueuedJobs(jobQ) + 1 /\ y \in 1 .. QueuedJobs(jobQ')
        /\ At(jobQ', y) = jobQ'[p][i]
        /\ \A g \in 1 .. QueuedJobs(jobQ) : At(jobQ, g) = At(jobQ', Skip(y, g))
        /\ \A o \in {"med", "low"} :
             /\ Before(jobQ', o) \in Nat
             /\ Before(jobQ, o) = IF Before(jobQ', o) < y THEN Before(jobQ', o) ELSE Before(jobQ', o) - 1
    BY <1>1, <2>3, <2>7, DroppedTurns
  <2>9. At(jobQ', y) = j
    BY <2>2, <2>3, <2>4, <2>8
  <2>10. QueuedJobs(jobQ) \in Nat
    BY <1>1, QueueSizes
  <2> DEFINE old(g) == IF g < y THEN g ELSE g - 1
  \* Every turn but y was one before.
  <2>11. ASSUME NEW g \in 1 .. QueuedJobs(jobQ'), g # y
         PROVE  old(g) \in 1 .. QueuedJobs(jobQ) /\ At(jobQ', g) = At(jobQ, old(g))
    <3>1. old(g) \in 1 .. QueuedJobs(jobQ) /\ Skip(y, old(g)) = g
      BY <2>8, <2>10, <2>11 DEF Skip
    <3> QED BY <2>8, <3>1
  \* The queues behind the new job hold jobs of lower priorities.
  <2>12. /\ p = "high" => y = Before(jobQ', "med")
         /\ p = "med" => y = Before(jobQ', "low")
         /\ p = "high" => y <= Before(jobQ', "low")
         /\ p = "low" => y = QueuedJobs(jobQ')
    <3> DEFINE a == Len(jobQ'["high"])
               b == Len(jobQ'["med"])
               c == Len(jobQ'["low"])
    <3>1. a \in Nat /\ b \in Nat /\ c \in Nat /\ QueuedJobs(jobQ') = a + b + c
      BY <2>3, QueueSizes
    <3>2. /\ Before(jobQ', "high") = 0 /\ Before(jobQ', "med") = a /\ Before(jobQ', "low") = a + b
      BY DEF Before
    <3>3. i = Len(jobQ'[p])
      BY <2>2, <2>3, <2>4
    <3>4. /\ p = "high" => i = a
          /\ p = "med" => i = b
          /\ p = "low" => i = c
      BY <3>3
    <3> HIDE DEF a, b, c
    <3> QED BY <2>5, <3>1, <3>2, <3>4
  <2>13. Raised(jobQ', prio')
    <3> SUFFICES ASSUME NEW g \in 1 .. QueuedJobs(jobQ')
                 PROVE  /\ g > Before(jobQ', "med") => prio'[At(jobQ', g)] # "high"
                        /\ g > Before(jobQ', "low") => prio'[At(jobQ', g)] # "med"
      BY DEF Raised
    <3>1. CASE g = y
      <4>1. prio'[At(jobQ', g)] = p
        BY <1>5, <2>9, <3>1
      <4>2. y \in Nat /\ Before(jobQ', "med") \in Nat /\ Before(jobQ', "low") \in Nat
        BY <2>8, <2>10
      <4> QED BY <2>12, <3>1, <4>1, <4>2
    <3>2. CASE g # y
      <4>1. old(g) \in 1 .. QueuedJobs(jobQ) /\ At(jobQ', g) = At(jobQ, old(g))
        BY <2>11, <3>2
      <4>2. ASSUME NEW o \in {"med", "low"}, g > Before(jobQ', o)
            PROVE  old(g) > Before(jobQ, o)
        <5>1. PICK m \in Nat : m = Before(jobQ', o)
          BY <2>8
        <5>2. Before(jobQ, o) = IF m < y THEN m ELSE m - 1
          BY <2>8, <5>1
        <5>3. g \in Nat /\ y \in Nat /\ g > m
          BY <2>8, <2>10, <4>2, <5>1
        <5> QED BY <3>2, <5>2, <5>3
      <4> HIDE DEF old
      <4> QED BY <1>6, <4>1, <4>2 DEF Fair, Raised
    <3> QED BY <3>1, <3>2
  <2>14. \A g \in 1 .. QueuedJobs(jobQ) : At(jobQ, g) \in Job /\ At(jobQ, g) <= nextJob
    BY OlderJobs
  <2>15. ASSUME NEW g \in 1 .. QueuedJobs(jobQ'), NEW h \in 1 .. QueuedJobs(jobQ'), g < h,
                prio'[At(jobQ', g)] = prio'[At(jobQ', h)]
         PROVE  At(jobQ', g) < At(jobQ', h)
    <3>a. g \in Nat /\ h \in Nat /\ y \in Nat
      BY <2>8, <2>10
    <3>1. CASE g # y /\ h # y
      <4>1. /\ old(g) \in 1 .. QueuedJobs(jobQ) /\ At(jobQ', g) = At(jobQ, old(g))
            /\ old(h) \in 1 .. QueuedJobs(jobQ) /\ At(jobQ', h) = At(jobQ, old(h))
        BY <2>11, <3>1
      <4>2. old(g) < old(h)
        BY <2>15, <3>1, <3>a
      <4> HIDE DEF old
      <4> QED BY <1>6, <2>15, <4>1, <4>2 DEF Fair, InTurn
    <3>2. CASE h = y
      <4>1. g # y
        BY <2>15, <3>a, <3>2
      <4>2. At(jobQ', g) \in Job /\ At(jobQ', g) <= nextJob
        BY <2>11, <2>14, <4>1
      <4> QED BY <1>4, <2>9, <3>2, <4>2
    <3>3. CASE g = y
      <4>1. prio'[At(jobQ', h)] = p
        BY <1>5, <2>9, <2>15, <3>3
      <4>2. p # "low" /\ (p = "high" => h > Before(jobQ', "med")) /\ (p = "med" => h > Before(jobQ', "low"))
        <5>1. h > y /\ h <= QueuedJobs(jobQ') /\ QueuedJobs(jobQ') \in Nat
          BY <2>8, <2>10, <2>15, <3>3, <3>a
        <5> QED BY <2>12, <3>a, <5>1
      <4> QED BY <1>1, <2>13, <4>1, <4>2 DEF Raised, Priority
    <3> QED BY <3>1, <3>2, <3>3
  <2>16. ASSUME NEW w \in Worker, NEW g \in 1 .. QueuedJobs(jobQ'), wjob[w] # NoJob,
                prio'[wjob[w]] = prio'[At(jobQ', g)]
         PROVE  wjob[w] < At(jobQ', g)
    <3>1. CASE g = y
      <4>1. wjob[w] \in Job /\ wjob[w] <= nextJob
        BY <2>16, OlderJobs
      <4> QED BY <1>4, <2>9, <3>1, <4>1
    <3>2. CASE g # y
      <4>1. old(g) \in 1 .. QueuedJobs(jobQ) /\ At(jobQ', g) = At(jobQ, old(g))
        BY <2>11, <3>2
      <4> HIDE DEF old
      <4> QED BY <1>6, <2>16, <4>1 DEF Fair, Younger
    <3> QED BY <3>1, <3>2
  <2>17. Fair(jobQ', wjob, prio')
    BY <2>13, <2>15, <2>16 DEF Fair, InTurn, Younger
  <2> QED BY <1>2, <2>17
<1> QED BY <1>7, <1>8 DEF ThreadPoolAdd

LEMMA FairStep ==
  ASSUME IInv, Fair(jobQ, wjob, prio), [Next]_vars
  PROVE  Fair(jobQ', wjob', prio')
<1>1. ASSUME UNCHANGED <<jobQ, wjob, prio>>
      PROVE  Fair(jobQ', wjob', prio')
  BY <1>1
<1>2. ASSUME NEW t \in Thread, ShutdownBegin(t)
      PROVE  Fair(jobQ', wjob', prio')
  <2>1. \A p \in Priority : jobQ'[p] = <<>>
    BY <1>2 DEF ShutdownBegin
  <2> QED BY <2>1, NoJobsFair
<1>3. ASSUME NEW t \in Thread, Invoke(t)
      PROVE  Fair(jobQ', wjob', prio')
  <2>1. CASE (\E a \in Attrs : ThreadPoolSetAttr(t, a)) \/ GetAttrTest(t)
    BY <1>1, <2>1 DEF ThreadPoolSetAttr, minThreadsFrame, GetAttrTest, poolVars, workerVars, jobVars
  <2>2. CASE \E p \in AddPriorities : ThreadPoolAdd(t, p)
    BY <2>2, AddKeepsFair
  <2>3. CASE ThreadPoolAddPersistent(t)
    BY <2>3, PersistentKeepsFair
  <2>4. CASE \E j \in Job : ThreadPoolRemove(t, retId[j])
    BY <2>4, RemoveKeepsFair
  <2>5. CASE ShutdownBegin(t)
    BY <1>2, <2>5
  <2> QED BY <1>3, <2>1, <2>2, <2>3, <2>4, <2>5 DEF Invoke
<1>4. ASSUME NEW t \in Thread, CallStep(t)
      PROVE  Fair(jobQ', wjob', prio')
  <2>1. CASE ThreadPoolInit(t) \/ MinThreadsContinue(t)
    BY <1>1, <2>1 DEF ThreadPoolInit, MinThreadsContinue, minThreadsFrame, jobVars
  <2>2. CASE StartStillPending(t) \/ GetAttrCopy(t) \/ ShutdownContinue(t) \/ AddContinue(t)
    BY <1>1, <2>2 DEF StartStillPending, GetAttrCopy, ShutdownContinue, AddContinue,
                      poolVars, workerVars, jobVars
  <2>3. CASE PersistentPickup(t)
    BY <1>1, <2>3 DEF PersistentPickup, persistentFrame
  <2>4. CASE PersistentContinue(t)
    BY <2>4, PersistentKeepsFair
  <2>5. CASE ShutdownBegin(t)
    BY <1>2, <2>5
  <2> QED BY <1>4, <2>1, <2>2, <2>3, <2>4, <2>5 DEF CallStep
<1>5. ASSUME NEW w \in Worker, WorkerNext(w)
      PROVE  Fair(jobQ', wjob', prio')
  <2>1. CASE WorkerStep(w)
    BY <2>1, LoopKeepsFair
  <2>2. CASE WorkerStart(w) \/ JobReturns(w) \/ WaitTimesOut(w)
    BY <1>1, <2>2 DEF WorkerStart, JobReturns, WaitTimesOut, poolVars, jobVars
  <2> QED BY <1>5, <2>1, <2>2 DEF WorkerNext
<1>6. CASE (\E t \in Thread : SpuriousWake(t)) \/ Tick \/ UNCHANGED vars
  BY <1>1, <1>6 DEF SpuriousWake, Tick, vars, poolVars, workerVars, jobVars
<1> QED BY <1>3, <1>4, <1>5, <1>6 DEF Next

-----------------------------------------------------------------------------
(* The loop of BumpPriority *)

\* Where the borders between the queues are when no job has to be bumped any more, if
\* the jobs stay in line: x jobs are before those of medJobQ, y before those of lowJobQ.
Borders(q, x, y) ==
  /\ y \in Before(q, "low") .. QueuedJobs(q) /\ x \in Before(q, "med") .. y
  /\ \A g \in Before(q, "low") + 1 .. y : Waited(At(q, g), attr.maxIdleTime)
  /\ y < QueuedJobs(q) => ~Waited(At(q, y + 1), attr.maxIdleTime)
  /\ \A g \in Before(q, "med") + 1 .. x : Waited(At(q, g), attr.starvationTime)
  /\ x < y => ~Waited(At(q, x + 1), attr.starvationTime)

\* What is in line after all of highJobQ, and after all of medJobQ too.
LEMMA AtMoving ==
  ASSUME NEW q \in [Priority -> Seq(Job)], NEW i \in Nat \ {0}
  PROVE  /\ At(q, Before(q, "med") + i) = Moving(q, i)
         /\ At(q, Before(q, "low") + i) = q["low"][i]
<1>1. PICK a \in Nat, b \in Nat : a = Len(q["high"]) /\ b = Len(q["med"])
  BY QueueSizes
<1>2. Before(q, "med") = a /\ Before(q, "low") = a + b
  BY <1>1 DEF Before
<1>3. /\ ~(a + i <= a) /\ (a + i <= a + b <=> i <= b) /\ a + i - a = i /\ a + i - (a + b) = i - b
      /\ ~(a + b + i <= a) /\ ~(a + b + i <= a + b) /\ (a + b + i) - (a + b) = i
  OBVIOUS
<1>4. At(q, a + i) = Moving(q, i)
  <2>1. At(q, a + i) = IF a + i <= a + b THEN q["med"][a + i - a] ELSE q["low"][a + i - (a + b)]
    BY <1>1, <1>3 DEF At
  <2> QED BY <1>1, <1>3, <2>1 DEF Moving
<1>5. At(q, a + b + i) = q["low"][i]
  BY <1>1, <1>3 DEF At
<1> QED BY <1>2, <1>4, <1>5

\* BumpPriority puts the borders there.
LEMMA BumpBorders ==
  ASSUME NEW q \in [Priority -> Seq(Job)]
  PROVE  Borders(q, Before(BumpPriority(q), "med"), Before(BumpPriority(q), "low"))
<1>1. PICK a, b, c : /\ a = Before(q, "med") /\ b = Before(q, "low") /\ c = QueuedJobs(q)
  OBVIOUS
<1>2. a \in Nat /\ b \in Nat /\ c \in Nat /\ a <= b /\ b <= c
      /\ Len(q["med"]) = b - a /\ Len(q["low"]) = c - b
  BY <1>1, BeforeSizes
<1>3. PICK k \in 0 .. c - b : \E n \in 0 .. (b - a) + k :
              /\ AllOverdue(q, k, n)
              /\ Before(BumpPriority(q), "med") = a + n
              /\ Before(BumpPriority(q), "low") = b + k
  BY <1>1, <1>2, BumpLine
<1>4. PICK n \in 0 .. (b - a) + k :
              /\ AllOverdue(q, k, n)
              /\ Before(BumpPriority(q), "med") = a + n
              /\ Before(BumpPriority(q), "low") = b + k
  BY <1>3
<1>5. b + k \in b .. c /\ a + n \in a .. b + k
  BY <1>2, <1>3, <1>4
<1>6. /\ \A i \in Nat \ {0} : At(q, a + i) = Moving(q, i)
      /\ \A i \in Nat \ {0} : At(q, b + i) = q["low"][i]
  BY <1>1, AtMoving
<1>7. \A g \in b + 1 .. b + k : Waited(At(q, g), attr.maxIdleTime)
  <2> SUFFICES ASSUME NEW g \in b + 1 .. b + k PROVE Waited(At(q, g), attr.maxIdleTime)
    OBVIOUS
  <2>1. PICK i \in 1 .. k : g = b + i
    <3>1. g - b \in 1 .. k /\ g = b + (g - b)
      BY <1>2, <1>3
    <3> QED BY <3>1
  <2>2. At(q, g) = q["low"][i]
    BY <1>3, <1>6, <2>1
  <2> QED BY <1>4, <2>1, <2>2 DEF AllOverdue
<1>8. b + k < c => ~Waited(At(q, b + k + 1), attr.maxIdleTime)
  <2>1. b + k + 1 = b + (k + 1) /\ k + 1 \in Nat \ {0} /\ (b + k < c => k < c - b)
    BY <1>2, <1>3
  <2>2. At(q, b + k + 1) = q["low"][k + 1]
    BY <1>6, <2>1
  <2> QED BY <1>2, <1>4, <2>1, <2>2 DEF AllOverdue
<1>9. \A g \in a + 1 .. a + n : Waited(At(q, g), attr.starvationTime)
  <2> SUFFICES ASSUME NEW g \in a + 1 .. a + n PROVE Waited(At(q, g), attr.starvationTime)
    OBVIOUS
  <2>1. PICK i \in 1 .. n : g = a + i
    <3>1. g - a \in 1 .. n /\ g = a + (g - a)
      BY <1>2, <1>3, <1>4
    <3> QED BY <3>1
  <2>2. At(q, g) = Moving(q, i)
    BY <1>4, <1>6, <2>1
  <2> QED BY <1>4, <2>1, <2>2 DEF AllOverdue
<1>10. a + n < b + k => ~Waited(At(q, a + n + 1), attr.starvationTime)
  <2>1. a + n + 1 = a + (n + 1) /\ n + 1 \in Nat \ {0} /\ (a + n < b + k => n < b - a + k)
    BY <1>2, <1>3, <1>4
  <2>2. At(q, a + n + 1) = Moving(q, n + 1)
    BY <1>6, <2>1
  <2> QED BY <1>2, <1>4, <2>1, <2>2 DEF AllOverdue
<1> QED BY <1>1, <1>4, <1>5, <1>7, <1>8, <1>9, <1>10 DEF Borders

LEMMA BordersUnique ==
  ASSUME NEW q \in [Priority -> Seq(Job)], NEW x, NEW y, Borders(q, x, y),
         NEW u, NEW v, Borders(q, u, v)
  PROVE  x = u /\ y = v
<1>1. PICK a, b, c : /\ a = Before(q, "med") /\ b = Before(q, "low") /\ c = QueuedJobs(q)
  OBVIOUS
<1>2. a \in Nat /\ b \in Nat /\ c \in Nat
  BY <1>1, BeforeSizes
<1>3. y \in b .. c /\ x \in a .. y /\ v \in b .. c /\ u \in a .. v
  BY <1>1 DEF Borders
<1>4. y = v
  <2>1. CASE y < v
    <3>1. y + 1 \in b + 1 .. v /\ y < c
      BY <1>2, <1>3, <2>1
    <3> QED BY <1>1, <3>1 DEF Borders
  <2>2. CASE v < y
    <3>1. v + 1 \in b + 1 .. y /\ v < c
      BY <1>2, <1>3, <2>2
    <3> QED BY <1>1, <3>1 DEF Borders
  <2> QED BY <1>2, <1>3, <2>1, <2>2
<1>5. x = u
  <2>1. CASE x < u
    <3>1. x + 1 \in a + 1 .. u /\ x < y
      BY <1>2, <1>3, <1>4, <2>1
    <3> QED BY <1>1, <3>1 DEF Borders
  <2>2. CASE u < x
    <3>1. u + 1 \in a + 1 .. x /\ u < v
      BY <1>2, <1>3, <1>4, <2>2
    <3> QED BY <1>1, <3>1 DEF Borders
  <2> QED BY <1>2, <1>3, <2>1, <2>2
<1> QED BY <1>4, <1>5

\* The line and the borders are all there is to the queues.
LEMMA SameQueues ==
  ASSUME NEW q \in [Priority -> Seq(Job)], NEW r \in [Priority -> Seq(Job)],
         QueuedJobs(r) = QueuedJobs(q), \A g \in 1 .. QueuedJobs(q) : At(r, g) = At(q, g),
         Before(r, "med") = Before(q, "med"), Before(r, "low") = Before(q, "low")
  PROVE  r = q
<1> SUFFICES ASSUME NEW p \in Priority PROVE r[p] = q[p]
  OBVIOUS
<1>1. Before(r, p) = Before(q, p)
  BY DEF Before, Priority
<1>2. Len(r[p]) = Len(q[p])
  <2>1. Len(r["high"]) = Len(q["high"]) /\ Len(r["med"]) = Len(q["med"]) /\ Len(r["low"]) = Len(q["low"])
    BY BeforeSizes
  <2> QED BY <2>1 DEF Priority
<1>3. /\ r[p] \in Seq(Job) /\ DOMAIN r[p] = 1 .. Len(r[p])
      /\ q[p] \in Seq(Job) /\ DOMAIN q[p] = 1 .. Len(q[p])
  BY QueueElements
<1>4. \A i \in 1 .. Len(q[p]) : r[p][i] = q[p][i]
  <2> SUFFICES ASSUME NEW i \in 1 .. Len(q[p]) PROVE r[p][i] = q[p][i]
    OBVIOUS
  <2>1. At(r, Before(r, p) + i) = r[p][i]
    BY <1>2, <1>3, AtTurn
  <2>2. At(q, Before(q, p) + i) = q[p][i] /\ Before(q, p) + i \in 1 .. QueuedJobs(q)
    BY <1>3, AtTurn
  <2> QED BY <1>1, <2>1, <2>2
<1> QED BY <1>2, <1>3, <1>4, SeqEqual

\* A turn of the loop moves one border over one job.
LEMMA TurnMoves ==
  ASSUME NEW q \in [Priority -> Seq(Job)], BumpTurn(q) # q
  PROVE  /\ BumpTurn(q) \in [Priority -> Seq(Job)] /\ QueuedJobs(BumpTurn(q)) = QueuedJobs(q)
         /\ \A g \in 1 .. QueuedJobs(q) : At(BumpTurn(q), g) = At(q, g)
         /\ \/ /\ Before(q, "med") < Before(q, "low")
               /\ Waited(At(q, Before(q, "med") + 1), attr.starvationTime)
               /\ Before(BumpTurn(q), "med") = Before(q, "med") + 1
               /\ Before(BumpTurn(q), "low") = Before(q, "low")
            \/ /\ Before(q, "low") < QueuedJobs(q)
               /\ Waited(At(q, Before(q, "low") + 1), attr.maxIdleTime)
               /\ Before(BumpTurn(q), "med") = Before(q, "med")
               /\ Before(BumpTurn(q), "low") = Before(q, "low") + 1
<1>1. PICK r : r = BumpTurn(q)
  OBVIOUS
<1>2. PICK h, m, l : h = q["high"] /\ m = q["med"] /\ l = q["low"]
  OBVIOUS
<1>3. /\ h \in Seq(Job) /\ m \in Seq(Job) /\ l \in Seq(Job)
      /\ Len(h) \in Nat /\ Len(m) \in Nat /\ Len(l) \in Nat
      /\ QueuedJobs(q) = Len(h) + Len(m) + Len(l)
  BY <1>2, QueueSizes DEF Priority
<1>4. Before(q, "med") = Len(h) /\ Before(q, "low") = Len(h) + Len(m)
  BY <1>2 DEF Before
<1>5. ASSUME NEW s \in Seq(Job), s # <<>>, NEW t \in Seq(Job)
      PROVE  /\ Head(s) \in Job /\ Head(s) = s[1] /\ Tail(s) \in Seq(Job)
             /\ Len(s) \in Nat \ {0} /\ Len(Tail(s)) = Len(s) - 1
             /\ \A i \in 1 .. Len(s) - 1 : Tail(s)[i] = s[i + 1]
             /\ Append(t, Head(s)) \in Seq(Job) /\ Len(Append(t, Head(s))) = Len(t) + 1
             /\ \A i \in 1 .. Len(t) : Append(t, Head(s))[i] = t[i]
             /\ Append(t, Head(s))[Len(t) + 1] = Head(s)
  <2>1. Head(s) \in Job /\ Tail(s) \in Seq(Job) /\ Len(Tail(s)) = Len(s) - 1
        /\ Len(s) \in Nat \ {0} /\ \A i \in 1 .. Len(s) - 1 : Tail(s)[i] = s[i + 1]
    BY <1>5, HeadTailProperties, LenProperties, EmptySeq
  <2>2. Head(s) = s[1]
    BY DEF Head
  <2> QED BY <2>1, <2>2, AppendProperties
<1>6. CASE m # <<>> /\ Waited(Head(m), attr.starvationTime)
  <2>1. r = [q EXCEPT !["med"] = Tail(m), !["high"] = Append(h, Head(m))]
    BY <1>1, <1>2, <1>6 DEF BumpTurn
  <2>2. r["med"] = Tail(m) /\ r["high"] = Append(h, Head(m)) /\ r["low"] = l /\ r \in [Priority -> Seq(Job)]
    BY <1>2, <1>3, <1>5, <1>6, <2>1 DEF Priority
  <2>3. PICK a \in Nat, b \in Nat \ {0}, c \in Nat : a = Len(h) /\ b = Len(m) /\ c = Len(l)
    BY <1>3, <1>5, <1>6
  <2>4. Len(r["high"]) = a + 1 /\ Len(r["med"]) = b - 1 /\ Len(r["low"]) = c
    BY <1>3, <1>5, <1>6, <2>2, <2>3
  <2>5. Before(r, "med") = a + 1 /\ Before(r, "low") = a + 1 + (b - 1) /\ QueuedJobs(r) = a + 1 + (b - 1) + c
    BY <2>4 DEF Before, QueuedJobs
  <2>6. a + 1 + (b - 1) = a + b
    OBVIOUS
  <2>7. ASSUME NEW g \in 1 .. a + b + c PROVE At(r, g) = At(q, g)
    <3>1. At(q, g) = IF g <= a THEN h[g] ELSE IF g <= a + b THEN m[g - a] ELSE l[g - (a + b)]
      BY <1>2, <2>3 DEF At
    <3>2. At(r, g) = IF g <= a + 1 THEN Append(h, Head(m))[g]
                     ELSE IF g <= a + b THEN Tail(m)[g - (a + 1)] ELSE l[g - (a + b)]
      BY <2>2, <2>4, <2>6 DEF At
    <3>3. CASE g <= a
      <4>1. g \in 1 .. a /\ g <= a + 1
        BY <3>3
      <4> QED BY <1>3, <1>5, <1>6, <2>3, <3>1, <3>2, <4>1
    <3>4. CASE g = a + 1
      <4>1. ~(g <= a) /\ g <= a + 1 /\ g <= a + b /\ g - a = 1
        BY <3>4
      <4> QED BY <1>3, <1>5, <1>6, <2>3, <3>1, <3>2, <3>4, <4>1
    <3>5. CASE ~(g <= a + 1) /\ g <= a + b
      <4>1. ~(g <= a) /\ g - (a + 1) \in 1 .. b - 1 /\ g - (a + 1) + 1 = g - a
        BY <3>5
      <4>2. Tail(m)[g - (a + 1)] = m[g - a]
        BY <1>3, <1>5, <1>6, <2>3, <4>1
      <4> QED BY <3>1, <3>2, <3>5, <4>1, <4>2
    <3>6. CASE ~(g <= a + b)
      <4>1. ~(g <= a) /\ ~(g <= a + 1)
        BY <3>6
      <4> QED BY <3>1, <3>2, <3>6, <4>1
    <3> QED BY <3>3, <3>4, <3>5, <3>6
  <2>8. Waited(At(q, a + 1), attr.starvationTime)
    <3>1. ~(a + 1 <= a) /\ a + 1 <= a + b /\ a + 1 - a = 1
      OBVIOUS
    <3>2. At(q, a + 1) = m[1]
      BY <1>2, <2>3, <3>1 DEF At
    <3> QED BY <1>3, <1>5, <1>6, <3>2
  <2>9. a < a + b
    OBVIOUS
  <2> QED BY <1>1, <1>3, <1>4, <2>2, <2>3, <2>5, <2>6, <2>7, <2>8, <2>9
<1>7. CASE ~(m # <<>> /\ Waited(Head(m), attr.starvationTime))
  <2>1. l # <<>> /\ Waited(Head(l), attr.maxIdleTime)
        /\ r = [q EXCEPT !["low"] = Tail(l), !["med"] = Append(m, Head(l))]
    BY <1>1, <1>2, <1>7 DEF BumpTurn
  <2>2. r["low"] = Tail(l) /\ r["med"] = Append(m, Head(l)) /\ r["high"] = h /\ r \in [Priority -> Seq(Job)]
    BY <1>2, <1>3, <1>5, <2>1 DEF Priority
  <2>3. PICK a \in Nat, b \in Nat, c \in Nat \ {0} : a = Len(h) /\ b = Len(m) /\ c = Len(l)
    BY <1>3, <1>5, <2>1
  <2>4. Len(r["high"]) = a /\ Len(r["med"]) = b + 1 /\ Len(r["low"]) = c - 1
    <3>1. Len(Append(m, Head(l))) = Len(m) + 1 /\ Len(Tail(l)) = Len(l) - 1
      BY <1>3, <1>5, <2>1
    <3> QED BY <2>2, <2>3, <3>1
  <2>5. Before(r, "med") = a /\ Before(r, "low") = a + (b + 1) /\ QueuedJobs(r) = a + (b + 1) + (c - 1)
    BY <2>4 DEF Before, QueuedJobs
  <2>6. a + (b + 1) = a + b + 1 /\ a + b + 1 + (c - 1) = a + b + c
    OBVIOUS
  <2>7. ASSUME NEW g \in 1 .. a + b + c PROVE At(r, g) = At(q, g)
    <3>1. At(q, g) = IF g <= a THEN h[g] ELSE IF g <= a + b THEN m[g - a] ELSE l[g - (a + b)]
      BY <1>2, <2>3 DEF At
    <3>2. At(r, g) = IF g <= a THEN h[g]
                     ELSE IF g <= a + b + 1 THEN Append(m, Head(l))[g - a] ELSE Tail(l)[g - (a + b + 1)]
      BY <2>2, <2>4, <2>6 DEF At
    <3>3. CASE g <= a
      BY <3>1, <3>2, <3>3
    <3>4. CASE ~(g <= a) /\ g <= a + b
      <4>1. g - a \in 1 .. b /\ g <= a + b + 1
        BY <3>4
      <4>2. Append(m, Head(l))[g - a] = m[g - a]
        BY <1>3, <1>5, <2>1, <2>3, <4>1
      <4> QED BY <3>1, <3>2, <3>4, <4>1, <4>2
    <3>5. CASE g = a + b + 1
      <4>1. ~(g <= a) /\ g <= a + b + 1 /\ ~(g <= a + b) /\ g - (a + b) = 1 /\ g - a = b + 1
        BY <3>5
      <4>2. Append(m, Head(l))[b + 1] = l[1]
        BY <1>3, <1>5, <2>1, <2>3
      <4> QED BY <3>1, <3>2, <4>1, <4>2
    <3>6. CASE ~(g <= a + b + 1)
      <4>1. ~(g <= a) /\ ~(g <= a + b) /\ g - (a + b + 1) \in 1 .. c - 1 /\ g - (a + b + 1) + 1 = g - (a + b)
        BY <3>6
      <4>2. Tail(l)[g - (a + b + 1)] = l[g - (a + b)]
        BY <1>3, <1>5, <2>1, <2>3, <4>1
      <4> QED BY <3>1, <3>2, <3>6, <4>1, <4>2
    <3> QED BY <3>3, <3>4, <3>5, <3>6
  <2>8. Waited(At(q, a + b + 1), attr.maxIdleTime)
    <3>1. ~(a + b + 1 <= a) /\ ~(a + b + 1 <= a + b) /\ a + b + 1 - (a + b) = 1
      OBVIOUS
    <3>2. At(q, a + b + 1) = l[1]
      BY <1>2, <2>3, <3>1 DEF At
    <3> QED BY <1>3, <1>5, <2>1, <3>2
  <2>9. a + b < a + b + c
    OBVIOUS
  <2> QED BY <1>1, <1>3, <1>4, <2>2, <2>3, <2>5, <2>6, <2>7, <2>8, <2>9
<1> QED BY <1>6, <1>7

\* So a turn does not change where the loop ends.
LEMMA TurnKeepsEnd ==
  ASSUME NEW q \in [Priority -> Seq(Job)]
  PROVE  BumpTurn(q) \in [Priority -> Seq(Job)] /\ BumpPriority(BumpTurn(q)) = BumpPriority(q)
<1> SUFFICES ASSUME BumpTurn(q) # q
             PROVE  BumpTurn(q) \in [Priority -> Seq(Job)] /\ BumpPriority(BumpTurn(q)) = BumpPriority(q)
  OBVIOUS
<1>1. PICK r : r = BumpTurn(q)
  OBVIOUS
<1>2. PICK x, y : x = Before(BumpPriority(q), "med") /\ y = Before(BumpPriority(q), "low")
  OBVIOUS
<1>3. PICK a, b, c : /\ a = Before(q, "med") /\ b = Before(q, "low") /\ c = QueuedJobs(q)
  OBVIOUS
<1>4. /\ r \in [Priority -> Seq(Job)] /\ QueuedJobs(r) = c
      /\ \A g \in 1 .. c : At(r, g) = At(q, g)
      /\ \/ /\ a < b /\ Waited(At(q, a + 1), attr.starvationTime)
            /\ Before(r, "med") = a + 1 /\ Before(r, "low") = b
         \/ /\ b < c /\ Waited(At(q, b + 1), attr.maxIdleTime)
            /\ Before(r, "med") = a /\ Before(r, "low") = b + 1
  BY <1>1, <1>3, TurnMoves
<1>5. a \in Nat /\ b \in Nat /\ c \in Nat /\ a <= b /\ b <= c
  BY <1>3, BeforeSizes
<1>6. /\ y \in b .. c /\ x \in a .. y
      /\ \A g \in b + 1 .. y : Waited(At(q, g), attr.maxIdleTime)
      /\ y < c => ~Waited(At(q, y + 1), attr.maxIdleTime)
      /\ \A g \in a + 1 .. x : Waited(At(q, g), attr.starvationTime)
      /\ x < y => ~Waited(At(q, x + 1), attr.starvationTime)
  BY <1>2, <1>3, BumpBorders DEF Borders
<1>7. /\ \A g \in b + 1 .. y : Waited(At(r, g), attr.maxIdleTime)
      /\ y < c => ~Waited(At(r, y + 1), attr.maxIdleTime)
      /\ \A g \in a + 1 .. x : Waited(At(r, g), attr.starvationTime)
      /\ x < y => ~Waited(At(r, x + 1), attr.starvationTime)
  <2>1. /\ \A g \in b + 1 .. y : g \in 1 .. c
        /\ y < c => y + 1 \in 1 .. c
        /\ \A g \in a + 1 .. x : g \in 1 .. c
        /\ x < y => x + 1 \in 1 .. c
    BY <1>5, <1>6
  <2> QED BY <1>4, <1>6, <2>1
<1>8. Borders(r, x, y)
  <2>1. CASE /\ a < b /\ Waited(At(q, a + 1), attr.starvationTime)
             /\ Before(r, "med") = a + 1 /\ Before(r, "low") = b
    <3>1. x # a
      BY <1>5, <1>6, <2>1
    <3>2. x \in a + 1 .. y /\ \A g \in a + 1 + 1 .. x : g \in a + 1 .. x
      BY <1>5, <1>6, <3>1
    <3> QED BY <1>4, <1>6, <1>7, <2>1, <3>2 DEF Borders
  <2>2. CASE /\ b < c /\ Waited(At(q, b + 1), attr.maxIdleTime)
             /\ Before(r, "med") = a /\ Before(r, "low") = b + 1
    <3>1. y # b
      BY <1>5, <1>6, <2>2
    <3>2. y \in b + 1 .. c /\ \A g \in b + 1 + 1 .. y : g \in b + 1 .. y
      BY <1>5, <1>6, <3>1
    <3> QED BY <1>4, <1>6, <1>7, <2>2, <3>2 DEF Borders
  <2> QED BY <1>4, <2>1, <2>2
<1>9. Borders(r, Before(BumpPriority(r), "med"), Before(BumpPriority(r), "low"))
  BY <1>4, BumpBorders
<1>10. Before(BumpPriority(r), "med") = x /\ Before(BumpPriority(r), "low") = y
  BY <1>4, <1>8, <1>9, BordersUnique
<1>11. /\ BumpPriority(r) \in [Priority -> Seq(Job)] /\ QueuedJobs(BumpPriority(r)) = c
       /\ \A g \in 1 .. c : At(BumpPriority(r), g) = At(r, g)
  BY <1>4, BumpLine
<1>12. /\ BumpPriority(q) \in [Priority -> Seq(Job)] /\ QueuedJobs(BumpPriority(q)) = c
       /\ \A g \in 1 .. c : At(BumpPriority(q), g) = At(q, g)
  BY <1>3, BumpLine
<1>13. BumpPriority(r) = BumpPriority(q)
  BY <1>2, <1>4, <1>10, <1>11, <1>12, SameQueues
<1> QED BY <1>1, <1>4, <1>13

\* Where no turn moves anything BumpPriority does not either.
LEMMA NothingToBump ==
  ASSUME NEW q \in [Priority -> Seq(Job)], BumpTurn(q) = q
  PROVE  BumpPriority(q) = q
<1>1. PICK a, b, c : /\ a = Before(q, "med") /\ b = Before(q, "low") /\ c = QueuedJobs(q)
  OBVIOUS
<1>2. /\ a \in Nat /\ b \in Nat /\ c \in Nat /\ a <= b /\ b <= c
      /\ Len(q["high"]) = a /\ Len(q["med"]) = b - a /\ Len(q["low"]) = c - b
  BY <1>1, BeforeSizes
<1>3. /\ q["high"] \in Seq(Job) /\ q["med"] \in Seq(Job) /\ q["low"] \in Seq(Job)
  BY QueueElements DEF Priority
<1>4. ~(q["med"] # <<>> /\ Waited(Head(q["med"]), attr.starvationTime))
  <2> SUFFICES ASSUME q["med"] # <<>>, Waited(Head(q["med"]), attr.starvationTime) PROVE FALSE
    OBVIOUS
  <2>1. BumpTurn(q)["med"] = Tail(q["med"])
    BY DEF BumpTurn, Priority
  <2>2. PICK s \in Seq(Job) : s = q["med"] /\ s # <<>>
    BY <1>3
  <2>3. Len(Tail(s)) = Len(s) - 1 /\ Len(s) \in Nat
    BY <2>2, HeadTailProperties, LenProperties
  <2>4. Tail(s) = s
    BY <2>1, <2>2
  <2>5. Len(s) = Len(s) - 1
    BY <2>3, <2>4, Zenon
  <2> QED BY <2>3, <2>5
<1>5. ~(q["low"] # <<>> /\ Waited(Head(q["low"]), attr.maxIdleTime))
  <2> SUFFICES ASSUME q["low"] # <<>>, Waited(Head(q["low"]), attr.maxIdleTime) PROVE FALSE
    OBVIOUS
  <2>1. BumpTurn(q)["low"] = Tail(q["low"])
    BY <1>4 DEF BumpTurn, Priority
  <2>2. PICK s \in Seq(Job) : s = q["low"] /\ s # <<>>
    BY <1>3
  <2>3. Len(Tail(s)) = Len(s) - 1 /\ Len(s) \in Nat
    BY <2>2, HeadTailProperties, LenProperties
  <2>4. Tail(s) = s
    BY <2>1, <2>2
  <2>5. Len(s) = Len(s) - 1
    BY <2>3, <2>4, Zenon
  <2> QED BY <2>3, <2>5
<1>6. b < c => ~Waited(At(q, b + 1), attr.maxIdleTime)
  <2> SUFFICES ASSUME b < c PROVE ~Waited(At(q, b + 1), attr.maxIdleTime)
    OBVIOUS
  <2>1. At(q, b + 1) = q["low"][1]
    BY <1>1, AtMoving
  <2>2. q["low"] # <<>>
    BY <1>2, <1>3, EmptySeq
  <2> QED BY <1>5, <2>1, <2>2 DEF Head
<1>7. a < b => ~Waited(At(q, a + 1), attr.starvationTime)
  <2> SUFFICES ASSUME a < b PROVE ~Waited(At(q, a + 1), attr.starvationTime)
    OBVIOUS
  <2>1. At(q, a + 1) = Moving(q, 1)
    BY <1>1, AtMoving
  <2>2. 1 <= Len(q["med"]) /\ q["med"] # <<>>
    BY <1>2, <1>3, EmptySeq
  <2> QED BY <1>4, <2>1, <2>2 DEF Head, Moving
<1>8. Borders(q, a, b)
  <2>1. b \in b .. c /\ a \in a .. b /\ b + 1 .. b = {} /\ a + 1 .. a = {}
    BY <1>2
  <2> QED BY <1>1, <1>6, <1>7, <2>1 DEF Borders
<1>9. Before(BumpPriority(q), "med") = a /\ Before(BumpPriority(q), "low") = b
  BY <1>8, BumpBorders, BordersUnique
<1>10. /\ BumpPriority(q) \in [Priority -> Seq(Job)] /\ QueuedJobs(BumpPriority(q)) = QueuedJobs(q)
       /\ \A g \in 1 .. QueuedJobs(q) : At(BumpPriority(q), g) = At(q, g)
  BY BumpLine
<1> QED BY <1>1, <1>9, <1>10, SameQueues

\* g is a run of the loop from q over m turns.
LoopRun(g, q, m) == g = [k \in 0 .. m |-> IF k = 0 THEN q ELSE BumpTurn(g[k - 1])]

LEMMA LoopRunExists ==
  ASSUME NEW q, NEW m \in Nat
  PROVE  \E g : LoopRun(g, q, m)
<1> DEFINE S == {n \in Nat : ~ \E g : LoopRun(g, q, n)}
<1>1. ASSUME S # {} PROVE FALSE
  <2>1. PICK n \in S : \A y \in S : n <= y
    BY <1>1, LeastNumber
  <2>2. n # 0
    <3>1. LoopRun([k \in 0 .. 0 |-> q], q, 0)
      BY DEF LoopRun
    <3> QED BY <3>1, <2>1
  <2>3. PICK g : LoopRun(g, q, n - 1)
    BY <2>1, <2>2
  <2>4. LoopRun([k \in 0 .. n |-> IF k = n THEN BumpTurn(g[n - 1]) ELSE g[k]], q, n)
    BY <2>1, <2>2, <2>3 DEF LoopRun
  <2> QED BY <2>4, <2>1
<1> QED BY <1>1

LEMMA LoopRunDefined ==
  ASSUME NEW q, NEW m \in Nat
  PROVE  LET f[k \in 0 .. m] == IF k = 0 THEN q ELSE BumpTurn(f[k - 1]) IN LoopRun(f, q, m)
<1> DEFINE f[k \in 0 .. m] == IF k = 0 THEN q ELSE BumpTurn(f[k - 1])
<1>1. LoopRun(f, q, m)
  BY LoopRunExists DEF LoopRun
<1> QED BY <1>1

\* What is left to do: a job of lowJobQ may move twice.
ToBump(q) == 2 * (QueuedJobs(q) - Before(q, "low")) + (Before(q, "low") - Before(q, "med"))

LEMMA LoopInvariant ==
  ASSUME NEW q \in [Priority -> Seq(Job)], NEW m \in Nat, NEW g, LoopRun(g, q, m)
  PROVE  \A k \in 0 .. m :
           /\ g[k] \in [Priority -> Seq(Job)] /\ BumpPriority(g[k]) = BumpPriority(q)
           /\ BumpTurn(g[k]) = g[k] \/ ToBump(g[k]) = ToBump(q) - k
<1> DEFINE P(k) == /\ g[k] \in [Priority -> Seq(Job)] /\ BumpPriority(g[k]) = BumpPriority(q)
                   /\ BumpTurn(g[k]) = g[k] \/ ToBump(g[k]) = ToBump(q) - k
           S == {k \in 0 .. m : ~P(k)}
<1>0. \A k \in 0 .. m : g[k] = IF k = 0 THEN q ELSE BumpTurn(g[k - 1])
  BY DEF LoopRun
<1>a. ASSUME NEW r \in [Priority -> Seq(Job)] PROVE ToBump(r) \in Nat
  <2>1. PICK a, b, c : a = Before(r, "med") /\ b = Before(r, "low") /\ c = QueuedJobs(r)
    OBVIOUS
  <2>2. a \in Nat /\ b \in Nat /\ c \in Nat /\ a <= b /\ b <= c
    BY <2>1, BeforeSizes
  <2> QED BY <2>1, <2>2 DEF ToBump
<1>1. ASSUME S # {} PROVE FALSE
  <2>1. PICK n \in S : \A y \in S : n <= y
    <3>1. S \subseteq Nat
      OBVIOUS
    <3> HIDE DEF S
    <3> QED BY <1>1, <3>1, LeastNumber
  <2>2. n # 0
    <3>1. g[0] = q /\ 0 \in 0 .. m
      BY <1>0
    <3>2. ToBump(q) = ToBump(q) - 0
      BY <1>a
    <3>3. P(0)
      BY <3>1, <3>2
    <3> QED BY <2>1, <3>3
  <2>3. n - 1 \in 0 .. m /\ n \in 0 .. m /\ n - 1 \notin S
    BY <2>1, <2>2
  <2>4. P(n - 1)
    BY <2>3
  <2>5. PICK r : r = g[n - 1]
    OBVIOUS
  <2>6. g[n] = BumpTurn(r)
    BY <1>0, <2>2, <2>3, <2>5
  <2>7. r \in [Priority -> Seq(Job)] /\ BumpPriority(r) = BumpPriority(q)
    BY <2>4, <2>5
  <2>8. g[n] \in [Priority -> Seq(Job)] /\ BumpPriority(g[n]) = BumpPriority(q)
    BY <2>6, <2>7, TurnKeepsEnd
  <2>9. CASE BumpTurn(r) = r
    <3>1. P(n)
      BY <2>6, <2>8, <2>9
    <3> QED BY <2>1, <3>1
  <2>10. CASE BumpTurn(r) # r
    <3>1. ToBump(r) = ToBump(q) - (n - 1)
      BY <2>4, <2>5, <2>10
    <3>2. PICK a, b, c : a = Before(r, "med") /\ b = Before(r, "low") /\ c = QueuedJobs(r)
      OBVIOUS
    <3>3. a \in Nat /\ b \in Nat /\ c \in Nat
      BY <2>7, <3>2, BeforeSizes
    <3>4. /\ QueuedJobs(BumpTurn(r)) = c
          /\ \/ Before(BumpTurn(r), "med") = a + 1 /\ Before(BumpTurn(r), "low") = b
             \/ Before(BumpTurn(r), "med") = a /\ Before(BumpTurn(r), "low") = b + 1
      BY <2>7, <2>10, <3>2, TurnMoves
    <3>5. ToBump(BumpTurn(r)) = ToBump(r) - 1
      <4>1. ToBump(r) = 2 * (c - b) + (b - a)
        BY <3>2 DEF ToBump
      <4>2. CASE Before(BumpTurn(r), "med") = a + 1 /\ Before(BumpTurn(r), "low") = b
        <5>1. ToBump(BumpTurn(r)) = 2 * (c - b) + (b - (a + 1))
          BY <3>4, <4>2 DEF ToBump
        <5> QED BY <3>3, <4>1, <5>1
      <4>3. CASE Before(BumpTurn(r), "med") = a /\ Before(BumpTurn(r), "low") = b + 1
        <5>1. PICK x : x = Before(BumpTurn(r), "low")
          OBVIOUS
        <5>2. ToBump(BumpTurn(r)) = 2 * (c - x) + (x - a) /\ x = b + 1
          BY <3>4, <4>3, <5>1 DEF ToBump
        <5> QED BY <3>3, <4>1, <5>2
      <4> QED BY <3>4, <4>2, <4>3
    <3>6. ToBump(q) \in Nat /\ n \in Nat
      BY <1>a, <2>3
    <3>7. ToBump(g[n]) = ToBump(q) - n
      BY <2>6, <3>1, <3>5, <3>6
    <3>8. P(n)
      BY <2>8, <3>7
    <3> QED BY <2>1, <3>8
  <2> QED BY <2>9, <2>10
<1>2. \A k \in 0 .. m : P(k)
  BY <1>1
<1> QED BY <1>2

\* The closed form of BumpPriority is what the loop computes, and the loop ends.
LEMMA ClosedForm ==
  ASSUME jobQ \in [Priority -> Seq(Job)]
  PROVE  BumpIsLoop
<1> DEFINE n == 2 * QueuedJobs(jobQ)
           f[k \in 0 .. n] == IF k = 0 THEN jobQ ELSE BumpTurn(f[k - 1])
<1>1. n \in Nat /\ n \in 0 .. n
  <2>1. QueuedJobs(jobQ) \in Nat
    BY QueueSizes
  <2>2. \A w \in Nat : 2 * w \in Nat /\ 2 * w \in 0 .. 2 * w
    OBVIOUS
  <2> QED BY <2>1, <2>2
<1>2. LoopRun(f, jobQ, n)
  <2> HIDE DEF n
  <2> QED BY <1>1, LoopRunDefined
<1> HIDE DEF f
<1>3. /\ f[n] \in [Priority -> Seq(Job)] /\ BumpPriority(f[n]) = BumpPriority(jobQ)
      /\ BumpTurn(f[n]) = f[n] \/ ToBump(f[n]) = ToBump(jobQ) - n
  <2> HIDE DEF n
  <2> QED BY <1>1, <1>2, LoopInvariant
<1>4. BumpTurn(f[n]) = f[n]
  <2> SUFFICES ASSUME BumpTurn(f[n]) # f[n] PROVE FALSE
    OBVIOUS
  <2>1. PICK r : r = f[n]
    OBVIOUS
  <2>2. PICK a, b, c, u, v, w :
          /\ a = Before(r, "med") /\ b = Before(r, "low") /\ c = QueuedJobs(r)
          /\ u = Before(jobQ, "med") /\ v = Before(jobQ, "low") /\ w = QueuedJobs(jobQ)
    OBVIOUS
  <2>3. a \in Nat /\ b \in Nat /\ c \in Nat /\ a <= b /\ b <= c
    BY <1>3, <2>1, <2>2, BeforeSizes
  <2>4. u \in Nat /\ v \in Nat /\ w \in Nat /\ u <= v /\ v <= w
    BY <2>2, BeforeSizes
  <2>5. ToBump(r) = 2 * (c - b) + (b - a) /\ ToBump(jobQ) = 2 * (w - v) + (v - u)
    BY <2>2 DEF ToBump
  <2>6. b = c /\ a = b
    <3>1. n = 2 * w /\ ToBump(r) = ToBump(jobQ) - n
      BY <1>3, <2>1, <2>2
    <3> HIDE DEF n
    <3> QED BY <2>3, <2>4, <2>5, <3>1
  <2>7. a < b \/ b < c
    BY <1>3, <2>1, <2>2, TurnMoves
  <2> QED BY <2>3, <2>6, <2>7
<1>5. BumpPriority(jobQ) = f[n]
  BY <1>3, <1>4, NothingToBump
<1> QED BY <1>4, <1>5 DEF BumpIsLoop, f, n

\* Jobs of one priority start in the order in which they were added, for any number of
\* workers, clients, jobs and attributes: whatever BumpPriority raises, and whatever
\* ThreadPoolRemove takes out of the middle of a queue, a job that waits is younger
\* than the jobs of its priority that run, and than those that will be taken first.
\* What BumpPriority raises is what its loop does (ThreadPool.c, BumpPriority).
THEOREM QueuesStayFair == Spec => []QueuesFair
<1>1. Init => Fair(jobQ, wjob, prio)
  <2>1. Init => \A p \in Priority : jobQ[p] = <<>>
    BY DEF Init
  <2> QED BY <2>1, NoJobsFair
<1>2. IInv /\ Fair(jobQ, wjob, prio) /\ [Next]_vars => Fair(jobQ, wjob, prio)'
  BY FairStep DEF Fair, InTurn, Raised, Younger
<1>3. IInv /\ Fair(jobQ, wjob, prio) => QueuesFair
  BY FairIsFifo, ClosedForm DEF IInv, TypeOK, QueuesFair
<1> QED BY <1>1, <1>2, <1>3, PoolInvariant, PTL DEF Spec
=============================================================================
