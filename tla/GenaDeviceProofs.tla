--------------------------- MODULE GenaDeviceProofs ---------------------------
(***************************************************************************)
(* The counts of the device's eventing side and what a subscriber sees,    *)
(* for any number of subscriptions, events and sending threads and any     *)
(* limits of the queues.                                                   *)
(***************************************************************************)
EXTENDS GenaDevice, FiniteSetTheorems, FunctionTheorems, SequenceTheorems, WellFoundedInduction, TLAPS

Queue(s) == sub[s].outgoing

\* A queue holds events in the order they were made; a subscription that is not in
\* the list, or not yet active, has none.
Queues ==
  \A s \in Sid :
    /\ s \notin subscriptionList => sub[s] = NoSub
    /\ ~sub[s].active => Queue(s) = <<>>
    /\ \A i \in DOMAIN Queue(s) : Queue(s)[i] <= lastEvent
    /\ \A i, j \in DOMAIN Queue(s) : i < j => Queue(s)[i] < Queue(s)[j]

\* SIDs and events that were not made yet occur nowhere.
Numbered ==
  /\ \A s \in subscriptionList : s <= lastSid
  /\ \A s \in Sid, e \in Event : <<s, e>> \in pool \cup sending => s <= lastSid /\ e <= lastEvent
  /\ \A s \in Sid : s > lastSid => sent[s] = <<>>
  /\ \A s \in Sid : \A i \in DOMAIN sent[s] : sent[s][i][2] <= lastEvent
  /\ \A e \in Event : e > lastEvent => refs[e] = 0
  /\ ~registered => subscriptionList = {}

\* A subscription has one job, for the head of its queue.
JobsRight ==
  /\ pool \cap sending = {}
  /\ \A s \in Sid : \A e, f \in Event : {<<s, e>>, <<s, f>>} \subseteq pool \cup sending => e = f
  /\ \A s \in subscriptionList : \A e \in Event :
       <<s, e>> \in pool \cup sending => Queue(s) # <<>> /\ Queue(s)[1] = e

\* The structs that point to an event: those that wait in a queue, are in the pool
\* or are being sent.
InQueue == {j \in Job : j[1] \in subscriptionList /\ j[2] \in Waiting(Queue(j[1]))}
Live == InQueue \cup pool \cup sending
LiveOf(L, e) == {s \in Sid : <<s, e>> \in L}
RefsRight ==
  \A e \in Event : /\ refs[e] >= Cardinality(LiveOf(Live, e))
                   /\ faults = {} => refs[e] = Cardinality(LiveOf(Live, e))

\* The SEQ of the n-th NOTIFY of a subscription.
SeqKey(n) == IF n = 1 THEN 0 ELSE 1 + ((n - 2) % KeyMax)

\* The event key of a subscription is the one of the NOTIFY being sent, or of the
\* next; what is queued is newer than what was sent.
SentRight ==
  \A s \in subscriptionList : LET n == Len(sent[s]) IN
    /\ (\E e \in Event : <<s, e>> \in sending) =>
         n > 0 /\ sub[s].ToSendEventKey = SeqKey(n) /\ Queue(s) # <<>> /\ sent[s][n][2] = Queue(s)[1]
    /\ ~(\E e \in Event : <<s, e>> \in sending) =>
         /\ sub[s].ToSendEventKey = SeqKey(n + 1)
         /\ n > 0 => \A i \in DOMAIN Queue(s) : sent[s][n][2] < Queue(s)[i]

IInv == /\ TypeOK /\ TotalExact /\ Queues /\ Numbered /\ JobsRight /\ RefsRight
        /\ SentRight /\ SentInOrder /\ faults \subseteq Faults

-----------------------------------------------------------------------------
(* Event keys *)

LEMMA ModStep ==
  ASSUME NEW m \in Nat, NEW k \in Nat \ {0}
  PROVE  /\ m % k \in 0 .. k - 1
         /\ (m + 1) % k = IF m % k = k - 1 THEN 0 ELSE (m % k) + 1
<1> DEFINE r == m % k
           q == m \div k
<1>1. r \in 0 .. k - 1 /\ q \in Nat /\ m = k * q + r
  OBVIOUS
<1>2. ASSUME NEW x \in Nat, NEW y \in Nat, NEW z \in 0 .. k - 1, x = k * y + z
      PROVE  x % k = z
  BY <1>2
<1> HIDE DEF q
<1>3. CASE r = k - 1
  <2>1. m + 1 = k * (q + 1) + 0 /\ m + 1 \in Nat /\ q + 1 \in Nat /\ 0 \in 0 .. k - 1
    BY <1>1, <1>3
  <2>2. (m + 1) % k = 0
    BY <1>2, <2>1, Zenon
  <2> QED BY <1>1, <1>3, <2>2
<1>4. CASE r # k - 1
  <2>1. m + 1 = k * q + (r + 1) /\ r + 1 \in 0 .. k - 1 /\ m + 1 \in Nat
    BY <1>1, <1>4
  <2>2. (m + 1) % k = r + 1
    BY <1>1, <1>2, <2>1, Zenon
  <2> QED BY <1>1, <1>4, <2>2
<1> QED BY <1>3, <1>4

LEMMA KeyStep ==
  ASSUME NEW n \in Nat \ {0}
  PROVE  /\ SeqKey(n) \in 0 .. KeyMax
         /\ NextKey(SeqKey(n)) = SeqKey(n + 1)
         /\ SeqKey(1) = 0
<1>1. KeyMax \in Nat \ {0}
  BY GenaConstants
<1>2. CASE n = 1
  <2>1. 0 % KeyMax = 0
    BY <1>1
  <2> QED BY <1>1, <1>2, <2>1 DEF SeqKey, NextKey
<1>3. CASE n # 1
  <2>1. n - 2 \in Nat /\ (n - 2) + 1 = (n + 1) - 2
    BY <1>3
  <2>2. /\ (n - 2) % KeyMax \in 0 .. KeyMax - 1
        /\ ((n + 1) - 2) % KeyMax = IF (n - 2) % KeyMax = KeyMax - 1 THEN 0 ELSE ((n - 2) % KeyMax) + 1
    BY <1>1, <2>1, ModStep
  <2> QED BY <1>1, <1>3, <2>2 DEF SeqKey, NextKey
<1> QED BY <1>2, <1>3

-----------------------------------------------------------------------------
(* Queues *)

\* Events in the order they were made, none after event m.
Ordered(q, m) ==
  /\ q \in Seq(Event)
  /\ \A i \in 1 .. Len(q) : q[i] <= m
  /\ \A i, j \in 1 .. Len(q) : i < j => q[i] < q[j]

LEMMA QueueAppend ==
  ASSUME NEW q, NEW m \in Nat, NEW n \in Event, Ordered(q, m), m < n
  PROVE  /\ Ordered(Append(q, n), n)
         /\ Len(Append(q, n)) = Len(q) + 1 /\ Append(q, n) # <<>>
         /\ \A i \in 1 .. Len(q) : Append(q, n)[i] = q[i]
         /\ Append(q, n)[Len(q) + 1] = n
         /\ Waiting(Append(q, n)) = IF q = <<>> THEN {} ELSE Waiting(q) \cup {n}
         /\ Append(q, n)[1] = IF q = <<>> THEN n ELSE q[1]
<1>1. q \in Seq(Event) /\ Len(q) \in Nat /\ m \in Int /\ n \in Int
  BY LenProperties DEF Ordered, Event
<1>2. /\ Append(q, n) \in Seq(Event) /\ Append(q, n) # <<>>
      /\ Len(Append(q, n)) = Len(q) + 1
      /\ \A i \in 1 .. Len(q) : Append(q, n)[i] = q[i]
      /\ Append(q, n)[Len(q) + 1] = n
  BY <1>1, AppendProperties
<1>3. \A i \in 1 .. Len(q) : q[i] \in Int /\ q[i] < n
  <2>1. \A i \in 1 .. Len(q) : q[i] \in Event
    BY <1>1
  <2> QED BY <1>1, <2>1 DEF Ordered, Event
<1>4. Ordered(Append(q, n), n)
  <2> DEFINE r == Append(q, n)
  <2>1. \A i \in 1 .. Len(r) : i \in 1 .. Len(q) \/ i = Len(q) + 1
    BY <1>1, <1>2
  <2>2. \A i \in 1 .. Len(r) : r[i] <= n
    BY <1>1, <1>2, <1>3, <2>1
  <2>3. ASSUME NEW i \in 1 .. Len(r), NEW j \in 1 .. Len(r), i < j
        PROVE  r[i] < r[j]
    <3>1. i \in 1 .. Len(q)
      BY <1>1, <1>2, <2>3
    <3>2. CASE j \in 1 .. Len(q)
      BY <1>2, <2>3, <3>1, <3>2 DEF Ordered
    <3>3. CASE j = Len(q) + 1
      BY <1>2, <1>3, <3>1, <3>3
    <3> QED BY <2>1, <3>2, <3>3
  <2> HIDE DEF r
  <2>4. r \in Seq(Event)
    BY <1>2 DEF r
  <2>5. Ordered(r, n)
    BY <2>2, <2>3, <2>4 DEF Ordered
  <2> QED BY <2>5 DEF r
<1>5. q = <<>> <=> Len(q) = 0
  BY <1>1, EmptySeq
<1>6. Waiting(Append(q, n)) = IF q = <<>> THEN {} ELSE Waiting(q) \cup {n}
  <2>1. CASE q = <<>>
    BY <1>1, <1>2, <1>5, <2>1 DEF Waiting
  <2>2. CASE q # <<>>
    <3>1. Len(q) >= 1
      BY <1>1, <1>5, <2>2
    <3> DEFINE a == Append(q, n)
    <3>2. \A i \in 2 .. Len(q) : i \in 2 .. Len(a) /\ a[i] = q[i]
      BY <1>1, <1>2
    <3>3. Len(q) + 1 \in 2 .. Len(a) /\ a[Len(q) + 1] = n
      BY <1>1, <1>2, <3>1
    <3>4. \A i \in 2 .. Len(a) : i \in 2 .. Len(q) \/ i = Len(q) + 1
      BY <1>1, <1>2
    <3> HIDE DEF a
    <3>5. Waiting(a) = Waiting(q) \cup {n}
      BY <3>2, <3>3, <3>4 DEF Waiting
    <3> QED BY <2>2, <3>5 DEF a
  <2> QED BY <2>1, <2>2
<1>7. Append(q, n)[1] = IF q = <<>> THEN n ELSE q[1]
  BY <1>1, <1>2, <1>5
<1> QED BY <1>2, <1>4, <1>6, <1>7

LEMMA QueueTail ==
  ASSUME NEW q, NEW m \in Nat, Ordered(q, m), q # <<>>
  PROVE  /\ Ordered(Tail(q), m)
         /\ Waiting(q) = Waiting(Tail(q)) \cup {Tail(q)[i] : i \in DOMAIN Tail(q) \cap {1}}
         /\ \A i \in DOMAIN Tail(q) : q[1] < Tail(q)[i]
         /\ Tail(q) # <<>> => Tail(q)[1] \notin Waiting(Tail(q)) /\ Tail(q)[1] \in Event
         /\ q[1] \notin Waiting(q) /\ q[1] \in Event
<1> DEFINE r == Tail(q)
<1>1. q \in Seq(Event) /\ Len(q) \in Nat /\ Len(q) # 0
  BY LenProperties, EmptySeq DEF Ordered
<1>2. /\ r \in Seq(Event) /\ Len(r) = Len(q) - 1
      /\ \A i \in 1 .. Len(r) : r[i] = q[i + 1]
  BY <1>1, HeadTailProperties
<1>3. DOMAIN r = 1 .. Len(r) /\ Len(r) \in Nat
  BY <1>2, LenProperties
<1>4. \A i \in 1 .. Len(q) : q[i] \in Int /\ q[i] \in Event
  <2>1. \A i \in 1 .. Len(q) : q[i] \in Event
    BY <1>1
  <2> QED BY <2>1 DEF Event
<1> HIDE DEF r
<1>5. Ordered(r, m)
  <2>1. \A i \in 1 .. Len(r) : i + 1 \in 1 .. Len(q)
    BY <1>1, <1>2
  <2>2. \A i, j \in 1 .. Len(r) : i < j => i + 1 < j + 1
    BY <1>3
  <2> QED BY <1>1, <1>2, <1>3, <2>1, <2>2 DEF Ordered
<1>6. \A i \in DOMAIN r : q[1] < r[i]
  BY <1>1, <1>2, <1>3 DEF Ordered
<1>7. Waiting(q) = Waiting(r) \cup {r[i] : i \in DOMAIN r \cap {1}}
  <2>1. \A i \in 2 .. Len(q) : i - 1 \in 1 .. Len(r) /\ r[i - 1] = q[i] /\ (i - 1 = 1 \/ i - 1 \in 2 .. Len(r))
    BY <1>1, <1>2
  <2>2. \A i \in 1 .. Len(r) : i + 1 \in 2 .. Len(q) /\ r[i] = q[i + 1]
    BY <1>1, <1>2
  <2>3. ASSUME NEW x \in Waiting(q) PROVE x \in Waiting(r) \cup {r[i] : i \in DOMAIN r \cap {1}}
    <3>1. PICK i \in 2 .. Len(q) : x = q[i]
      BY <2>3 DEF Waiting
    <3>2. x = r[i - 1] /\ i - 1 \in DOMAIN r /\ (i - 1 = 1 \/ i - 1 \in 2 .. Len(r))
      BY <1>3, <2>1, <3>1
    <3> QED BY <3>2 DEF Waiting
  <2>4. ASSUME NEW x \in Waiting(r) \cup {r[i] : i \in DOMAIN r \cap {1}} PROVE x \in Waiting(q)
    <3>1. PICK i \in 1 .. Len(r) : x = r[i]
      BY <1>3, <2>4 DEF Waiting
    <3> QED BY <2>2, <3>1 DEF Waiting
  <2> QED BY <2>3, <2>4
<1>8. r # <<>> => r[1] \notin Waiting(r) /\ r[1] \in Event
  <2> SUFFICES ASSUME r # <<>> PROVE r[1] \notin Waiting(r) /\ r[1] \in Event
    OBVIOUS
  <2>1. Len(r) # 0
    BY <1>2, EmptySeq
  <2>2. \A i \in 1 .. Len(r) : r[i] \in Int
    <3>1. \A i \in 1 .. Len(r) : r[i] \in Event
      BY <1>2
    <3> QED BY <3>1 DEF Event
  <2>3. \A i \in 2 .. Len(r) : r[1] < r[i]
    BY <1>3, <1>5, <2>1 DEF Ordered
  <2>4. r[1] \in Event
    BY <1>2, <1>3, <2>1, ElementOfSeq
  <2> QED BY <1>3, <2>1, <2>2, <2>3, <2>4 DEF Waiting
<1>9. q[1] \notin Waiting(q) /\ q[1] \in Event
  <2>1. \A i \in 2 .. Len(q) : q[1] < q[i]
    BY <1>1 DEF Ordered
  <2> QED BY <1>1, <1>4, <2>1 DEF Waiting
<1> QED BY <1>5, <1>6, <1>7, <1>8, <1>9 DEF r

\* A set of positions that reaches from 2 upwards without gaps is an interval.
LEMMA PrefixIsInterval ==
  ASSUME NEW L \in Nat, NEW D \in SUBSET (2 .. L), \A i \in D : \A h \in 2 .. i : h \in D
  PROVE  \E d \in Nat : D = 2 .. (d + 1) /\ Cardinality(D) = d
<1> DEFINE T == {n \in Nat : n + 1 \notin D /\ n >= 1}
<1>1. L + 1 \in T
  OBVIOUS
<1>2. PICK m \in T : \A y \in T : ~(<<y, m>> \in OpToRel(<, Nat))
  <2>1. T \subseteq Nat /\ T # {}
    BY <1>1
  <2> HIDE DEF T
  <2> QED BY <2>1, NatLessThanWellFounded, WFMin
<1>3. \A y \in T : ~(y < m)
  BY <1>2 DEF OpToRel
<1>4. m \in Nat /\ m >= 1 /\ m + 1 \notin D
  OBVIOUS
<1>5. \A i \in 2 .. m : i \in D
  <2> SUFFICES ASSUME NEW i \in 2 .. m, i \notin D PROVE FALSE
    OBVIOUS
  <2>1. i - 1 \in Nat /\ i - 1 >= 1 /\ (i - 1) + 1 = i /\ i - 1 < m
    BY <1>4
  <2>2. i - 1 \in T
    BY <2>1
  <2> QED BY <1>3, <2>1, <2>2
<1>6. \A i \in D : i \in 2 .. m
  <2> SUFFICES ASSUME NEW i \in D, i \notin 2 .. m PROVE FALSE
    OBVIOUS
  <2>1. m + 1 \in 2 .. i
    BY <1>4
  <2> QED BY <1>4, <2>1
<1>7. D = 2 .. m
  BY <1>5, <1>6
<1>8. Cardinality(2 .. m) = m - 1
  BY <1>4, FS_Interval
<1>9. m - 1 \in Nat /\ m = (m - 1) + 1
  BY <1>4
<1> HIDE DEF T
<1>10. D = 2 .. ((m - 1) + 1) /\ Cardinality(D) = m - 1
  BY <1>7, <1>8, <1>9
<1> QED BY <1>9, <1>10

\* What maybeDiscardEvents leaves of a queue: its head, and the newest of the rest.
LEMMA QueuePruned ==
  ASSUME NEW q, NEW m \in Nat, Ordered(q, m)
  PROVE  /\ Ordered(Pruned(q), m)
         /\ Pruned(q) = <<>> <=> q = <<>>
         /\ q # <<>> => Pruned(q)[1] = q[1]
         /\ \A i \in 1 .. Len(Pruned(q)) : \E j \in 1 .. Len(q) : Pruned(q)[i] = q[j]
         /\ {q[i] : i \in Discarded(q)} \subseteq Waiting(q)
         /\ Waiting(Pruned(q)) = Waiting(q) \ {q[i] : i \in Discarded(q)}
<1> DEFINE D == Discarded(q)
           p == Pruned(q)
           L == Len(q)
<1>1. q \in Seq(Event) /\ L \in Nat /\ DOMAIN q = 1 .. L
  BY LenProperties DEF Ordered
<1>2. D \in SUBSET (2 .. L) /\ \A i \in D : \A h \in 2 .. i : h \in D
  BY <1>1 DEF Discarded
<1>3. PICK d \in Nat : D = 2 .. (d + 1) /\ Cardinality(D) = d
  BY <1>1, <1>2, PrefixIsInterval
<1>4. d = 0 \/ d + 1 <= L
  <2>1. d # 0 => d + 1 \in 2 .. (d + 1)
    OBVIOUS
  <2> QED BY <1>1, <1>2, <1>3, <2>1
<1>5. p = [i \in 1 .. L - d |-> IF i = 1 THEN q[1] ELSE q[i + d]]
  BY <1>3 DEF Pruned
<1> HIDE DEF D, p, L
<1>6. L - d \in Nat /\ (L - d = 0 <=> L = 0)
  BY <1>1, <1>4
<1>7. \A i \in 1 .. L - d : i + d \in 1 .. L /\ (i = 1 => 1 \in 1 .. L)
  BY <1>1, <1>6
<1>8. \A i \in 1 .. L : q[i] \in Event /\ q[i] \in Int
  <2>1. \A i \in 1 .. L : q[i] \in Event
    BY <1>1 DEF L
  <2> QED BY <2>1 DEF Event
<1>9. p \in Seq(Event) /\ Len(p) = L - d
  <2>1. p \in [1 .. L - d -> Event]
    BY <1>5, <1>7, <1>8
  <2> QED BY <1>6, <2>1
<1>10. \A i \in 1 .. L - d : p[i] = q[IF i = 1 THEN 1 ELSE i + d]
  BY <1>5
<1>11. \A i \in 1 .. Len(p) : \E j \in 1 .. L : p[i] = q[j]
  BY <1>7, <1>9, <1>10
<1>12. Ordered(p, m)
  <2>1. \A i, j \in 1 .. L : i < j => q[i] < q[j]
    BY DEF Ordered, L
  <2>2. \A i \in 1 .. L : q[i] <= m
    BY DEF Ordered, L
  <2>3. \A i \in 1 .. L - d : p[i] <= m
    BY <1>9, <1>11, <2>2
  <2>4. ASSUME NEW i \in 1 .. L - d, NEW j \in 1 .. L - d, i < j PROVE p[i] < p[j]
    <3>1. j # 1 /\ p[j] = q[j + d] /\ j + d \in 1 .. L
      BY <1>6, <1>7, <1>10, <2>4
    <3>2. CASE i = 1
      <4>1. 1 < j + d /\ 1 \in 1 .. L
        BY <1>7, <2>4, <3>2
      <4> QED BY <1>10, <2>1, <3>1, <3>2, <4>1
    <3>3. CASE i # 1
      <4>1. i + d < j + d /\ i + d \in 1 .. L
        BY <1>7, <2>4
      <4> QED BY <1>10, <2>1, <3>1, <3>3, <4>1
    <3> QED BY <3>2, <3>3
  <2> QED BY <1>9, <2>3, <2>4 DEF Ordered
<1>13. p = <<>> <=> q = <<>>
  <2>1. p = <<>> <=> Len(p) = 0
    BY <1>9, EmptySeq
  <2>2. q = <<>> <=> L = 0
    BY <1>1, EmptySeq DEF L
  <2> QED BY <1>6, <1>9, <2>1, <2>2
<1>14. q # <<>> => p[1] = q[1]
  <2>1. q = <<>> <=> L = 0
    BY <1>1, EmptySeq DEF L
  <2> QED BY <1>6, <1>10, <2>1
<1>15. {q[i] : i \in D} \subseteq Waiting(q)
  BY <1>2 DEF Waiting, L
<1>16. Waiting(p) = Waiting(q) \ {q[i] : i \in D}
  <2>1. ASSUME NEW x \in Waiting(p) PROVE x \in Waiting(q) /\ x \notin {q[i] : i \in D}
    <3>1. PICK i \in 2 .. Len(p) : x = p[i]
      BY <2>1 DEF Waiting
    <3>2. i + d \in 2 .. L /\ x = q[i + d] /\ i + d \notin D
      <4>1. i \in 1 .. L - d /\ i # 1 /\ i + d \in 2 .. L /\ i + d \notin 2 .. (d + 1)
        BY <1>1, <1>9, <3>1
      <4> QED BY <1>3, <1>10, <3>1, <4>1
    <3>3. \A j \in 2 .. L : q[j] = q[i + d] => j = i + d
      <4>1. \A a, b \in 1 .. L : a < b => q[a] < q[b]
        BY DEF Ordered, L
      <4>2. SUFFICES ASSUME NEW j \in 2 .. L, q[j] = q[i + d], j # i + d PROVE FALSE
        OBVIOUS
      <4>3. j \in 1 .. L /\ i + d \in 1 .. L /\ (j < i + d \/ i + d < j)
        BY <3>2, <4>2
      <4> QED BY <1>8, <4>1, <4>2, <4>3
    <3> QED BY <1>2, <3>2, <3>3 DEF Waiting, L
  <2>2. ASSUME NEW x \in Waiting(q), x \notin {q[i] : i \in D} PROVE x \in Waiting(p)
    <3>1. PICK i \in 2 .. L : x = q[i]
      BY <2>2 DEF Waiting, L
    <3>2. i \notin D
      BY <2>2, <3>1
    <3>3. i - d \in 2 .. Len(p) /\ (i - d) + d = i /\ i - d # 1
      <4>1. i \notin 2 .. (d + 1)
        BY <1>3, <3>2
      <4> QED BY <1>1, <1>9, <3>1, <4>1
    <3>4. p[i - d] = q[i]
      BY <1>9, <1>10, <3>3
    <3> QED BY <3>1, <3>3, <3>4 DEF Waiting
  <2> QED BY <2>1, <2>2
<1> QED BY <1>11, <1>12, <1>13, <1>14, <1>15, <1>16 DEF p, D, L

-----------------------------------------------------------------------------
(* Reference counts *)

LEMMA Finite ==
  /\ IsFiniteSet(Sid) /\ IsFiniteSet(Event)
  /\ \A S \in SUBSET Sid : IsFiniteSet(S) /\ Cardinality(S) \in Nat
  /\ \A L, e : LiveOf(L, e) \in SUBSET Sid
<1>1. IsFiniteSet(Sid) /\ IsFiniteSet(Event)
  BY GenaConstants, FS_Interval DEF Sid, Event
<1>2. \A S \in SUBSET Sid : IsFiniteSet(S)
  BY <1>1, FS_Subset
<1>3. \A S \in SUBSET Sid : Cardinality(S) \in Nat
  BY <1>2, FS_CardinalityType
<1> QED BY <1>1, <1>2, <1>3 DEF LiveOf

\* free_notify_struct for structs that are live leaves counts that cover the rest.
LEMMA ReleasedRefs ==
  ASSUME TypeOK, RefsRight, NEW gone, NEW N, gone \subseteq Live, N \subseteq Live \ gone,
         faults = {} => N = Live \ gone, NEW e \in Event
  PROVE  /\ Released(gone)[e] \in Nat
         /\ Released(gone)[e] <= refs[e]
         /\ Released(gone)[e] >= Cardinality(LiveOf(N, e))
         /\ faults = {} => Released(gone)[e] = Cardinality(LiveOf(N, e))
<1> DEFINE A == LiveOf(Live, e)
           G == LiveOf(gone, e)
           B == LiveOf(N, e)
<1>1. Released(gone)[e] = refs[e] - Cardinality(G)
  BY DEF Released, LiveOf
<1>2. A \in SUBSET Sid /\ G \in SUBSET Sid /\ B \in SUBSET Sid /\ A \ G \in SUBSET Sid
  BY DEF LiveOf
<1>3. A \cap G = G /\ B \subseteq A \ G /\ (faults = {} => B = A \ G)
  BY DEF LiveOf
<1>4. refs[e] \in Nat /\ refs[e] >= Cardinality(A) /\ (faults = {} => refs[e] = Cardinality(A))
  BY DEF TypeOK, RefsRight
<1> HIDE DEF A, G, B
<1>5. /\ Cardinality(A) \in Nat /\ Cardinality(G) \in Nat /\ Cardinality(B) \in Nat
      /\ Cardinality(A \ G) \in Nat /\ IsFiniteSet(A) /\ IsFiniteSet(A \ G)
  BY <1>2, Finite
<1>6. Cardinality(A \ G) = Cardinality(A) - Cardinality(G)
  <2>1. Cardinality(A \ G) = Cardinality(A) - Cardinality(A \cap G)
    BY <1>5, FS_Difference
  <2> QED BY <1>3, <2>1
<1>7. Cardinality(B) <= Cardinality(A \ G)
  BY <1>3, <1>5, FS_Subset
<1>8. faults = {} => Cardinality(B) = Cardinality(A \ G)
  BY <1>3
<1>9. /\ refs[e] - Cardinality(G) \in Nat /\ refs[e] - Cardinality(G) <= refs[e]
      /\ refs[e] - Cardinality(G) >= Cardinality(B)
  BY <1>4, <1>5, <1>6, <1>7
<1>10. faults = {} => refs[e] - Cardinality(G) = Cardinality(B)
  BY <1>4, <1>5, <1>6, <1>8
<1> QED BY <1>1, <1>9, <1>10 DEF B

LEMMA ReleasedType ==
  ASSUME NEW gone, \A e \in Event : Released(gone)[e] \in Nat
  PROVE  Released(gone) \in [Event -> Nat]
<1>1. Released(gone) = [e \in Event |-> Released(gone)[e]]
  BY DEF Released
<1> HIDE DEF Released
<1> QED BY <1>1

-----------------------------------------------------------------------------
(* What the invariant says of one queue *)

LEMMA QueueOf ==
  ASSUME TypeOK, Queues, NEW s \in Sid
  PROVE  /\ sub[s] \in SubRecord
         /\ Queue(s) \in Seq(Event) /\ Len(Queue(s)) \in Nat /\ DOMAIN Queue(s) = 1 .. Len(Queue(s))
         /\ lastEvent \in Nat
         /\ Ordered(Queue(s), lastEvent)
<1>1. sub[s] \in SubRecord
  BY DEF TypeOK
<1>2. Queue(s) \in Seq(Event)
  BY <1>1 DEF SubRecord, Queue
<1>3. Len(Queue(s)) \in Nat /\ DOMAIN Queue(s) = 1 .. Len(Queue(s))
  BY <1>2, LenProperties
<1>4. lastEvent \in Nat
  BY GenaConstants DEF TypeOK
<1>5. Ordered(Queue(s), lastEvent)
  BY <1>2, <1>3 DEF Queues, Ordered
<1> QED BY <1>1, <1>2, <1>3, <1>4, <1>5

\* The job of a subscription is the head of its queue, so it does not wait there.
LEMMA HeadIsNotWaiting ==
  ASSUME TypeOK, Queues, JobsRight, NEW s \in subscriptionList, NEW e \in Event,
         <<s, e>> \in pool \cup sending
  PROVE  e \notin Waiting(Queue(s)) /\ Queue(s) # <<>> /\ Queue(s)[1] = e
<1>1. s \in Sid
  BY DEF TypeOK
<1>2. Queue(s) # <<>> /\ Queue(s)[1] = e
  BY DEF JobsRight
<1>3. Ordered(Queue(s), lastEvent) /\ lastEvent \in Nat
  BY <1>1, QueueOf
<1>4. Queue(s)[1] \notin Waiting(Queue(s))
  BY <1>2, <1>3, QueueTail
<1> QED BY <1>2, <1>4

LEMMA WaitingInEvents ==
  ASSUME TypeOK, Queues, NEW s \in Sid
  PROVE  \A e \in Waiting(Queue(s)) : e \in Event /\ e <= lastEvent
<1>1. Queue(s) \in Seq(Event) /\ Len(Queue(s)) \in Nat /\ Ordered(Queue(s), lastEvent)
  BY QueueOf
<1>2. \A i \in 2 .. Len(Queue(s)) : i \in 1 .. Len(Queue(s))
  BY <1>1
<1>3. \A i \in 1 .. Len(Queue(s)) : Queue(s)[i] \in Event
  BY <1>1
<1> QED BY <1>1, <1>2, <1>3 DEF Waiting, Ordered

-----------------------------------------------------------------------------
(* Steps that only remove: the subscriptions R with their queues, and the jobs *)
(* of set gone.                                                                *)

Removal(R, t, gone) ==
  /\ R \subseteq subscriptionList
  /\ t \in [Sid -> SubRecord]
  /\ \A s \in Sid : /\ t[s].outgoing = sub[s].outgoing
                    /\ t[s].active = sub[s].active
                    /\ t[s].ToSendEventKey = sub[s].ToSendEventKey
                    /\ s \notin subscriptionList => t[s] = sub[s]
  /\ gone \subseteq pool \cup sending
  /\ \A j \in gone : j[1] \in subscriptionList \ R => j \in pool
  /\ Unlink(R, t)
  /\ pool' = pool \ gone /\ sending' = sending \ gone
  /\ refs' = Released(gone \cup QueuedEvents(R, sub))
  /\ registered' \in BOOLEAN /\ (~registered' => subscriptionList' = {})
  /\ MaxSubscriptions' = MaxSubscriptions /\ ctime' = ctime /\ lastSid' = lastSid
  /\ lastEvent' = lastEvent /\ sent' = sent /\ now' = now /\ accepted' = accepted
  /\ faults' = faults

LEMMA NoSubType == NoSub \in SubRecord /\ NoSub.outgoing = <<>> /\ NoSub.active = FALSE /\ NoSub.ToSendEventKey = 0
<1>1. <<>> \in Seq(Event) /\ KeyMax \in Nat
  BY GenaConstants
<1>2. 0 \in 0 .. KeyMax
  BY <1>1
<1> QED BY <1>1, <1>2 DEF NoSub, SubRecord

LEMMA RemovalFacts ==
  ASSUME TypeOK, Queues, NEW R, NEW t, NEW gone, Removal(R, t, gone)
  PROVE  /\ sub' \in [Sid -> SubRecord]
         /\ subscriptionList' = subscriptionList \ R
         /\ \A s \in Sid : s \notin subscriptionList' => sub'[s] = NoSub
         /\ \A s \in subscriptionList' : /\ s \in Sid
                                         /\ (Queue(s))' = Queue(s) /\ sub'[s].active = sub[s].active
                                         /\ sub'[s].ToSendEventKey = sub[s].ToSendEventKey
<1>1. sub' = [s \in Sid |-> IF s \in R THEN NoSub ELSE t[s]] /\ subscriptionList' = subscriptionList \ R
  BY DEF Removal, Unlink
<1>2. t \in [Sid -> SubRecord] /\ R \subseteq subscriptionList /\ subscriptionList \subseteq Sid
  BY DEF Removal, TypeOK
<1>3. sub' \in [Sid -> SubRecord]
  BY <1>1, <1>2, NoSubType
<1>4. ASSUME NEW s \in Sid, s \notin subscriptionList' PROVE sub'[s] = NoSub
  <2>1. CASE s \in R
    BY <1>1, <2>1
  <2>2. CASE s \notin R
    <3>1. s \notin subscriptionList
      BY <1>1, <1>4, <2>2
    <3>2. t[s] = sub[s] /\ sub[s] = NoSub
      BY <3>1 DEF Removal, Queues
    <3> QED BY <1>1, <2>2, <3>2
  <2> QED BY <2>1, <2>2
<1>5. ASSUME NEW s \in subscriptionList'
      PROVE  /\ s \in Sid
             /\ (Queue(s))' = Queue(s) /\ sub'[s].active = sub[s].active
             /\ sub'[s].ToSendEventKey = sub[s].ToSendEventKey
  <2>1. s \in Sid /\ s \notin R
    BY <1>1, <1>2
  <2>2. sub'[s] = t[s]
    BY <1>1, <2>1
  <2>3. t[s].outgoing = sub[s].outgoing /\ t[s].active = sub[s].active /\ t[s].ToSendEventKey = sub[s].ToSendEventKey
    BY <2>1 DEF Removal
  <2> QED BY <2>1, <2>2, <2>3 DEF Queue
<1> QED BY <1>1, <1>3, <1>4, <1>5

LEMMA RemovalKeepsQueues ==
  ASSUME IInv, NEW R, NEW t, NEW gone, Removal(R, t, gone)
  PROVE  Queues'
<1> USE DEF IInv
<1> SUFFICES ASSUME NEW s \in Sid
             PROVE  /\ s \notin subscriptionList' => sub'[s] = NoSub
                    /\ ~sub'[s].active => (Queue(s))' = <<>>
                    /\ \A i \in DOMAIN (Queue(s))' : (Queue(s))'[i] <= lastEvent'
                    /\ \A i, j \in DOMAIN (Queue(s))' : i < j => (Queue(s))'[i] < (Queue(s))'[j]
  BY DEF Queues
<1>1. lastEvent' = lastEvent
  BY DEF Removal
<1>2. CASE s \in subscriptionList'
  <2>1. (Queue(s))' = Queue(s) /\ sub'[s].active = sub[s].active
    BY <1>2, RemovalFacts
  <2> QED BY <1>1, <1>2, <2>1 DEF Queues
<1>3. CASE s \notin subscriptionList'
  <2>1. sub'[s] = NoSub
    BY <1>3, RemovalFacts
  <2>2. (Queue(s))' = <<>>
    BY <2>1, NoSubType DEF Queue
  <2> QED BY <2>1, <2>2
<1> QED BY <1>2, <1>3

LEMMA RemovalKeepsJobs ==
  ASSUME IInv, NEW R, NEW t, NEW gone, Removal(R, t, gone)
  PROVE  Numbered' /\ JobsRight'
<1> USE DEF IInv
<1>1. /\ pool' \subseteq pool /\ sending' \subseteq sending /\ lastSid' = lastSid /\ lastEvent' = lastEvent
      /\ sent' = sent /\ (~registered' => subscriptionList' = {})
  BY DEF Removal
<1>2. subscriptionList' \subseteq subscriptionList
  BY RemovalFacts
<1>3. \A e \in Event : e > lastEvent => refs'[e] = 0
  <2> SUFFICES ASSUME NEW e \in Event, e > lastEvent PROVE refs'[e] = 0
    OBVIOUS
  <2> DEFINE G == {s \in Sid : <<s, e>> \in gone \cup QueuedEvents(R, sub)}
  <2>1. refs'[e] = refs[e] - Cardinality(G)
    BY DEF Removal, Released
  <2>2. refs[e] = 0
    BY DEF Numbered
  <2>3. \A s \in Sid : <<s, e>> \notin gone
    <3>1. gone \subseteq pool \cup sending
      BY DEF Removal
    <3>2. \A s \in Sid : <<s, e>> \in pool \cup sending => e <= lastEvent
      BY DEF Numbered
    <3>3. ~(e <= lastEvent)
      BY DEF TypeOK, Event
    <3> QED BY <3>1, <3>2, <3>3
  <2>4. \A s \in Sid : <<s, e>> \notin QueuedEvents(R, sub)
    <3>1. \A s \in Sid : e \notin Waiting(Queue(s))
      <4>1. ~(e <= lastEvent)
        BY DEF TypeOK, Event
      <4> QED BY <4>1, WaitingInEvents
    <3> QED BY <3>1 DEF QueuedEvents, Queue
  <2>5. G = {}
    BY <2>3, <2>4
  <2> HIDE DEF G
  <2> QED BY <2>1, <2>2, <2>5, FS_EmptySet
<1>4. Numbered'
  BY <1>1, <1>2, <1>3 DEF Numbered
<1>5. ASSUME NEW s \in subscriptionList', NEW e \in Event, <<s, e>> \in pool' \cup sending'
      PROVE  (Queue(s))' # <<>> /\ (Queue(s))'[1] = e
  <2>1. (Queue(s))' = Queue(s) /\ s \in subscriptionList
    BY <1>2, RemovalFacts
  <2> QED BY <1>1, <1>5, <2>1 DEF JobsRight
<1>6. JobsRight'
  BY <1>1, <1>5 DEF JobsRight
<1> QED BY <1>4, <1>6

LEMMA RemovalKeepsCounts ==
  ASSUME IInv, NEW R, NEW t, NEW gone, Removal(R, t, gone)
  PROVE  RefsRight' /\ TotalExact' /\ refs' \in [Event -> Nat] /\ TotalSubscriptions' \in Nat
<1> USE DEF IInv
<1> DEFINE F == gone \cup QueuedEvents(R, sub)
<1>1. /\ R \subseteq subscriptionList /\ subscriptionList \subseteq Sid /\ gone \subseteq pool \cup sending
      /\ pool \subseteq Job /\ sending \subseteq Job
      /\ pool' = pool \ gone /\ sending' = sending \ gone /\ subscriptionList' = subscriptionList \ R
      /\ faults' = faults /\ refs' = Released(F)
  BY DEF Removal, TypeOK, Unlink
<1>2. \A j \in Job : j[1] \in Sid /\ j[2] \in Event /\ j = <<j[1], j[2]>>
  BY DEF Job
<1>3. QueuedEvents(R, sub) \subseteq InQueue
  BY <1>1 DEF QueuedEvents, InQueue, Queue
<1>4. InQueue' = InQueue \ QueuedEvents(R, sub)
  <2>1. \A s \in subscriptionList' : (Queue(s))' = Queue(s)
    BY RemovalFacts
  <2>2. InQueue' = {j \in Job : j[1] \in subscriptionList \ R /\ j[2] \in Waiting(Queue(j[1]))}
    BY <1>1, <2>1 DEF InQueue
  <2> QED BY <2>2 DEF InQueue, QueuedEvents, Queue
<1>5. InQueue \cap (pool \cup sending) = {}
  <2> SUFFICES ASSUME NEW j \in InQueue, j \in pool \cup sending PROVE FALSE
    OBVIOUS
  <2>1. j \in Job /\ j[1] \in subscriptionList /\ j[2] \in Waiting(Queue(j[1]))
    BY DEF InQueue
  <2>2. <<j[1], j[2]>> \in pool \cup sending /\ j[2] \in Event
    BY <1>2, <2>1
  <2> QED BY <2>1, <2>2, HeadIsNotWaiting
<1>6. F \subseteq Live
  BY <1>1, <1>3 DEF Live
<1>7. Live' = Live \ F
  BY <1>1, <1>3, <1>4, <1>5 DEF Live
<1> HIDE DEF F
<1> DEFINE N == Live'
<1>8. \A e \in Event : /\ Released(F)[e] \in Nat
                       /\ Released(F)[e] >= Cardinality(LiveOf(N, e))
                       /\ faults = {} => Released(F)[e] = Cardinality(LiveOf(N, e))
  <2>1. N \subseteq Live \ F /\ N = Live \ F
    BY <1>7
  <2> HIDE DEF N
  <2> QED BY <1>6, <2>1, ReleasedRefs
<1>9. \A e \in Event : LiveOf(N, e) = (LiveOf(Live, e))'
  BY DEF LiveOf
<1>10. RefsRight'
  BY <1>1, <1>8, <1>9 DEF RefsRight
<1>11. refs' \in [Event -> Nat]
  BY <1>1, <1>8, ReleasedType
<1>12. TotalExact' /\ TotalSubscriptions' \in Nat
  <2>1. TotalSubscriptions' = Cardinality(subscriptionList) - Cardinality(R)
    BY DEF Removal, Unlink, TotalExact
  <2>2. /\ IsFiniteSet(subscriptionList) /\ Cardinality(subscriptionList \ R) \in Nat
    BY <1>1, Finite
  <2>3. Cardinality(subscriptionList \ R) = Cardinality(subscriptionList) - Cardinality(subscriptionList \cap R)
    BY <2>2, FS_Difference
  <2>4. subscriptionList \cap R = R
    BY <1>1
  <2> QED BY <1>1, <2>1, <2>2, <2>3, <2>4 DEF TotalExact
<1> QED BY <1>10, <1>11, <1>12

LEMMA RemovalKeepsSent ==
  ASSUME IInv, NEW R, NEW t, NEW gone, Removal(R, t, gone)
  PROVE  SentRight' /\ SentInOrder'
<1> USE DEF IInv
<1>1. sent' = sent
  BY DEF Removal
<1>2. SentInOrder'
  BY <1>1 DEF SentInOrder
<1>3. ASSUME NEW s \in subscriptionList'
      PROVE  /\ s \in subscriptionList /\ (Queue(s))' = Queue(s)
             /\ sub'[s].ToSendEventKey = sub[s].ToSendEventKey
             /\ \A e \in Event : <<s, e>> \in sending' <=> <<s, e>> \in sending
  <2>1. /\ s \in subscriptionList /\ s \notin R /\ (Queue(s))' = Queue(s)
        /\ sub'[s].ToSendEventKey = sub[s].ToSendEventKey
    BY RemovalFacts
  <2>2. sending' = sending \ gone /\ pool \cap sending = {}
    BY DEF Removal, JobsRight
  <2>3. \A e \in Event : <<s, e>> \in gone => <<s, e>> \in pool
    BY <2>1 DEF Removal
  <2> QED BY <2>1, <2>2, <2>3
<1>4. SentRight'
  BY <1>1, <1>3 DEF SentRight
<1> QED BY <1>2, <1>4

LEMMA RemovalKeepsInv ==
  ASSUME IInv, NEW R, NEW t, NEW gone, Removal(R, t, gone)
  PROVE  IInv'
<1>1. TypeOK'
  <2>1. /\ sub' \in [Sid -> SubRecord] /\ subscriptionList' \subseteq subscriptionList
    BY RemovalFacts DEF IInv
  <2>2. refs' \in [Event -> Nat] /\ TotalSubscriptions' \in Nat
    BY RemovalKeepsCounts
  <2>3. /\ pool' \subseteq pool /\ sending' \subseteq sending /\ registered' \in BOOLEAN
        /\ MaxSubscriptions' = MaxSubscriptions /\ ctime' = ctime /\ lastSid' = lastSid
        /\ lastEvent' = lastEvent /\ sent' = sent /\ now' = now /\ accepted' = accepted
    BY DEF Removal
  <2> QED BY <2>1, <2>2, <2>3 DEF IInv, TypeOK
<1>2. faults' = faults
  BY DEF Removal
<1> QED BY <1>1, <1>2, RemovalKeepsQueues, RemovalKeepsJobs, RemovalKeepsCounts, RemovalKeepsSent DEF IInv

LEMMA ExpireType ==
  ASSUME TypeOK, NEW t \in TimeOuts
  PROVE  ExpireAt(t) \in Nat
<1>1. t \in Nat \cup {-1} /\ MaxTimeOut \in Nat \cup {-1} /\ now \in Nat
  BY GenaConstants DEF TypeOK, Infinite
<1>2. Granted(t) \in Nat \cup {-1}
  BY <1>1 DEF Granted
<1> QED BY <1>1, <1>2 DEF ExpireAt, Infinite

LEMMA RenewStep ==
  ASSUME IInv, NEW s \in Sid, NEW t \in TimeOuts, Renew(s, t), faults' = faults
  PROVE  IInv'
<1>1. PICK R \in SUBSET {s} : /\ Unlink(R, [sub EXCEPT ![s].expireTime = ExpireAt(t)])
                              /\ refs' = Released(QueuedEvents(R, sub))
  BY DEF Renew
<1>2. s \in subscriptionList /\ registered
  BY DEF Renew
<1> DEFINE u == [sub EXCEPT ![s].expireTime = ExpireAt(t)]
<1>3. ExpireAt(t) \in Nat /\ sub \in [Sid -> SubRecord]
  BY ExpireType DEF IInv, TypeOK
<1>4. /\ u \in [Sid -> SubRecord]
      /\ \A x \in Sid : /\ u[x].outgoing = sub[x].outgoing
                        /\ u[x].active = sub[x].active
                        /\ u[x].ToSendEventKey = sub[x].ToSendEventKey
                        /\ x \notin subscriptionList => u[x] = sub[x]
  BY <1>2, <1>3 DEF SubRecord
<1>5. {} \cup QueuedEvents(R, sub) = QueuedEvents(R, sub)
  OBVIOUS
<1>6. /\ pool' = pool /\ sending' = sending /\ registered' = registered
      /\ MaxSubscriptions' = MaxSubscriptions /\ ctime' = ctime /\ lastSid' = lastSid
      /\ lastEvent' = lastEvent /\ sent' = sent /\ now' = now /\ accepted' = accepted
  BY DEF Renew
<1> HIDE DEF u
<1>7. Unlink(R, u)
  BY <1>1 DEF u
<1>8. registered' \in BOOLEAN /\ (~registered' => subscriptionList' = {})
  BY <1>2, <1>6 DEF IInv, TypeOK
<1>9. Removal(R, u, {})
  <2>1. R \subseteq subscriptionList /\ refs' = Released({} \cup QueuedEvents(R, sub))
    BY <1>1, <1>2, <1>5
  <2>2. pool' = pool \ {} /\ sending' = sending \ {} /\ {} \subseteq pool \cup sending
    BY <1>6
  <2> QED BY <1>4, <1>6, <1>7, <1>8, <2>1, <2>2 DEF Removal
<1> QED BY <1>9, RemovalKeepsInv

LEMMA SameTable ==
  ASSUME TypeOK
  PROVE  /\ sub \in [Sid -> SubRecord]
         /\ \A S : {} \cup S = S
  BY DEF TypeOK

LEMMA DropStep ==
  ASSUME IInv, NEW s \in Sid, Unsubscribe(s) \/ InitNotifyLate(s), faults' = faults
  PROVE  IInv'
<1>1. s \in subscriptionList /\ registered
  BY DEF Unsubscribe, InitNotifyLate, Stale
<1>2. /\ pool' = pool /\ sending' = sending /\ registered' = registered
      /\ MaxSubscriptions' = MaxSubscriptions /\ ctime' = ctime /\ lastSid' = lastSid
      /\ lastEvent' = lastEvent /\ sent' = sent /\ now' = now /\ accepted' = accepted
      /\ Unlink({s}, sub) /\ refs' = Released(QueuedEvents({s}, sub))
  BY DEF Unsubscribe, InitNotifyLate
<1>3. registered' \in BOOLEAN /\ (~registered' => subscriptionList' = {})
  BY <1>1, <1>2 DEF IInv, TypeOK
<1>4. sub \in [Sid -> SubRecord] /\ {} \cup QueuedEvents({s}, sub) = QueuedEvents({s}, sub)
  BY SameTable DEF IInv
<1>5. Removal({s}, sub, {})
  BY <1>1, <1>2, <1>3, <1>4 DEF Removal
<1> QED BY <1>5, RemovalKeepsInv

LEMMA UnregisterStep ==
  ASSUME IInv, UnregisterDevice, faults' = faults
  PROVE  IInv'
<1> DEFINE R == subscriptionList
<1>1. /\ pool' = pool /\ sending' = sending /\ registered' = FALSE
      /\ MaxSubscriptions' = MaxSubscriptions /\ ctime' = ctime /\ lastSid' = lastSid
      /\ lastEvent' = lastEvent /\ sent' = sent /\ now' = now /\ accepted' = accepted
      /\ subscriptionList' = {} /\ sub' = [s \in Sid |-> NoSub] /\ TotalSubscriptions' = 0
      /\ refs' = Released(QueuedEvents(R, sub))
  BY DEF UnregisterDevice
<1>2. sub \in [Sid -> SubRecord] /\ {} \cup QueuedEvents(R, sub) = QueuedEvents(R, sub)
  BY SameTable DEF IInv
<1>3. Unlink(R, sub)
  <2>1. \A s \in Sid : s \notin R => sub[s] = NoSub
    BY DEF IInv, Queues
  <2>2. sub' = [s \in Sid |-> IF s \in R THEN NoSub ELSE sub[s]]
    BY <1>1, <2>1
  <2>3. TotalSubscriptions' = TotalSubscriptions - Cardinality(R)
    <3>1. TotalSubscriptions = Cardinality(R) /\ TotalSubscriptions \in Nat
      BY DEF IInv, TotalExact, TypeOK
    <3> QED BY <1>1, <3>1
  <2> QED BY <1>1, <2>2, <2>3 DEF Unlink
<1>4. Removal(R, sub, {})
  BY <1>1, <1>2, <1>3 DEF Removal
<1> QED BY <1>4, RemovalKeepsInv

LEMMA JobEndsStep ==
  ASSUME IInv, NEW s \in Sid, NEW e \in Event, NotifyGivenUp(s, e) \/ NotifyOrphaned(s, e),
         faults' = faults
  PROVE  IInv'
<1> DEFINE gone == {<<s, e>>}
           R == Stale(s)
<1>1. /\ registered' = registered
      /\ MaxSubscriptions' = MaxSubscriptions /\ ctime' = ctime /\ lastSid' = lastSid
      /\ lastEvent' = lastEvent /\ sent' = sent /\ now' = now /\ accepted' = accepted
      /\ Unlink(R, sub) /\ refs' = Released(gone \cup QueuedEvents(R, sub))
  BY DEF NotifyGivenUp, NotifyOrphaned
<1>2. pool \cap sending = {}
  BY DEF IInv, JobsRight
<1>3. pool' = pool \ gone /\ sending' = sending \ gone /\ gone \subseteq pool \cup sending
  BY <1>2 DEF NotifyGivenUp, NotifyOrphaned
<1>4. R \subseteq subscriptionList
  BY DEF Stale
<1>5. \A j \in gone : j[1] \in subscriptionList \ R => j \in pool
  <2>1. CASE NotifyGivenUp(s, e)
    BY <2>1 DEF NotifyGivenUp
  <2>2. CASE NotifyOrphaned(s, e)
    <3>1. s \in subscriptionList => s \in R
      <4>1. ~registered => subscriptionList = {}
        BY DEF IInv, Numbered
      <4> QED BY <2>2, <4>1 DEF NotifyOrphaned, Found, Stale
    <3> QED BY <3>1
  <2> QED BY <2>1, <2>2
<1>6. registered' \in BOOLEAN /\ (~registered' => subscriptionList' = {})
  <2>1. (~registered => subscriptionList = {}) /\ registered \in BOOLEAN
    BY DEF IInv, Numbered, TypeOK
  <2> QED BY <1>1, <2>1 DEF Unlink
<1>7. sub \in [Sid -> SubRecord]
  BY SameTable DEF IInv
<1> HIDE DEF gone, R
<1>8. Removal(R, sub, gone)
  BY <1>1, <1>3, <1>4, <1>5, <1>6, <1>7 DEF Removal
<1> QED BY <1>8, RemovalKeepsInv

-----------------------------------------------------------------------------
(* Subscribing *)

\* An event that was not made yet has no struct.
LEMMA NoStructYet ==
  ASSUME IInv, NEW e \in Event, e > lastEvent
  PROVE  LiveOf(Live, e) = {} /\ refs[e] = 0 /\ \A s \in Sid : <<s, e>> \notin Live
<1> USE DEF IInv
<1>1. ~(e <= lastEvent)
  BY DEF TypeOK, Event
<1>2. \A s \in Sid : <<s, e>> \notin pool \cup sending
  BY <1>1 DEF Numbered
<1>3. \A s \in Sid : <<s, e>> \notin InQueue
  <2>1. \A s \in Sid : e \notin Waiting(Queue(s))
    BY <1>1, WaitingInEvents
  <2> QED BY <2>1 DEF InQueue
<1>4. \A s \in Sid : <<s, e>> \notin Live
  BY <1>2, <1>3 DEF Live
<1> QED BY <1>4 DEF LiveOf, Numbered

LEMMA SubscribeStep ==
  ASSUME IInv, NEW t \in TimeOuts, Subscribe(t), faults' = faults
  PROVE  IInv'
<1> USE DEF IInv
<1> DEFINE n == lastSid + 1
<1>1. /\ registered /\ lastSid' = n /\ subscriptionList' = subscriptionList \cup {n}
      /\ TotalSubscriptions' = TotalSubscriptions + 1
      /\ pool' = pool /\ sending' = sending /\ refs' = refs
      /\ MaxSubscriptions' = MaxSubscriptions /\ registered' = registered /\ ctime' = ctime
      /\ lastEvent' = lastEvent /\ accepted' = accepted /\ sent' = sent /\ now' = now
  BY DEF Subscribe, jobVars
<1>2. n \in Sid /\ lastSid \in Nat /\ n \in Nat /\ n \in 0 .. MaxSids
  BY GenaConstants DEF Subscribe, TypeOK, Sid
<1>3. n \notin subscriptionList /\ sent[n] = <<>>
  BY <1>2 DEF Numbered
<1>4. \A e \in Event : <<n, e>> \notin pool \cup sending
  BY <1>2 DEF Numbered
<1> DEFINE x == [NoSub EXCEPT !.expireTime = ExpireAt(t)]
<1>5. x \in SubRecord /\ x.outgoing = <<>> /\ x.ToSendEventKey = 0
  BY NoSubType, ExpireType DEF NoSub, SubRecord
<1>6. /\ sub' \in [Sid -> SubRecord] /\ sub'[n] = x
      /\ \A s \in Sid : s # n => sub'[s] = sub[s]
  BY <1>1, <1>2, <1>5 DEF Subscribe, TypeOK
<1> HIDE DEF x, n
<1>7. \A s \in Sid : /\ s = n => (Queue(s))' = <<>>
                     /\ s # n => (Queue(s))' = Queue(s)
  BY <1>5, <1>6 DEF Queue
<1>8. Queue(n) = <<>>
  BY <1>2, <1>3, NoSubType DEF Queues, Queue
<1>9. TotalExact' /\ TotalSubscriptions' \in Nat
  <2>1. IsFiniteSet(subscriptionList) /\ Cardinality(subscriptionList) \in Nat
    BY Finite DEF TypeOK
  <2>2. Cardinality(subscriptionList \cup {n}) = Cardinality(subscriptionList) + 1
    BY <1>3, <2>1, FS_AddElement
  <2> QED BY <1>1, <2>1, <2>2 DEF TotalExact
<1>10. TypeOK'
  BY <1>1, <1>2, <1>6, <1>9 DEF TypeOK
<1>11. Queues'
  <2> SUFFICES ASSUME NEW s \in Sid
               PROVE  /\ s \notin subscriptionList' => sub'[s] = NoSub
                      /\ ~sub'[s].active => (Queue(s))' = <<>>
                      /\ \A i \in DOMAIN (Queue(s))' : (Queue(s))'[i] <= lastEvent'
                      /\ \A i, j \in DOMAIN (Queue(s))' : i < j => (Queue(s))'[i] < (Queue(s))'[j]
    BY DEF Queues
  <2>1. CASE s = n
    <3>1. (Queue(s))' = <<>> /\ s \in subscriptionList'
      BY <1>1, <1>7, <2>1
    <3> QED BY <3>1
  <2>2. CASE s # n
    <3>1. sub'[s] = sub[s] /\ (Queue(s))' = Queue(s) /\ (s \notin subscriptionList' => s \notin subscriptionList)
      BY <1>1, <1>6, <1>7, <2>2
    <3> QED BY <1>1, <3>1 DEF Queues
  <2> QED BY <2>1, <2>2
<1>12. Numbered'
  <2>1. \A s \in Nat : s <= lastSid => s <= n
    BY <1>2 DEF n
  <2>2. \A s \in Nat : s > n => s > lastSid
    BY <1>2 DEF n
  <2>3. n <= n /\ Sid \subseteq Nat
    BY <1>2 DEF Sid
  <2>4. subscriptionList \subseteq Sid
    BY DEF TypeOK
  <2> QED BY <1>1, <2>1, <2>2, <2>3, <2>4 DEF Numbered
<1>13. JobsRight'
  <2>1. ASSUME NEW s \in subscriptionList', NEW e \in Event, <<s, e>> \in pool' \cup sending'
        PROVE  (Queue(s))' # <<>> /\ (Queue(s))'[1] = e
    <3>1. s # n /\ s \in subscriptionList /\ s \in Sid
      BY <1>1, <1>4, <2>1 DEF TypeOK
    <3> QED BY <1>1, <1>7, <2>1, <3>1 DEF JobsRight
  <2> QED BY <1>1, <2>1 DEF JobsRight
<1>14. RefsRight'
  <2>1. Waiting(<<>>) = {}
    BY DEF Waiting
  <2>2. \A j \in Job : /\ j[1] \in Sid
                       /\ (j[1] \in subscriptionList' /\ j[2] \in Waiting((Queue(j[1]))'))
                          <=> (j[1] \in subscriptionList /\ j[2] \in Waiting(Queue(j[1])))
    <3>1. \A s \in Sid : \A e : (s \in subscriptionList' /\ e \in Waiting((Queue(s))'))
                                 <=> (s \in subscriptionList /\ e \in Waiting(Queue(s)))
      BY <1>1, <1>3, <1>7, <1>8, <2>1
    <3> QED BY <3>1 DEF Job
  <2>3. InQueue' = InQueue
    BY <2>2 DEF InQueue
  <2>4. \A e \in Event : (LiveOf(Live, e))' = LiveOf(Live, e)
    BY <1>1, <2>3 DEF LiveOf, Live
  <2> QED BY <1>1, <2>4 DEF RefsRight
<1>15. SentRight'
  <2> SUFFICES ASSUME NEW s \in subscriptionList'
               PROVE  LET k == Len(sent[s])' IN
                      /\ (\E e \in Event : <<s, e>> \in sending') =>
                           k > 0 /\ sub'[s].ToSendEventKey = SeqKey(k) /\ (Queue(s))' # <<>> /\ sent'[s][k][2] = (Queue(s))'[1]
                      /\ ~(\E e \in Event : <<s, e>> \in sending') =>
                           /\ sub'[s].ToSendEventKey = SeqKey(k + 1)
                           /\ k > 0 => \A i \in DOMAIN (Queue(s))' : sent'[s][k][2] < (Queue(s))'[i]
    BY DEF SentRight
  <2>1. CASE s = n
    <3>1. sub'[s].ToSendEventKey = 0 /\ Len(sent[s])' = 0
      BY <1>1, <1>3, <1>5, <1>6, <2>1, EmptySeq
    <3>2. SeqKey(0 + 1) = 0 /\ ~(0 > 0)
      BY DEF SeqKey
    <3>3. \A e \in Event : <<s, e>> \notin sending'
      BY <1>1, <1>4, <2>1
    <3> QED BY <3>1, <3>2, <3>3
  <2>2. CASE s # n
    <3>1. s \in subscriptionList /\ s \in Sid
      BY <1>1, <2>2 DEF TypeOK
    <3>2. (Queue(s))' = Queue(s) /\ sub'[s] = sub[s]
      BY <1>6, <1>7, <2>2, <3>1
    <3> QED BY <1>1, <3>1, <3>2 DEF SentRight
  <2> QED BY <2>1, <2>2
<1>16. SentInOrder'
  BY <1>1 DEF SentInOrder
<1> QED BY <1>9, <1>10, <1>11, <1>12, <1>13, <1>14, <1>15, <1>16

-----------------------------------------------------------------------------
(* The first event of a subscription *)

\* Counts stay right when one struct is made with a new event.
LEMMA OneMoreStruct ==
  ASSUME IInv, NEW e \in Event, e = lastEvent + 1, NEW s \in Sid,
         refs' = [refs EXCEPT ![e] = 1], Live' = Live \cup {<<s, e>>}, faults' = faults
  PROVE  RefsRight' /\ refs' \in [Event -> Nat]
<1> USE DEF IInv
<1>1. LiveOf(Live, e) = {}
  <2>1. e > lastEvent
    BY DEF TypeOK, Event
  <2> QED BY <2>1, NoStructYet
<1>2. refs \in [Event -> Nat]
  BY DEF TypeOK
<1>3. (LiveOf(Live, e))' = {s}
  BY <1>1 DEF LiveOf
<1>4. \A f \in Event : f # e => (LiveOf(Live, f))' = LiveOf(Live, f)
  BY DEF LiveOf
<1>5. Cardinality({s}) = 1
  BY FS_Singleton
<1>6. refs'[e] = 1 /\ \A f \in Event : f # e => refs'[f] = refs[f]
  BY <1>2
<1>7. ASSUME NEW f \in Event
      PROVE  /\ refs'[f] >= Cardinality((LiveOf(Live, f))')
             /\ faults' = {} => refs'[f] = Cardinality((LiveOf(Live, f))')
  <2>1. CASE f = e
    <3>1. Cardinality((LiveOf(Live, f))') = 1 /\ refs'[f] = 1
      BY <1>3, <1>5, <1>6, <2>1
    <3> QED BY <3>1
  <2>2. CASE f # e
    <3>1. (LiveOf(Live, f))' = LiveOf(Live, f) /\ refs'[f] = refs[f]
      BY <1>4, <1>6, <2>2
    <3> QED BY <3>1 DEF RefsRight
  <2> QED BY <2>1, <2>2
<1> QED BY <1>2, <1>7 DEF RefsRight

\* A step that makes subscription s active, and its queue q, and leaves the list, the
\* jobs that are sent and what was sent alone.
Activation(s, q) ==
  /\ s \in subscriptionList /\ ~sub[s].active /\ registered
  /\ sub' = [sub EXCEPT ![s].active = TRUE, ![s].outgoing = q]
  /\ sending' = sending /\ subscriptionList' = subscriptionList
  /\ TotalSubscriptions' = TotalSubscriptions /\ MaxSubscriptions' = MaxSubscriptions
  /\ registered' = registered /\ lastSid' = lastSid /\ sent' = sent /\ now' = now
  /\ faults' = faults

LEMMA ActiveRecord ==
  ASSUME NEW r \in SubRecord, NEW q, NEW c, c = [[r EXCEPT !.active = TRUE] EXCEPT !.outgoing = q]
  PROVE  c = [active |-> TRUE, expireTime |-> r.expireTime, ToSendEventKey |-> r.ToSendEventKey, outgoing |-> q]
  BY DEF SubRecord

LEMMA ActivationFacts ==
  ASSUME TypeOK, Queues, NEW s \in Sid, NEW q \in Seq(Event), Activation(s, q)
  PROVE  /\ sub' \in [Sid -> SubRecord]
         /\ Queue(s) = <<>> /\ (Queue(s))' = q /\ sub'[s].active /\ sub'[s].ToSendEventKey = sub[s].ToSendEventKey
         /\ \A x \in Sid : x # s => sub'[x] = sub[x] /\ (Queue(x))' = Queue(x)
<1>1. sub \in [Sid -> SubRecord] /\ sub' = [sub EXCEPT ![s].active = TRUE, ![s].outgoing = q]
  BY DEF TypeOK, Activation
<1> DEFINE r == [active |-> TRUE, expireTime |-> sub[s].expireTime,
                 ToSendEventKey |-> sub[s].ToSendEventKey, outgoing |-> q]
<1>2. sub[s] \in SubRecord
  BY <1>1
<1>3. sub'[s] = r /\ \A x \in Sid : x # s => sub'[x] = sub[x]
  <2>1. sub'[s] = [[sub[s] EXCEPT !.active = TRUE] EXCEPT !.outgoing = q]
    BY <1>1
  <2>2. sub'[s] = r
    BY <1>2, <2>1, ActiveRecord
  <2> QED BY <1>1, <2>2
<1>4. r \in SubRecord
  BY <1>2 DEF SubRecord
<1>5. sub' \in [Sid -> SubRecord]
  <2>1. DOMAIN sub' = Sid /\ sub' = [x \in Sid |-> sub'[x]]
    BY <1>1
  <2>2. \A x \in Sid : sub'[x] \in SubRecord
    BY <1>1, <1>3, <1>4
  <2> QED BY <2>1, <2>2
<1>6. r.outgoing = q /\ r.active /\ r.ToSendEventKey = sub[s].ToSendEventKey
  OBVIOUS
<1> HIDE DEF r
<1>7. Queue(s) = <<>>
  BY DEF Queues, Activation
<1> QED BY <1>3, <1>5, <1>6, <1>7 DEF Queue

\* Conjuncts that an activation keeps, whatever becomes of the event.
LEMMA ActivationKeeps ==
  ASSUME IInv, NEW s \in Sid, NEW q \in Seq(Event), Activation(s, q),
         q = <<>> \/ (q = <<lastEvent'>> /\ lastEvent' = lastEvent + 1), lastEvent' \in {lastEvent, lastEvent + 1}
  PROVE  Queues' /\ SentRight' /\ SentInOrder' /\ TotalExact'
<1> USE DEF IInv
<1>1. lastEvent \in Nat /\ lastEvent' \in Nat /\ lastEvent <= lastEvent'
  <2>1. lastEvent \in Nat
    BY GenaConstants DEF TypeOK
  <2> QED BY <2>1
<1>2. q = <<>> \/ (Len(q) = 1 /\ DOMAIN q = {1} /\ q[1] = lastEvent' /\ lastEvent < lastEvent')
  BY <1>1
<1>3. /\ (Queue(s))' = q /\ sub'[s].active /\ sub'[s].ToSendEventKey = sub[s].ToSendEventKey
      /\ Queue(s) = <<>>
  BY ActivationFacts
<1>4. \A x \in Sid : x # s => sub'[x] = sub[x] /\ (Queue(x))' = Queue(x)
  BY ActivationFacts
<1>5. /\ subscriptionList' = subscriptionList /\ sent' = sent /\ sending' = sending
      /\ TotalSubscriptions' = TotalSubscriptions /\ s \in subscriptionList
  BY DEF Activation
<1>6. Queues'
  <2> SUFFICES ASSUME NEW x \in Sid
               PROVE  /\ x \notin subscriptionList' => sub'[x] = NoSub
                      /\ ~sub'[x].active => (Queue(x))' = <<>>
                      /\ \A i \in DOMAIN (Queue(x))' : (Queue(x))'[i] <= lastEvent'
                      /\ \A i, j \in DOMAIN (Queue(x))' : i < j => (Queue(x))'[i] < (Queue(x))'[j]
    BY DEF Queues
  <2>1. CASE x = s
    <3>1. x \in subscriptionList' /\ sub'[x].active
      BY <1>3, <1>5, <2>1
    <3>2. \A i \in DOMAIN q : q[i] <= lastEvent'
      BY <1>1, <1>2
    <3>3. \A i, j \in DOMAIN q : ~(i < j)
      BY <1>1, <1>2
    <3> QED BY <1>3, <2>1, <3>1, <3>2, <3>3
  <2>2. CASE x # s
    <3>1. Queue(x) \in Seq(Event) /\ DOMAIN Queue(x) = 1 .. Len(Queue(x))
      BY QueueOf
    <3>2. \A i \in DOMAIN Queue(x) : Queue(x)[i] \in Nat /\ Queue(x)[i] <= lastEvent
      <4>1. \A i \in 1 .. Len(Queue(x)) : Queue(x)[i] \in Event
        BY <3>1
      <4> QED BY <3>1, <4>1 DEF Queues, Event
    <3>3. \A i \in DOMAIN Queue(x) : Queue(x)[i] <= lastEvent'
      BY <1>1, <3>2
    <3> QED BY <1>4, <1>5, <2>2, <3>3 DEF Queues
  <2> QED BY <2>1, <2>2
<1>7. SentRight'
  <2> SUFFICES ASSUME NEW x \in subscriptionList
               PROVE  LET k == Len(sent[x]) IN
                      /\ (\E e \in Event : <<x, e>> \in sending) =>
                           k > 0 /\ sub'[x].ToSendEventKey = SeqKey(k) /\ (Queue(x))' # <<>> /\ sent[x][k][2] = (Queue(x))'[1]
                      /\ ~(\E e \in Event : <<x, e>> \in sending) =>
                           /\ sub'[x].ToSendEventKey = SeqKey(k + 1)
                           /\ k > 0 => \A i \in DOMAIN (Queue(x))' : sent[x][k][2] < (Queue(x))'[i]
    BY <1>5 DEF SentRight
  <2>1. CASE x = s
    <3>1. ~(\E e \in Event : <<x, e>> \in sending)
      BY <1>3, <1>5, <2>1 DEF JobsRight
    <3>2. sub'[x].ToSendEventKey = SeqKey(Len(sent[x]) + 1)
      BY <1>3, <2>1, <3>1 DEF SentRight
    <3>3. ASSUME Len(sent[x]) > 0, NEW i \in DOMAIN q PROVE sent[x][Len(sent[x])][2] < q[i]
      <4>1. sent[x] \in Seq((0 .. KeyMax) \X Event) /\ Len(sent[x]) \in Nat /\ DOMAIN sent[x] = 1 .. Len(sent[x])
        BY <2>1, LenProperties DEF TypeOK
      <4>2. Len(sent[x]) \in DOMAIN sent[x]
        BY <3>3, <4>1
      <4>3. sent[x][Len(sent[x])] \in (0 .. KeyMax) \X Event
        BY <4>1, <4>2
      <4>4. sent[x][Len(sent[x])][2] \in Nat
        BY <4>3 DEF Event
      <4>5. sent[x][Len(sent[x])][2] <= lastEvent
        BY <2>1, <4>2 DEF Numbered
      <4>6. q[i] = lastEvent' /\ lastEvent < lastEvent'
        BY <1>2, <3>3
      <4> QED BY <1>1, <4>4, <4>5, <4>6
    <3> QED BY <1>3, <2>1, <3>1, <3>2, <3>3
  <2>2. CASE x # s
    <3>1. x \in Sid
      BY DEF TypeOK
    <3>2. (Queue(x))' = Queue(x) /\ sub'[x] = sub[x]
      BY <1>4, <2>2, <3>1
    <3> QED BY <3>2 DEF SentRight
  <2> QED BY <2>1, <2>2
<1>8. SentInOrder' /\ TotalExact'
  BY <1>5 DEF SentInOrder, TotalExact
<1> QED BY <1>6, <1>7, <1>8

LEMMA InitNotifyStep ==
  ASSUME IInv, NEW s \in Sid, InitNotify(s), faults' = faults
  PROVE  IInv'
<1> USE DEF IInv
<1> DEFINE e == lastEvent + 1
<1>1. /\ s \in subscriptionList /\ ~sub[s].active /\ registered /\ MayMakeEvent
      /\ subscriptionList' = subscriptionList /\ TotalSubscriptions' = TotalSubscriptions
      /\ sending' = sending /\ MaxSubscriptions' = MaxSubscriptions
      /\ registered' = registered /\ lastSid' = lastSid /\ sent' = sent /\ now' = now
  BY DEF InitNotify, Found
<1>2. lastEvent \in Nat /\ e \in Event /\ e \in Nat /\ e \in 0 .. MaxEvents /\ e > lastEvent
  BY <1>1, GenaConstants DEF MayMakeEvent, TypeOK, Event
<1>3. Queue(s) = <<>> /\ sub \in [Sid -> SubRecord] /\ sub[s].outgoing = <<>>
  BY <1>1 DEF Queues, TypeOK, Queue
<1>4. \A f \in Event : <<s, f>> \notin pool \cup sending
  BY <1>1, <1>3 DEF JobsRight
<1>5. CASE /\ sub' = [sub EXCEPT ![s].active = TRUE, ![s].outgoing = Append(@, lastEvent + 1)]
           /\ lastEvent' = lastEvent + 1
           /\ ctime' = [ctime EXCEPT ![lastEvent + 1] = now]
           /\ refs' = [refs EXCEPT ![lastEvent + 1] = 1]
           /\ pool' = pool \cup {<<s, lastEvent + 1>>}
           /\ accepted' = accepted \cup {s}
  <2> DEFINE q == <<e>>
  <2>1. q \in Seq(Event) /\ Append(<<>>, e) = q
    BY <1>2
  <2>2. sub' = [sub EXCEPT ![s].active = TRUE, ![s].outgoing = q]
    <3>1. sub' = [sub EXCEPT ![s].active = TRUE, ![s].outgoing = Append(<<>>, e)]
      BY <1>3, <1>5
    <3> QED BY <2>1, <3>1
  <2>3. q = <<lastEvent'>> /\ lastEvent' = lastEvent + 1
    BY <1>5
  <2> HIDE DEF q
  <2>4. Activation(s, q)
    BY <1>1, <2>2 DEF Activation
  <2>5. Queues' /\ SentRight' /\ SentInOrder' /\ TotalExact'
    BY <2>1, <2>3, <2>4, ActivationKeeps
  <2>6. sub' \in [Sid -> SubRecord] /\ (Queue(s))' = q
    BY <2>1, <2>4, ActivationFacts
  <2>7. \A x \in Sid : x # s => (Queue(x))' = Queue(x)
    BY <2>1, <2>4, ActivationFacts
  <2>8. Waiting(q) = {} /\ Waiting(<<>>) = {} /\ q # <<>> /\ q[1] = e
    BY DEF q, Waiting
  <2>9. InQueue' = InQueue
    <3>1. \A x \in Sid : Waiting((Queue(x))') = Waiting(Queue(x))
      BY <1>3, <2>6, <2>7, <2>8
    <3>2. \A j \in Job : j[1] \in Sid
      BY DEF Job
    <3> QED BY <1>1, <3>1, <3>2 DEF InQueue
  <2>10. Live' = Live \cup {<<s, e>>}
    BY <1>1, <1>5, <2>9 DEF Live
  <2>11. RefsRight' /\ refs' \in [Event -> Nat]
    BY <1>2, <1>5, <2>10, OneMoreStruct
  <2>12. TypeOK'
    BY <1>1, <1>2, <1>5, <2>6, <2>11 DEF TypeOK, Job
  <2>13. Numbered'
    <3>1. s <= lastSid
      BY <1>1 DEF Numbered
    <3>2. \A x \in Sid, f \in Event : <<x, f>> \in pool' \cup sending' => x <= lastSid' /\ f <= lastEvent'
      <4> SUFFICES ASSUME NEW x \in Sid, NEW f \in Event, <<x, f>> \in pool' \cup sending' PROVE x <= lastSid' /\ f <= lastEvent'
        OBVIOUS
      <4>1. CASE <<x, f>> \in pool \cup sending
        <5>1. x <= lastSid /\ f <= lastEvent
          BY <4>1 DEF Numbered
        <5> QED BY <1>1, <1>2, <1>5, <5>1 DEF Event
      <4>2. CASE <<x, f>> = <<s, e>>
        BY <1>1, <1>2, <1>5, <3>1, <4>2
      <4> QED BY <1>1, <1>5, <4>1, <4>2
    <3>3. \A x \in Sid : \A i \in DOMAIN sent[x] : sent[x][i][2] <= lastEvent'
      <4> SUFFICES ASSUME NEW x \in Sid, NEW i \in DOMAIN sent[x] PROVE sent[x][i][2] <= lastEvent'
        OBVIOUS
      <4>1. sent[x] \in Seq((0 .. KeyMax) \X Event)
        BY DEF TypeOK
      <4>2. sent[x][i] \in (0 .. KeyMax) \X Event
        BY <4>1
      <4>3. sent[x][i][2] \in Nat
        BY <4>2 DEF Event
      <4>4. sent[x][i][2] <= lastEvent
        BY DEF Numbered
      <4> QED BY <1>2, <1>5, <4>3, <4>4
    <3>4. \A f \in Event : f > lastEvent' => refs'[f] = 0
      <4> SUFFICES ASSUME NEW f \in Event, f > lastEvent' PROVE refs'[f] = 0
        OBVIOUS
      <4>1. f > lastEvent /\ f # e
        BY <1>2, <1>5 DEF Event
      <4> QED BY <1>5, <4>1 DEF Numbered, TypeOK
    <3> QED BY <1>1, <3>2, <3>3, <3>4 DEF Numbered
  <2>14. JobsRight'
    <3>1. pool' \cap sending' = {}
      BY <1>1, <1>2, <1>4, <1>5 DEF JobsRight
    <3>2. \A x \in Sid : \A f \in Event : <<x, f>> \in pool' \cup sending' =>
            IF x = s THEN f = e ELSE <<x, f>> \in pool \cup sending
      BY <1>1, <1>4, <1>5
    <3>3. \A x \in Sid : \A f, g \in Event : {<<x, f>>, <<x, g>>} \subseteq pool' \cup sending' => f = g
      <4> SUFFICES ASSUME NEW x \in Sid, NEW f \in Event, NEW g \in Event, <<x, f>> \in pool' \cup sending',
                          <<x, g>> \in pool' \cup sending' PROVE f = g
        OBVIOUS
      <4>1. CASE x = s
        BY <3>2, <4>1
      <4>2. CASE x # s
        <5>1. <<x, f>> \in pool \cup sending /\ <<x, g>> \in pool \cup sending
          BY <3>2, <4>2
        <5> QED BY <5>1 DEF JobsRight
      <4> QED BY <4>1, <4>2
    <3>4. \A x \in subscriptionList' : \A f \in Event :
            <<x, f>> \in pool' \cup sending' => (Queue(x))' # <<>> /\ (Queue(x))'[1] = f
      <4> SUFFICES ASSUME NEW x \in subscriptionList, NEW f \in Event, <<x, f>> \in pool' \cup sending'
                   PROVE  (Queue(x))' # <<>> /\ (Queue(x))'[1] = f
        BY <1>1
      <4>1. x \in Sid
        BY DEF TypeOK
      <4>2. CASE x = s
        <5>1. f = e
          BY <3>2, <4>1, <4>2
        <5> QED BY <2>6, <2>8, <4>2, <5>1
      <4>3. CASE x # s
        <5>1. <<x, f>> \in pool \cup sending /\ (Queue(x))' = Queue(x)
          BY <2>7, <3>2, <4>1, <4>3
        <5> QED BY <5>1 DEF JobsRight
      <4> QED BY <4>2, <4>3
    <3> QED BY <3>1, <3>3, <3>4 DEF JobsRight
  <2> QED BY <2>5, <2>11, <2>12, <2>13, <2>14
<1>6. CASE /\ sub' = [sub EXCEPT ![s].active = TRUE]
           /\ UNCHANGED <<lastEvent, ctime, refs, pool, accepted>>
  <2> DEFINE q == <<>>
  <2>1. q \in Seq(Event)
    OBVIOUS
  <2>2. sub' = [sub EXCEPT ![s].active = TRUE, ![s].outgoing = q]
    BY <1>3, <1>6 DEF SubRecord
  <2>3. q = <<>> /\ lastEvent' = lastEvent
    BY <1>6
  <2> HIDE DEF q
  <2>4. Activation(s, q)
    BY <1>1, <2>2 DEF Activation
  <2>5. Queues' /\ SentRight' /\ SentInOrder' /\ TotalExact'
    BY <2>1, <2>3, <2>4, ActivationKeeps
  <2>6. sub' \in [Sid -> SubRecord] /\ (Queue(s))' = Queue(s)
    BY <1>3, <2>1, <2>3, <2>4, ActivationFacts
  <2>7. \A x \in Sid : (Queue(x))' = Queue(x)
    BY <2>1, <2>4, <2>6, ActivationFacts
  <2>8. InQueue' = InQueue
    <3>1. \A j \in Job : j[1] \in Sid
      BY DEF Job
    <3> QED BY <1>1, <2>7, <3>1 DEF InQueue
  <2>9. \A f \in Event : (LiveOf(Live, f))' = LiveOf(Live, f)
    BY <1>1, <1>6, <2>8 DEF Live, LiveOf
  <2>10. RefsRight'
    BY <1>6, <2>9 DEF RefsRight
  <2>11. TypeOK' /\ Numbered'
    BY <1>1, <1>6, <2>6 DEF TypeOK, Numbered
  <2>12. JobsRight'
    <3>1. subscriptionList \subseteq Sid
      BY DEF TypeOK
    <3> QED BY <1>1, <1>6, <2>7, <3>1 DEF JobsRight
  <2> QED BY <2>5, <2>10, <2>11, <2>12
<1> QED BY <1>5, <1>6 DEF InitNotify

-----------------------------------------------------------------------------
(* genaNotifyThread *)

LEMMA NotifyStartStep ==
  ASSUME IInv, NEW s \in Sid, NEW e \in Event, NotifyStart(s, e), faults' = faults
  PROVE  IInv'
<1> USE DEF IInv
<1> DEFINE j == <<s, e>>
           n == Len(sent[s])
           k == sub[s].ToSendEventKey
<1>1. /\ j \in pool /\ s \in subscriptionList /\ pool' = pool \ {j} /\ sending' = sending \cup {j}
      /\ sent' = [sent EXCEPT ![s] = Append(@, <<k, e>>)]
      /\ subscriptionList' = subscriptionList /\ TotalSubscriptions' = TotalSubscriptions /\ sub' = sub
      /\ refs' = refs /\ MaxSubscriptions' = MaxSubscriptions /\ registered' = registered
      /\ ctime' = ctime /\ lastSid' = lastSid /\ lastEvent' = lastEvent /\ accepted' = accepted
      /\ now' = now
  BY DEF NotifyStart, Found, subVars
<1>2. /\ sent \in [Sid -> Seq((0 .. KeyMax) \X Event)] /\ sent[s] \in Seq((0 .. KeyMax) \X Event)
      /\ n \in Nat /\ DOMAIN sent[s] = 1 .. n
  BY LenProperties DEF TypeOK
<1>3. k \in 0 .. KeyMax /\ <<k, e>> \in (0 .. KeyMax) \X Event
  BY DEF TypeOK, SubRecord
<1>4. /\ sent' \in [Sid -> Seq((0 .. KeyMax) \X Event)]
      /\ sent'[s] = Append(sent[s], <<k, e>>) /\ \A x \in Sid : x # s => sent'[x] = sent[x]
  BY <1>1, <1>2, <1>3
<1>5. /\ Len(sent'[s]) = n + 1 /\ DOMAIN sent'[s] = 1 .. (n + 1)
      /\ sent'[s][n + 1] = <<k, e>> /\ \A i \in 1 .. n : sent'[s][i] = sent[s][i]
  BY <1>2, <1>3, <1>4, AppendProperties
<1> HIDE DEF j, n, k
<1>6. TypeOK'
  BY <1>1, <1>4 DEF TypeOK
<1>7. pool' \cup sending' = pool \cup sending /\ pool' \cap sending' = {}
  BY <1>1 DEF JobsRight
<1>8. \A x : (Queue(x))' = Queue(x)
  BY <1>1 DEF Queue
<1>9. Queues' /\ TotalExact'
  BY <1>1, <1>8 DEF Queues, TotalExact
<1>10. JobsRight'
  BY <1>1, <1>7, <1>8 DEF JobsRight
<1>11. RefsRight'
  <2>1. InQueue' = InQueue
    BY <1>1, <1>8 DEF InQueue
  <2>2. \A f : (LiveOf(Live, f))' = LiveOf(Live, f)
    BY <1>7, <2>1 DEF LiveOf, Live
  <2> QED BY <1>1, <2>2 DEF RefsRight
<1>12. s <= lastSid /\ e <= lastEvent
  BY <1>1 DEF Numbered, j
<1>13. Numbered'
  <2>1. ASSUME NEW x \in Sid, x > lastSid PROVE sent'[x] = <<>>
    <3>1. x # s
      BY <1>12, <2>1 DEF TypeOK, Sid
    <3> QED BY <1>4, <2>1, <3>1 DEF Numbered
  <2>2. ASSUME NEW x \in Sid, NEW i \in DOMAIN sent'[x] PROVE sent'[x][i][2] <= lastEvent
    <3>1. CASE x # s
      BY <1>4, <2>2, <3>1 DEF Numbered
    <3>2. CASE x = s /\ i = n + 1
      BY <1>5, <1>12, <3>2
    <3>3. CASE x = s /\ i # n + 1
      <4>1. i \in 1 .. n
        BY <1>2, <1>5, <2>2, <3>3
      <4> QED BY <1>2, <1>5, <3>3, <4>1 DEF Numbered
    <3> QED BY <3>1, <3>2, <3>3
  <2> QED BY <1>1, <1>7, <2>1, <2>2 DEF Numbered
<1>14. Queue(s) # <<>> /\ Queue(s)[1] = e
  BY <1>1, HeadIsNotWaiting DEF j
<1>15. ~\E f \in Event : <<s, f>> \in sending
  <2> SUFFICES ASSUME NEW f \in Event, <<s, f>> \in sending PROVE FALSE
    OBVIOUS
  <2>1. f = e
    BY <1>1 DEF JobsRight, j
  <2> QED BY <1>1, <2>1 DEF JobsRight, j
<1>16. k = SeqKey(n + 1) /\ (n > 0 => sent[s][n][2] < e)
  <2>1. 1 \in DOMAIN Queue(s)
    <3>1. Queue(s) \in Seq(Event) /\ Len(Queue(s)) \in Nat /\ DOMAIN Queue(s) = 1 .. Len(Queue(s))
      BY QueueOf
    <3>2. Len(Queue(s)) # 0
      BY <1>14, <3>1, EmptySeq
    <3> QED BY <3>1, <3>2
  <2> QED BY <1>1, <1>14, <1>15, <2>1 DEF SentRight, n, k
<1>17. SentInOrder'
  <2> SUFFICES ASSUME NEW x \in Sid, NEW i \in DOMAIN sent'[x]
               PROVE  /\ i = 1 => sent'[x][i][1] = 0
                      /\ i > 1 => /\ sent'[x][i][1] = 1 + ((i - 2) % KeyMax)
                                  /\ sent'[x][i][2] > sent'[x][i - 1][2]
    BY DEF SentInOrder
  <2>1. CASE x # s
    BY <1>4, <2>1 DEF SentInOrder
  <2>2. CASE x = s /\ i # n + 1
    <3>1. i \in 1 .. n /\ (i > 1 => i - 1 \in 1 .. n)
      BY <1>2, <1>5, <2>2
    <3>2. sent'[x][i] = sent[x][i] /\ (i > 1 => sent'[x][i - 1] = sent[x][i - 1])
      BY <1>5, <2>2, <3>1
    <3>3. i \in DOMAIN sent[x]
      BY <1>2, <2>2, <3>1
    <3>4. /\ i = 1 => sent[x][i][1] = 0
          /\ i > 1 => /\ sent[x][i][1] = 1 + ((i - 2) % KeyMax)
                      /\ sent[x][i][2] > sent[x][i - 1][2]
      BY <3>3, Zenon DEF SentInOrder
    <3> QED BY <3>2, <3>4
  <2>3. CASE x = s /\ i = n + 1
    <3>1. sent'[x][i][1] = SeqKey(i) /\ sent'[x][i][2] = e
      BY <1>5, <1>16, <2>3
    <3>2. i = 1 => sent'[x][i][1] = 0
      BY <3>1 DEF SeqKey
    <3>3. ASSUME i > 1 PROVE sent'[x][i][1] = 1 + ((i - 2) % KeyMax) /\ sent'[x][i][2] > sent'[x][i - 1][2]
      <4>1. n > 0 /\ i - 1 = n /\ n \in 1 .. n /\ i # 1
        BY <1>2, <2>3, <3>3
      <4>2. sent'[x][i - 1][2] = sent[s][n][2]
        BY <1>5, <2>3, <4>1
      <4>3. sent[s][n] \in (0 .. KeyMax) \X Event
        BY <1>2, <4>1
      <4>4. sent[s][n][2] < e /\ sent[s][n][2] \in Int /\ e \in Int
        BY <1>16, <4>1, <4>3 DEF Event
      <4> QED BY <3>1, <4>1, <4>2, <4>4 DEF SeqKey
    <3> QED BY <3>2, <3>3
  <2> QED BY <2>1, <2>2, <2>3
<1>18. SentRight'
  <2> SUFFICES ASSUME NEW x \in subscriptionList
               PROVE  LET m == Len(sent'[x]) IN
                      /\ (\E f \in Event : <<x, f>> \in sending') =>
                           m > 0 /\ sub[x].ToSendEventKey = SeqKey(m) /\ Queue(x) # <<>> /\ sent'[x][m][2] = Queue(x)[1]
                      /\ ~(\E f \in Event : <<x, f>> \in sending') =>
                           /\ sub[x].ToSendEventKey = SeqKey(m + 1)
                           /\ m > 0 => \A i \in DOMAIN Queue(x) : sent'[x][m][2] < Queue(x)[i]
    BY <1>1, <1>8 DEF SentRight
  <2>1. x \in Sid
    BY DEF TypeOK
  <2>2. CASE x = s
    <3>1. <<x, e>> \in sending'
      BY <1>1, <2>2 DEF j
    <3>2. n + 1 > 0 /\ Len(sent'[x]) = n + 1 /\ sent'[x][n + 1][2] = e /\ sub[x].ToSendEventKey = SeqKey(n + 1)
      BY <1>2, <1>5, <1>16, <2>2 DEF k
    <3> QED BY <1>14, <2>2, <3>1, <3>2
  <2>3. CASE x # s
    <3>1. \A f \in Event : <<x, f>> \in sending' <=> <<x, f>> \in sending
      BY <1>1, <2>3 DEF j
    <3>2. sent'[x] = sent[x]
      BY <1>4, <2>1, <2>3
    <3> QED BY <3>1, <3>2 DEF SentRight
  <2> QED BY <2>2, <2>3
<1> QED BY <1>6, <1>9, <1>10, <1>11, <1>13, <1>17, <1>18

LEMMA SentRecord ==
  ASSUME NEW r \in SubRecord, NEW q, NEW k, NEW c, c = [[r EXCEPT !.ToSendEventKey = k] EXCEPT !.outgoing = q]
  PROVE  c = [active |-> r.active, expireTime |-> r.expireTime, ToSendEventKey |-> k, outgoing |-> q]
  BY DEF SubRecord

\* The subscriptions that the control point's answer ends.
Ended(s, unaccepted) == IF unaccepted THEN {s} ELSE {}

\* The structs that the second critical section frees.
Freed(s, e, R) == {<<s, e>>} \cup {j \in Job : j[1] = s /\ j[1] \in R /\ j[2] \in Waiting(Tail(Queue(s)))}

\* What the second critical section does when the subscription is still there.
Done(s, e, R) ==
  /\ Queue(s) # <<>> /\ Queue(s)[1] = e
  /\ s \in subscriptionList /\ subscriptionList' = subscriptionList \ R
  /\ TotalSubscriptions' = TotalSubscriptions - Cardinality(R)
  /\ sub' \in [Sid -> SubRecord]
  /\ \A x \in Sid : x # s => sub'[x] = sub[x]
  /\ s \in R => sub'[s] = NoSub
  /\ s \notin R => sub'[s] = [active |-> sub[s].active, expireTime |-> sub[s].expireTime,
                              ToSendEventKey |-> NextKey(sub[s].ToSendEventKey),
                              outgoing |-> Tail(Queue(s))]
  /\ refs' = Released(Freed(s, e, R))
  /\ \/ pool' = pool \cup Activated(s, Tail(Queue(s)))
     \/ faults # {} /\ pool' = pool

LEMMA NotifyDoneFacts ==
  ASSUME IInv, NEW s \in Sid, NEW e \in Event, NEW unaccepted \in BOOLEAN,
         NotifyDone(s, e, unaccepted), NEW R, R = Ended(s, unaccepted)
  PROVE  Done(s, e, R)
<1> USE DEF IInv
<1>1. <<s, e>> \in sending /\ s \in subscriptionList
  BY DEF NotifyDone, Found
<1>2. Queue(s) # <<>> /\ Queue(s)[1] = e
  BY <1>1, HeadIsNotWaiting
<1> DEFINE rest == IF sub[s].outgoing = <<>> THEN <<>> ELSE Tail(sub[s].outgoing)
           t == [sub EXCEPT ![s].ToSendEventKey = NextKey(@), ![s].outgoing = rest]
           k == NextKey(sub[s].ToSendEventKey)
           r == [active |-> sub[s].active, expireTime |-> sub[s].expireTime,
                 ToSendEventKey |-> k, outgoing |-> Tail(Queue(s))]
<1>3. rest = Tail(Queue(s))
  BY <1>2 DEF Queue
<1>4. /\ Unlink(R, t) /\ refs' = Released({<<s, e>>} \cup QueuedEvents(R, t))
      /\ pool' = pool \cup Activated(s, rest) \/ ("pool" \in faults /\ UNCHANGED pool)
  BY DEF NotifyDone, Ended
<1>5. sub \in [Sid -> SubRecord] /\ sub[s] \in SubRecord
  BY DEF TypeOK
<1>6. k \in 0 .. KeyMax /\ Tail(Queue(s)) \in Seq(Event)
  <2>1. Ordered(Queue(s), lastEvent) /\ lastEvent \in Nat
    BY QueueOf
  <2>2. Tail(Queue(s)) \in Seq(Event)
    BY <1>2, <2>1, QueueTail DEF Ordered
  <2>3. KeyMax \in Nat \ {0} /\ sub[s].ToSendEventKey \in 0 .. KeyMax
    BY <1>5, GenaConstants DEF SubRecord
  <2> QED BY <2>2, <2>3 DEF NextKey
<1>7. r \in SubRecord
  BY <1>5, <1>6 DEF SubRecord
<1>8. t[s] = r /\ (\A x \in Sid : x # s => t[x] = sub[x]) /\ t \in [Sid -> SubRecord]
  <2> HIDE DEF r, rest
  <2>1. t[s] = [[sub[s] EXCEPT !.ToSendEventKey = k] EXCEPT !.outgoing = rest]
    BY <1>5
  <2>2. t[s] = r
    <3> HIDE DEF t, k
    <3>1. \A c : c = [[sub[s] EXCEPT !.ToSendEventKey = k] EXCEPT !.outgoing = rest] =>
                 c = [active |-> sub[s].active, expireTime |-> sub[s].expireTime, ToSendEventKey |-> k, outgoing |-> rest]
      BY <1>5, SentRecord
    <3> QED BY <1>3, <2>1, <3>1, Zenon DEF r
  <2>3. \A x \in Sid : x # s => t[x] = sub[x]
    BY <1>5
  <2>4. t = [x \in Sid |-> t[x]]
    BY <1>5
  <2> HIDE DEF t
  <2>5. \A x \in Sid : t[x] \in SubRecord
    BY <1>5, <1>7, <2>2, <2>3
  <2> QED BY <2>2, <2>3, <2>4, <2>5
<1>9. t[s].outgoing = Tail(Queue(s))
  <2>1. t[s] = r /\ r.outgoing = Tail(Queue(s))
    BY <1>8
  <2> HIDE DEF t, r
  <2> QED BY <2>1
<1> HIDE DEF t, r, rest
<1>10. /\ sub' = [x \in Sid |-> IF x \in R THEN NoSub ELSE t[x]]
       /\ subscriptionList' = subscriptionList \ R /\ TotalSubscriptions' = TotalSubscriptions - Cardinality(R)
  BY <1>4 DEF Unlink
<1>11. R \subseteq {s}
  BY DEF Ended
<1>12. sub' \in [Sid -> SubRecord]
  BY <1>8, <1>10, NoSubType
<1>13. (\A x \in Sid : x # s => sub'[x] = sub[x]) /\ (s \in R => sub'[s] = NoSub) /\ (s \notin R => sub'[s] = r)
  BY <1>8, <1>10, <1>11
<1>14. {<<s, e>>} \cup QueuedEvents(R, t) = Freed(s, e, R)
  <2>1. QueuedEvents(R, t) = {j \in Job : j[1] = s /\ j[1] \in R /\ j[2] \in Waiting(Tail(Queue(s)))}
    BY <1>9, <1>11 DEF QueuedEvents
  <2> QED BY <2>1 DEF Freed
<1> QED BY <1>1, <1>2, <1>3, <1>4, <1>10, <1>12, <1>13, <1>14 DEF r, Done

LEMMA NotifyDoneStep ==
  ASSUME IInv, NEW s \in Sid, NEW e \in Event, NEW unaccepted \in BOOLEAN,
         NotifyDone(s, e, unaccepted), faults' = faults
  PROVE  IInv'
<1>1. PICK R : R = Ended(s, unaccepted)
  OBVIOUS
<1>0. Done(s, e, R)
  BY <1>1, NotifyDoneFacts
<1> DEFINE q == Queue(s)
           r == Tail(q)
           h == Activated(s, r)
<1>2. /\ q # <<>> /\ q[1] = e
      /\ s \in subscriptionList /\ subscriptionList' = subscriptionList \ R
      /\ TotalSubscriptions' = TotalSubscriptions - Cardinality(R)
      /\ sub' \in [Sid -> SubRecord]
      /\ \A x \in Sid : x # s => sub'[x] = sub[x]
      /\ s \in R => sub'[s] = NoSub
  BY <1>0 DEF Done
<1>3. s \notin R => /\ sub'[s].active = sub[s].active
                    /\ sub'[s].ToSendEventKey = NextKey(sub[s].ToSendEventKey)
                    /\ sub'[s].outgoing = r
  <2>1. s \notin R => sub'[s] = [active |-> sub[s].active, expireTime |-> sub[s].expireTime,
                                 ToSendEventKey |-> NextKey(sub[s].ToSendEventKey),
                                 outgoing |-> Tail(Queue(s))]
    BY <1>0 DEF Done
  <2> QED BY <2>1
<1>4. refs' = Released(Freed(s, e, R)) /\ (pool' = pool \cup h \/ (faults # {} /\ pool' = pool))
  BY <1>0 DEF Done
<1> USE DEF IInv
<1>5. /\ <<s, e>> \in sending /\ registered /\ sending' = sending \ {<<s, e>>}
      /\ MaxSubscriptions' = MaxSubscriptions /\ registered' = registered
      /\ ctime' = ctime /\ lastSid' = lastSid /\ lastEvent' = lastEvent /\ accepted' = accepted
      /\ sent' = sent /\ now' = now
  BY DEF NotifyDone, Found
<1>6. R \subseteq {s} /\ subscriptionList \subseteq Sid
  BY <1>1 DEF TypeOK, Ended
<1>7. Ordered(q, lastEvent) /\ lastEvent \in Nat
  BY QueueOf
<1>8. /\ Ordered(r, lastEvent)
      /\ Waiting(q) = Waiting(r) \cup {r[i] : i \in DOMAIN r \cap {1}}
      /\ \A i \in DOMAIN r : q[1] < r[i]
      /\ r # <<>> => r[1] \notin Waiting(r) /\ r[1] \in Event
      /\ q[1] \notin Waiting(q)
  BY <1>2, <1>7, QueueTail
<1>9. r \in Seq(Event) /\ DOMAIN r = 1 .. Len(r) /\ Len(r) \in Nat /\ (r = <<>> <=> Len(r) = 0)
  BY <1>8, LenProperties, EmptySeq DEF Ordered
<1>10. DOMAIN r \cap {1} = IF r = <<>> THEN {} ELSE {1}
  BY <1>9
<1>11. h = IF r = <<>> THEN {} ELSE {<<s, r[1]>>}
  BY <1>10 DEF Activated
<1>12. Waiting(q) = Waiting(r) \cup (IF r = <<>> THEN {} ELSE {r[1]})
  BY <1>8, <1>10
<1> HIDE DEF q, r, h
<1>13. \A x \in Sid : (x # s => (Queue(x))' = Queue(x)) /\ (x = s /\ x \notin R => (Queue(x))' = r) /\ (x \in R => (Queue(x))' = <<>>)
  BY <1>2, <1>3, <1>6, NoSubType DEF Queue
\* Queues
<1>14. Queues'
  <2> SUFFICES ASSUME NEW x \in Sid
               PROVE  /\ x \notin subscriptionList' => sub'[x] = NoSub
                      /\ ~sub'[x].active => (Queue(x))' = <<>>
                      /\ \A i \in DOMAIN (Queue(x))' : (Queue(x))'[i] <= lastEvent'
                      /\ \A i, j \in DOMAIN (Queue(x))' : i < j => (Queue(x))'[i] < (Queue(x))'[j]
    BY DEF Queues
  <2>1. CASE x # s
    <3>1. sub'[x] = sub[x] /\ (Queue(x))' = Queue(x) /\ (x \notin subscriptionList' => x \notin subscriptionList)
      BY <1>2, <1>6, <1>13, <2>1
    <3> QED BY <1>5, <3>1 DEF Queues
  <2>2. CASE x = s /\ s \in R
    <3>1. sub'[x] = NoSub /\ (Queue(x))' = <<>>
      BY <1>2, <1>13, <2>2
    <3> QED BY <3>1
  <2>3. CASE x = s /\ s \notin R
    <3>1. x \in subscriptionList' /\ (Queue(x))' = r /\ sub'[x].active = sub[x].active
      BY <1>2, <1>3, <1>13, <2>3
    <3>2. sub[x].active
      BY <1>2, <2>3 DEF Queues, q
    <3> QED BY <1>5, <1>8, <1>9, <3>1, <3>2 DEF Ordered
  <2> QED BY <2>1, <2>2, <2>3
\* jobs
<1>15. \A f \in Event : <<s, f>> \in pool \cup sending => f = e
  BY <1>5 DEF JobsRight
<1>16. \A x \in Sid : \A f \in Event : <<x, f>> \in pool' \cup sending' =>
         IF x = s THEN r # <<>> /\ f = r[1] /\ <<x, f>> \notin sending' ELSE <<x, f>> \in pool \cup sending
  <2> SUFFICES ASSUME NEW x \in Sid, NEW f \in Event, <<x, f>> \in pool' \cup sending'
               PROVE  IF x = s THEN r # <<>> /\ f = r[1] /\ <<x, f>> \notin sending' ELSE <<x, f>> \in pool \cup sending
    OBVIOUS
  <2>1. CASE x # s
    BY <1>4, <1>5, <1>11, <2>1
  <2>2. CASE x = s
    <3>1. <<x, f>> \notin sending'
      BY <1>5, <1>15, <2>2
    <3>2. <<x, f>> \notin pool
      BY <1>5, <1>15, <2>2 DEF JobsRight
    <3>3. <<x, f>> \in h
      BY <1>4, <3>1, <3>2
    <3> QED BY <1>11, <2>2, <3>1, <3>3
  <2> QED BY <2>1, <2>2
<1>17. JobsRight'
  <2>1. pool' \cap sending' = {}
    <3>1. h \cap sending = {}
      <4>1. r # <<>> => r[1] # e /\ r[1] \in Event
        <5>1. r # <<>> => r[1] \in Waiting(q)
          BY <1>12
        <5> QED BY <1>2, <1>8, <5>1
      <4> QED BY <1>11, <1>15, <4>1
    <3> QED BY <1>4, <1>5, <3>1 DEF JobsRight
  <2>2. ASSUME NEW x \in Sid, NEW f \in Event, NEW g \in Event,
               <<x, f>> \in pool' \cup sending', <<x, g>> \in pool' \cup sending'
        PROVE  f = g
    <3>1. CASE x = s
      BY <1>16, <2>2, <3>1
    <3>2. CASE x # s
      <4>1. <<x, f>> \in pool \cup sending /\ <<x, g>> \in pool \cup sending
        BY <1>16, <2>2, <3>2
      <4> QED BY <4>1 DEF JobsRight
    <3> QED BY <3>1, <3>2
  <2>3. ASSUME NEW x \in subscriptionList', NEW f \in Event, <<x, f>> \in pool' \cup sending'
        PROVE  (Queue(x))' # <<>> /\ (Queue(x))'[1] = f
    <3>1. x \in Sid /\ x \in subscriptionList /\ x \notin R
      BY <1>2, <1>6
    <3>2. CASE x = s
      BY <1>13, <1>16, <2>3, <3>1, <3>2
    <3>3. CASE x # s
      <4>1. <<x, f>> \in pool \cup sending /\ (Queue(x))' = Queue(x)
        BY <1>13, <1>16, <2>3, <3>1, <3>3
      <4> QED BY <3>1, <4>1 DEF JobsRight
    <3> QED BY <3>2, <3>3
  <2> QED BY <2>1, <2>2, <2>3 DEF JobsRight
\* counts
<1> DEFINE F == Freed(s, e, R)
           N == Live'
<1>18. \A j \in Job : j[1] \in Sid /\ j[2] \in Event /\ j = <<j[1], j[2]>>
  BY DEF Job
<1>19. <<s, e>> \in Job
  BY DEF Job
<1>20. ASSUME NEW j \in F PROVE j \in Live
  <2>1. CASE j = <<s, e>>
    BY <1>5, <2>1 DEF Live
  <2>2. CASE j # <<s, e>>
    <3>1. j \in Job /\ j[1] = s /\ j[2] \in Waiting(r)
      BY <1>20, <2>2 DEF Freed, r, q
    <3>2. j[2] \in Waiting(q)
      BY <1>12, <3>1
    <3> QED BY <1>2, <3>1, <3>2 DEF Live, InQueue, q
  <2> QED BY <2>1, <2>2
<1>21. ASSUME NEW j \in N PROVE j \in Live /\ j \notin F
  <2>1. j \in Job
    <3>1. h \subseteq Job
      BY <1>8, <1>11 DEF Job
    <3>2. pool' \subseteq Job /\ sending' \subseteq Job
      BY <1>4, <1>5, <3>1 DEF TypeOK
    <3> QED BY <1>21, <3>2 DEF Live, InQueue
  <2>2. CASE j[1] # s
    <3>1. j \notin F
      BY <2>2 DEF Freed
    <3>2. j \in pool' \cup sending' => j \in pool \cup sending
      BY <1>16, <1>18, <2>1, <2>2
    <3>3. j \in InQueue' => j \in InQueue
      BY <1>2, <1>13, <1>18, <2>1, <2>2 DEF InQueue
    <3> QED BY <1>21, <3>1, <3>2, <3>3 DEF Live
  <2>3. CASE j[1] = s /\ j \in pool' \cup sending'
    <3>1. r # <<>> /\ j[2] = r[1]
      BY <1>16, <1>18, <2>1, <2>3
    <3>2. j[2] \in Waiting(q) /\ j[2] \notin Waiting(r) /\ j[2] # e
      BY <1>2, <1>8, <1>12, <3>1
    <3>3. j \in Live
      BY <1>2, <2>1, <2>3, <3>2 DEF Live, InQueue, q
    <3> QED BY <3>2, <3>3 DEF Freed, r, q
  <2>4. CASE j[1] = s /\ j \in InQueue'
    <3>1. s \notin R /\ j[2] \in Waiting(r)
      BY <1>2, <1>13, <2>4 DEF InQueue
    <3>2. j[2] \in Waiting(q) /\ j[2] # e
      BY <1>2, <1>8, <1>12, <3>1
    <3>3. j \in Live
      BY <1>2, <2>1, <2>4, <3>2 DEF Live, InQueue, q
    <3> QED BY <3>1, <3>2, <3>3 DEF Freed
  <2> QED BY <1>21, <2>2, <2>3, <2>4 DEF Live
<1>22. ASSUME faults = {}, NEW j \in Live, j \notin F PROVE j \in N
  <2>1. j \in Job /\ j # <<s, e>>
    BY <1>22 DEF Live, InQueue, Freed, TypeOK
  <2>2. CASE j \in pool \cup sending
    BY <1>4, <1>5, <1>22, <2>1, <2>2 DEF Live
  <2>3. CASE j \in InQueue /\ j[1] # s
    <3>1. j \in InQueue'
      BY <1>2, <1>6, <1>13, <1>18, <2>1, <2>3 DEF InQueue
    <3> QED BY <3>1 DEF Live
  <2>4. CASE j \in InQueue /\ j[1] = s
    <3>1. j[2] \in Waiting(q)
      BY <2>4 DEF InQueue, q
    <3>2. CASE r # <<>> /\ j[2] = r[1]
      <4>1. j \in h
        BY <1>11, <1>18, <2>1, <2>4, <3>2
      <4> QED BY <1>4, <1>22, <4>1 DEF Live
    <3>3. CASE j[2] \in Waiting(r)
      <4>1. s \notin R
        BY <1>22, <2>1, <2>4, <3>3 DEF Freed, r, q
      <4>2. j \in InQueue'
        BY <1>2, <1>13, <2>1, <2>4, <3>3, <4>1 DEF InQueue
      <4> QED BY <4>2 DEF Live
    <3> QED BY <1>12, <3>1, <3>2, <3>3
  <2> QED BY <2>2, <2>3, <2>4 DEF Live
<1> HIDE DEF F, N
<1>23. F \subseteq Live /\ N \subseteq Live \ F /\ (faults = {} => N = Live \ F)
  BY <1>20, <1>21, <1>22
<1>24. \A f \in Event : /\ Released(F)[f] \in Nat
                        /\ Released(F)[f] <= refs[f]
                        /\ Released(F)[f] >= Cardinality(LiveOf(N, f))
                        /\ faults = {} => Released(F)[f] = Cardinality(LiveOf(N, f))
  BY <1>23, ReleasedRefs
<1>25. \A f \in Event : LiveOf(N, f) = (LiveOf(Live, f))'
  BY DEF LiveOf, N
<1>26. refs' = Released(F)
  BY <1>4 DEF F
<1>27. RefsRight' /\ refs' \in [Event -> Nat]
  BY <1>24, <1>25, <1>26, ReleasedType DEF RefsRight
<1>28. TotalExact' /\ TotalSubscriptions' \in Nat
  <2>1. IsFiniteSet(subscriptionList) /\ Cardinality(subscriptionList \ R) \in Nat
    BY <1>6, Finite
  <2>2. Cardinality(subscriptionList \ R) = Cardinality(subscriptionList) - Cardinality(subscriptionList \cap R)
    BY <2>1, FS_Difference
  <2>3. subscriptionList \cap R = R
    BY <1>2, <1>6
  <2> QED BY <1>2, <2>1, <2>2, <2>3 DEF TotalExact
<1>29. TypeOK'
  <2>1. h \subseteq Job
    BY <1>8, <1>11 DEF Job
  <2>2. pool' \subseteq Job /\ sending' \subseteq Job /\ subscriptionList' \subseteq Sid
    BY <1>2, <1>4, <1>5, <2>1 DEF TypeOK
  <2> QED BY <1>2, <1>5, <1>27, <1>28, <2>2 DEF TypeOK
<1>30. Numbered'
  <2>1. \A x \in Sid, f \in Event : <<x, f>> \in pool' \cup sending' => x <= lastSid /\ f <= lastEvent
    <3> SUFFICES ASSUME NEW x \in Sid, NEW f \in Event, <<x, f>> \in pool' \cup sending'
                 PROVE  x <= lastSid /\ f <= lastEvent
      OBVIOUS
    <3>1. CASE x # s
      BY <1>16, <3>1 DEF Numbered
    <3>2. CASE x = s
      <4>1. r # <<>> /\ f = r[1]
        BY <1>16, <3>2
      <4>2. 1 \in 1 .. Len(r)
        BY <1>9, <4>1
      <4>3. s <= lastSid
        BY <1>2 DEF Numbered
      <4> QED BY <1>8, <3>2, <4>1, <4>2, <4>3 DEF Ordered
    <3> QED BY <3>1, <3>2
  <2>2. \A f \in Event : f > lastEvent => refs'[f] = 0
    <3> SUFFICES ASSUME NEW f \in Event, f > lastEvent PROVE refs'[f] = 0
      OBVIOUS
    <3>1. refs[f] = 0
      BY DEF Numbered
    <3>2. Released(F)[f] \in Nat /\ Released(F)[f] <= refs[f]
      BY <1>24
    <3> QED BY <1>26, <3>1, <3>2
  <2> QED BY <1>2, <1>5, <2>1, <2>2 DEF Numbered
<1>31. SentInOrder'
  BY <1>5 DEF SentInOrder
<1>32. SentRight'
  <2> SUFFICES ASSUME NEW x \in subscriptionList'
               PROVE  LET m == Len(sent[x]) IN
                      /\ (\E f \in Event : <<x, f>> \in sending') =>
                           m > 0 /\ sub'[x].ToSendEventKey = SeqKey(m) /\ (Queue(x))' # <<>> /\ sent[x][m][2] = (Queue(x))'[1]
                      /\ ~(\E f \in Event : <<x, f>> \in sending') =>
                           /\ sub'[x].ToSendEventKey = SeqKey(m + 1)
                           /\ m > 0 => \A i \in DOMAIN (Queue(x))' : sent[x][m][2] < (Queue(x))'[i]
    BY <1>5 DEF SentRight
  <2>1. x \in Sid /\ x \in subscriptionList /\ x \notin R
    BY <1>2, <1>6
  <2>2. CASE x = s
    <3> DEFINE m == Len(sent[x])
    <3>1. ~(\E f \in Event : <<x, f>> \in sending')
      BY <1>5, <1>15, <2>2
    <3>2. m > 0 /\ sub[x].ToSendEventKey = SeqKey(m) /\ sent[x][m][2] = q[1]
      BY <1>5, <2>1, <2>2 DEF SentRight, q
    <3>3. m \in Nat \ {0}
      <4>1. m \in Nat
        BY <2>1, LenProperties DEF TypeOK
      <4> QED BY <3>2, <4>1
    <3> HIDE DEF m
    <3>4. sub'[x].ToSendEventKey = SeqKey(m + 1)
      BY <1>3, <2>1, <2>2, <3>2, <3>3, KeyStep
    <3>5. \A i \in DOMAIN (Queue(x))' : sent[x][m][2] < (Queue(x))'[i]
      BY <1>8, <1>13, <2>1, <2>2, <3>2
    <3> QED BY <3>1, <3>4, <3>5 DEF m
  <2>3. CASE x # s
    <3>1. \A f \in Event : <<x, f>> \in sending' <=> <<x, f>> \in sending
      BY <1>5, <2>3
    <3>2. sub'[x] = sub[x] /\ (Queue(x))' = Queue(x)
      BY <1>2, <1>13, <2>1, <2>3
    <3> QED BY <2>1, <3>1, <3>2 DEF SentRight
  <2> QED BY <2>2, <2>3
<1> QED BY <1>14, <1>17, <1>27, <1>28, <1>29, <1>30, <1>31, <1>32

-----------------------------------------------------------------------------
(* genaNotifyAllCommon: an event for the subscriptions S; those of P got it but  *)
(* not their job, those of X were pruned but did not get it, those of R expired. *)

NewEvent == lastEvent + 1

NewQueue(s, S, P, X) ==
  IF s \in S THEN Append(Pruned(Queue(s)), NewEvent)
  ELSE IF s \in P THEN <<NewEvent>>
  ELSE IF s \in X THEN Pruned(Queue(s)) ELSE Queue(s)

Gone(S, X, R) == DiscardedJobs(S \cup X) \cup QueuedEvents(R, sub)

Fanout(S, P, X, R) ==
  /\ S \subseteq subscriptionList /\ P \subseteq subscriptionList /\ X \subseteq subscriptionList
  /\ R \subseteq subscriptionList
  /\ S \cap P = {} /\ S \cap X = {} /\ P \cap X = {} /\ R \cap (S \cup P \cup X) = {}
  /\ \A s \in S \cup P \cup X : sub[s].active
  /\ \A s \in P : Queue(s) = <<>>
  /\ P \cup X # {} => faults # {}
  /\ NewEvent \in Event
  /\ \A s \in Sid \ R : sub'[s] = [active |-> sub[s].active, expireTime |-> sub[s].expireTime,
                                   ToSendEventKey |-> sub[s].ToSendEventKey,
                                   outgoing |-> NewQueue(s, S, P, X)]
  /\ \A s \in R : sub'[s] = NoSub
  /\ sub' = [s \in Sid |-> sub'[s]]
  /\ subscriptionList' = subscriptionList \ R
  /\ TotalSubscriptions' = TotalSubscriptions - Cardinality(R)
  /\ pool' = pool \cup {<<s, NewEvent>> : s \in {x \in S : Queue(x) = <<>>}}
  /\ S \cup P \cup X = {} => /\ refs' = Released(Gone(S, X, R))
                             /\ lastEvent' = lastEvent /\ ctime' = ctime
  /\ S \cup P \cup X # {} => /\ refs' = [Released(Gone(S, X, R)) EXCEPT ![NewEvent] = Cardinality(S \cup P \cup X)]
                             /\ lastEvent' = NewEvent
                             /\ ctime' = [ctime EXCEPT ![NewEvent] = now]
  /\ sending' = sending /\ MaxSubscriptions' = MaxSubscriptions /\ registered' = registered
  /\ lastSid' = lastSid /\ accepted' = accepted /\ sent' = sent /\ now' = now /\ faults' = faults
  /\ registered

\* The queue of each subscription that stays.
LEMMA FanoutQueue ==
  ASSUME TypeOK, Queues, NEW S, NEW P, NEW X, NEW R, Fanout(S, P, X, R), NEW s \in Sid, s \notin R,
         NEW q, NEW r, q = Queue(s), r = NewQueue(s, S, P, X)
  PROVE  /\ Ordered(r, lastEvent') /\ lastEvent' \in Nat /\ lastEvent <= lastEvent'
         /\ q # <<>> => r # <<>> /\ r[1] = q[1]
         /\ \A i \in DOMAIN r : \/ \E j \in DOMAIN q : r[i] = q[j]
                                \/ r[i] = NewEvent
         /\ Waiting(r) = (IF s \in S \cup X THEN Waiting(q) \ {q[i] : i \in Discarded(q)} ELSE Waiting(q))
                         \cup (IF s \in S /\ q # <<>> THEN {NewEvent} ELSE {})
         /\ s \in S => r # <<>> /\ (q = <<>> => r[1] = NewEvent)
<1>1. Ordered(q, lastEvent) /\ lastEvent \in Nat /\ q \in Seq(Event) /\ DOMAIN q = 1 .. Len(q)
  BY QueueOf
<1>2. NewEvent \in Event /\ NewEvent \in Nat /\ lastEvent < NewEvent
  BY <1>1 DEF Fanout, NewEvent
<1>3. lastEvent' \in {lastEvent, NewEvent} /\ (s \in S \cup P \cup X => lastEvent' = NewEvent)
  BY DEF Fanout
<1>4. lastEvent' \in Nat /\ lastEvent <= lastEvent'
  BY <1>1, <1>2, <1>3
<1>5. ASSUME NEW y, NEW m \in Nat, NEW n \in Nat, Ordered(y, m), m <= n PROVE Ordered(y, n)
  <2>1. y \in Seq(Event) /\ \A i \in 1 .. Len(y) : y[i] \in Event
    BY <1>5 DEF Ordered
  <2>2. \A i \in 1 .. Len(y) : y[i] \in Nat
    BY <2>1 DEF Event
  <2> QED BY <1>5, <2>2 DEF Ordered
<1>6. /\ Ordered(Pruned(q), lastEvent)
      /\ Pruned(q) = <<>> <=> q = <<>>
      /\ q # <<>> => Pruned(q)[1] = q[1]
      /\ \A i \in 1 .. Len(Pruned(q)) : \E j \in 1 .. Len(q) : Pruned(q)[i] = q[j]
      /\ Waiting(Pruned(q)) = Waiting(q) \ {q[i] : i \in Discarded(q)}
  BY <1>1, QueuePruned
<1> DEFINE p == Pruned(q)
           w == {q[i] : i \in Discarded(q)}
<1> HIDE DEF p, w
<1>7. p \in Seq(Event) /\ DOMAIN p = 1 .. Len(p) /\ Len(p) \in Nat
  BY <1>6, LenProperties DEF Ordered, p
<1>8. S \cap P = {} /\ S \cap X = {} /\ P \cap X = {} /\ (s \in P => q = <<>>)
  BY DEF Fanout
<1>9. CASE s \in S
  <2>1. r = Append(p, NewEvent)
    BY <1>9 DEF NewQueue, p
  <2>2. Ordered(p, lastEvent)
    BY <1>6 DEF p
  <2>3. /\ Ordered(r, NewEvent) /\ Len(r) = Len(p) + 1 /\ r # <<>>
        /\ \A i \in 1 .. Len(p) : r[i] = p[i]
        /\ r[Len(p) + 1] = NewEvent
        /\ Waiting(r) = IF p = <<>> THEN {} ELSE Waiting(p) \cup {NewEvent}
        /\ r[1] = IF p = <<>> THEN NewEvent ELSE p[1]
    BY <1>1, <1>2, <2>1, <2>2, QueueAppend
  <2>4. DOMAIN r = 1 .. (Len(p) + 1)
    BY <2>3, LenProperties DEF Ordered
  <2>5. \A i \in DOMAIN r : (\E j \in DOMAIN q : r[i] = q[j]) \/ r[i] = NewEvent
    <3> SUFFICES ASSUME NEW i \in DOMAIN r, i # Len(p) + 1 PROVE \E j \in DOMAIN q : r[i] = q[j]
      BY <2>3
    <3>1. i \in 1 .. Len(p)
      BY <1>7, <2>4
    <3> QED BY <1>1, <1>6, <2>3, <3>1 DEF p
  <2>6. lastEvent' = NewEvent
    BY <1>3, <1>9
  <2>7. Waiting(r) = (Waiting(q) \ w) \cup (IF q # <<>> THEN {NewEvent} ELSE {})
    <3>1. CASE q = <<>>
      <4>1. Waiting(q) = {}
        BY <3>1 DEF Waiting
      <4>2. p = <<>>
        BY <1>6, <3>1 DEF p
      <4> QED BY <2>3, <3>1, <4>1, <4>2
    <3>2. CASE q # <<>>
      <4>1. p # <<>>
        BY <1>6, <3>2 DEF p
      <4> QED BY <1>6, <2>3, <3>2, <4>1 DEF p, w
    <3> QED BY <3>1, <3>2
  <2>8. (q # <<>> => r[1] = q[1]) /\ (q = <<>> => r[1] = NewEvent)
    BY <1>6, <2>3 DEF p
  <2> QED BY <1>4, <1>9, <2>3, <2>5, <2>6, <2>7, <2>8 DEF w
<1>10. CASE s \in P
  <2>1. r = <<NewEvent>> /\ q = <<>> /\ s \notin S \cup X /\ lastEvent' = NewEvent
    BY <1>3, <1>8, <1>10 DEF NewQueue
  <2>2. Ordered(r, NewEvent) /\ DOMAIN r = {1} /\ r[1] = NewEvent
    BY <1>2, <2>1 DEF Ordered
  <2>3. Waiting(r) = {} /\ Waiting(q) = {}
    BY <2>1 DEF Waiting
  <2> QED BY <1>4, <2>1, <2>2, <2>3
<1>11. CASE s \in X
  <2>1. r = p /\ s \notin S
    BY <1>8, <1>11 DEF NewQueue, p
  <2>2. Ordered(r, lastEvent')
    BY <1>1, <1>4, <1>5, <1>6, <2>1 DEF p
  <2>3. \A i \in DOMAIN r : \E j \in DOMAIN q : r[i] = q[j]
    <3>1. \A i \in 1 .. Len(p) : \E j \in 1 .. Len(q) : p[i] = q[j]
      BY <1>6 DEF p
    <3> QED BY <1>1, <1>7, <2>1, <3>1
  <2>4. (q # <<>> => r # <<>> /\ r[1] = q[1]) /\ Waiting(r) = Waiting(q) \ w
    BY <1>6, <2>1 DEF p, w
  <2> QED BY <1>4, <1>11, <2>1, <2>2, <2>3, <2>4 DEF w
<1>12. CASE s \notin S \cup P \cup X
  <2>1. r = q
    BY <1>12 DEF NewQueue
  <2>2. Ordered(r, lastEvent')
    BY <1>1, <1>4, <1>5, <2>1
  <2> QED BY <1>4, <1>12, <2>1, <2>2
<1> QED BY <1>9, <1>10, <1>11, <1>12

LEMMA SameRecord ==
  ASSUME NEW r \in SubRecord
  PROVE  r = [active |-> r.active, expireTime |-> r.expireTime,
              ToSendEventKey |-> r.ToSendEventKey, outgoing |-> r.outgoing]
  BY DEF SubRecord

LEMMA FanoutFacts ==
  ASSUME IInv, NEW S, NEW P, NEW X, NEW R, Fanout(S, P, X, R)
  PROVE  /\ sub' \in [Sid -> SubRecord]
         /\ \A s \in Sid : s \notin subscriptionList' => sub'[s] = NoSub
         /\ \A s \in Sid \ R : (Queue(s))' = NewQueue(s, S, P, X)
         /\ lastEvent' \in Nat /\ lastEvent <= lastEvent' /\ lastEvent' \in 0 .. MaxEvents
         /\ lastEvent \in Nat /\ NewEvent \in Event /\ NewEvent > lastEvent
         /\ S \cup P \cup X # {} => lastEvent' = NewEvent
         /\ S \in SUBSET Sid /\ S \cup P \cup X \in SUBSET Sid
<1> USE DEF IInv
<1>1. \A s \in Sid \ R : (Queue(s))' = NewQueue(s, S, P, X)
  BY DEF Fanout, Queue
<1>2. lastEvent \in Nat /\ NewEvent \in Event /\ NewEvent > lastEvent
  <2>1. lastEvent \in Nat
    BY GenaConstants DEF TypeOK
  <2> QED BY <2>1 DEF Fanout, NewEvent
<1>3. lastEvent' \in {lastEvent, NewEvent} /\ (S \cup P \cup X # {} => lastEvent' = NewEvent)
  BY DEF Fanout
<1>4. NewEvent \in 0 .. MaxEvents /\ lastEvent \in 0 .. MaxEvents
  BY <1>2 DEF TypeOK, Event
<1>5. lastEvent' \in Nat /\ lastEvent <= lastEvent' /\ lastEvent' \in 0 .. MaxEvents
  BY <1>2, <1>3, <1>4
<1>6. \A s \in Sid : s \notin subscriptionList' => sub'[s] = NoSub
  <2> SUFFICES ASSUME NEW s \in Sid, s \notin subscriptionList' PROVE sub'[s] = NoSub
    OBVIOUS
  <2>1. s \in R \/ (s \notin R /\ s \notin subscriptionList)
    BY DEF Fanout
  <2>2. CASE s \in R
    BY <2>2 DEF Fanout
  <2>3. CASE s \notin R /\ s \notin subscriptionList
    <3>1. sub'[s] = sub[s]
      <4>1. sub[s] \in SubRecord /\ s \notin S \cup P \cup X
        BY <2>3 DEF Fanout, TypeOK
      <4>2. NewQueue(s, S, P, X) = sub[s].outgoing
        BY <4>1 DEF NewQueue, Queue
      <4>3. sub'[s] = [active |-> sub[s].active, expireTime |-> sub[s].expireTime,
                       ToSendEventKey |-> sub[s].ToSendEventKey, outgoing |-> sub[s].outgoing]
        BY <2>3, <4>2 DEF Fanout
      <4> QED BY <4>1, <4>3, SameRecord
    <3> QED BY <2>3, <3>1 DEF Queues
  <2> QED BY <2>1, <2>2, <2>3
<1>7. \A s \in Sid : sub'[s] \in SubRecord
  <2> SUFFICES ASSUME NEW s \in Sid PROVE sub'[s] \in SubRecord
    OBVIOUS
  <2>1. CASE s \in R
    <3>1. sub'[s] = NoSub
      BY <2>1 DEF Fanout
    <3> QED BY <3>1, NoSubType
  <2>2. CASE s \notin R /\ s \in subscriptionList
    <3> DEFINE c == sub'[s]
               r == NewQueue(s, S, P, X)
    <3>1. sub[s] \in SubRecord
      BY DEF TypeOK
    <3>2. Ordered(r, lastEvent')
      BY <2>2, FanoutQueue
    <3>3. r \in Seq(Event)
      BY <3>2 DEF Ordered
    <3>4. c = [active |-> sub[s].active, expireTime |-> sub[s].expireTime,
               ToSendEventKey |-> sub[s].ToSendEventKey, outgoing |-> r]
      BY <2>2 DEF Fanout
    <3> HIDE DEF c, r
    <3>5. c \in SubRecord
      BY <3>1, <3>3, <3>4 DEF SubRecord
    <3> QED BY <3>5 DEF c
  <2>3. CASE s \notin R /\ s \notin subscriptionList
    <3>1. sub'[s] = sub[s]
      <4>1. sub[s] \in SubRecord /\ s \notin S \cup P \cup X
        BY <2>3 DEF Fanout, TypeOK
      <4>2. NewQueue(s, S, P, X) = sub[s].outgoing
        BY <4>1 DEF NewQueue, Queue
      <4>3. sub'[s] = [active |-> sub[s].active, expireTime |-> sub[s].expireTime,
                       ToSendEventKey |-> sub[s].ToSendEventKey, outgoing |-> sub[s].outgoing]
        BY <2>3, <4>2 DEF Fanout
      <4> QED BY <4>1, <4>3, SameRecord
    <3> QED BY <3>1 DEF TypeOK
  <2> QED BY <2>1, <2>2, <2>3
<1>8. sub' \in [Sid -> SubRecord]
  <2>1. sub' = [s \in Sid |-> sub'[s]]
    BY DEF Fanout
  <2> QED BY <1>7, <2>1
<1>9. S \in SUBSET Sid /\ S \cup P \cup X \in SUBSET Sid
  BY DEF Fanout, TypeOK
<1> QED BY <1>1, <1>2, <1>3, <1>5, <1>6, <1>8, <1>9

LEMMA FanoutKeepsQueues ==
  ASSUME IInv, NEW S, NEW P, NEW X, NEW R, Fanout(S, P, X, R)
  PROVE  Queues'
<1> USE DEF IInv
<1> SUFFICES ASSUME NEW s \in Sid
             PROVE  /\ s \notin subscriptionList' => sub'[s] = NoSub
                    /\ ~sub'[s].active => (Queue(s))' = <<>>
                    /\ \A i \in DOMAIN (Queue(s))' : (Queue(s))'[i] <= lastEvent'
                    /\ \A i, j \in DOMAIN (Queue(s))' : i < j => (Queue(s))'[i] < (Queue(s))'[j]
  BY DEF Queues
<1>1. s \notin subscriptionList' => sub'[s] = NoSub
  BY FanoutFacts
<1>2. CASE s \in R
  <2>1. sub'[s] = NoSub
    BY <1>2 DEF Fanout
  <2>2. (Queue(s))' = <<>>
    BY <2>1, NoSubType DEF Queue
  <2> QED BY <1>1, <2>2
<1>3. CASE s \notin R
  <2>1. PICK r : r = NewQueue(s, S, P, X)
    OBVIOUS
  <2>2. (Queue(s))' = r
    BY <1>3, <2>1, FanoutFacts
  <2>3. Ordered(r, lastEvent')
    BY <1>3, <2>1, FanoutQueue
  <2>4. DOMAIN r = 1 .. Len(r)
    BY <2>3, LenProperties DEF Ordered
  <2>5. ASSUME ~sub'[s].active PROVE r = <<>>
    <3>1. sub'[s].active = sub[s].active
      BY <1>3 DEF Fanout
    <3>2. s \notin S \cup P \cup X
      BY <2>5, <3>1 DEF Fanout
    <3>3. r = Queue(s)
      BY <2>1, <3>2 DEF NewQueue
    <3> QED BY <2>5, <3>1, <3>3 DEF Queues
  <2> QED BY <1>1, <2>2, <2>3, <2>4, <2>5 DEF Ordered
<1> QED BY <1>2, <1>3

\* The jobs of subscription x after the step.
LEMMA FanoutJobs ==
  ASSUME IInv, NEW S, NEW P, NEW X, NEW R, Fanout(S, P, X, R), NEW x \in Sid, NEW f \in Event
  PROVE  (<<x, f>> \in pool' \cup sending') <=>
           (<<x, f>> \in pool \cup sending \/ (x \in S /\ Queue(x) = <<>> /\ f = NewEvent))
  BY DEF Fanout

LEMMA FanoutKeepsJobs ==
  ASSUME IInv, NEW S, NEW P, NEW X, NEW R, Fanout(S, P, X, R)
  PROVE  JobsRight'
<1> USE DEF IInv
<1>1. S \subseteq subscriptionList /\ subscriptionList' = subscriptionList \ R /\ sending' = sending
  BY DEF Fanout
<1>2. \A x \in Sid : \A f \in Event : x \in S /\ Queue(x) = <<>> => <<x, f>> \notin pool \cup sending
  BY <1>1 DEF JobsRight
<1>3. pool' \cap sending' = {}
  <2>1. pool' = pool \cup {<<s, NewEvent>> : s \in {x \in S : Queue(x) = <<>>}} /\ NewEvent \in Event /\ S \subseteq Sid
    BY DEF Fanout, TypeOK
  <2> QED BY <1>1, <1>2, <2>1 DEF JobsRight
<1>4. ASSUME NEW x \in Sid, NEW f \in Event, NEW g \in Event,
             <<x, f>> \in pool' \cup sending', <<x, g>> \in pool' \cup sending'
      PROVE  f = g
  <2>1. /\ <<x, f>> \in pool \cup sending \/ (x \in S /\ Queue(x) = <<>> /\ f = NewEvent)
        /\ <<x, g>> \in pool \cup sending \/ (x \in S /\ Queue(x) = <<>> /\ g = NewEvent)
    BY <1>4, FanoutJobs
  <2> QED BY <1>2, <2>1 DEF JobsRight
<1>5. ASSUME NEW x \in subscriptionList', NEW f \in Event, <<x, f>> \in pool' \cup sending'
      PROVE  (Queue(x))' # <<>> /\ (Queue(x))'[1] = f
  <2>1. x \in subscriptionList /\ x \notin R /\ x \in Sid
    BY <1>1 DEF TypeOK
  <2>2. PICK q, r : q = Queue(x) /\ r = NewQueue(x, S, P, X)
    OBVIOUS
  <2>3. (Queue(x))' = r
    BY <2>1, <2>2, FanoutFacts
  <2>4. (q # <<>> => r # <<>> /\ r[1] = q[1]) /\ (x \in S => r # <<>> /\ (q = <<>> => r[1] = NewEvent))
    BY <2>1, <2>2, FanoutQueue
  <2>5. <<x, f>> \in pool \cup sending \/ (x \in S /\ q = <<>> /\ f = NewEvent)
    BY <1>5, <2>1, <2>2, FanoutJobs
  <2>6. CASE <<x, f>> \in pool \cup sending
    <3>1. q # <<>> /\ q[1] = f
      BY <2>1, <2>2, <2>6 DEF JobsRight
    <3> QED BY <2>3, <2>4, <3>1
  <2>7. CASE x \in S /\ q = <<>> /\ f = NewEvent
    BY <2>3, <2>4, <2>7
  <2> QED BY <2>5, <2>6, <2>7
<1> QED BY <1>3, <1>4, <1>5 DEF JobsRight

LEMMA FanoutKeepsSent ==
  ASSUME IInv, NEW S, NEW P, NEW X, NEW R, Fanout(S, P, X, R)
  PROVE  SentRight' /\ SentInOrder'
<1> USE DEF IInv
<1>1. S \subseteq subscriptionList /\ subscriptionList' = subscriptionList \ R /\ sending' = sending /\ sent' = sent
  BY DEF Fanout
<1>2. SentInOrder'
  BY <1>1 DEF SentInOrder
<1>3. SentRight'
  <2> SUFFICES ASSUME NEW x \in subscriptionList'
               PROVE  LET m == Len(sent[x]) IN
                      /\ (\E f \in Event : <<x, f>> \in sending) =>
                           m > 0 /\ sub'[x].ToSendEventKey = SeqKey(m) /\ (Queue(x))' # <<>> /\ sent[x][m][2] = (Queue(x))'[1]
                      /\ ~(\E f \in Event : <<x, f>> \in sending) =>
                           /\ sub'[x].ToSendEventKey = SeqKey(m + 1)
                           /\ m > 0 => \A i \in DOMAIN (Queue(x))' : sent[x][m][2] < (Queue(x))'[i]
    BY <1>1 DEF SentRight
  <2>1. x \in subscriptionList /\ x \notin R /\ x \in Sid
    BY <1>1 DEF TypeOK
  <2>2. PICK q, r : q = Queue(x) /\ r = NewQueue(x, S, P, X)
    OBVIOUS
  <2>3. (Queue(x))' = r
    BY <2>1, <2>2, FanoutFacts
  <2>4. /\ q # <<>> => r # <<>> /\ r[1] = q[1]
        /\ \A i \in DOMAIN r : (\E j \in DOMAIN q : r[i] = q[j]) \/ r[i] = NewEvent
    BY <2>1, <2>2, FanoutQueue
  <2>5. sub'[x].ToSendEventKey = sub[x].ToSendEventKey
    BY <2>1 DEF Fanout
  <2> DEFINE m == Len(sent[x])
  <2>6. /\ (\E f \in Event : <<x, f>> \in sending) =>
             m > 0 /\ sub[x].ToSendEventKey = SeqKey(m) /\ q # <<>> /\ sent[x][m][2] = q[1]
        /\ ~(\E f \in Event : <<x, f>> \in sending) =>
             /\ sub[x].ToSendEventKey = SeqKey(m + 1)
             /\ m > 0 => \A i \in DOMAIN q : sent[x][m][2] < q[i]
    BY <2>1, <2>2 DEF SentRight
  <2>7. m > 0 => sent[x][m][2] < NewEvent
    <3> SUFFICES ASSUME m > 0 PROVE sent[x][m][2] < NewEvent
      OBVIOUS
    <3>1. sent[x] \in Seq((0 .. KeyMax) \X Event) /\ m \in Nat /\ DOMAIN sent[x] = 1 .. m
      BY <2>1, LenProperties DEF TypeOK
    <3>2. m \in DOMAIN sent[x] /\ sent[x][m] \in (0 .. KeyMax) \X Event
      BY <3>1
    <3>3. sent[x][m][2] \in Nat
      BY <3>2 DEF Event
    <3>4. sent[x][m][2] <= lastEvent
      BY <2>1, <3>2 DEF Numbered
    <3>5. lastEvent \in Nat /\ NewEvent > lastEvent /\ NewEvent \in Nat
      BY FanoutFacts DEF Event
    <3> QED BY <3>3, <3>4, <3>5
  <2> HIDE DEF m
  <2>8. ASSUME ~(\E f \in Event : <<x, f>> \in sending), m > 0, NEW i \in DOMAIN r PROVE sent[x][m][2] < r[i]
    BY <2>4, <2>6, <2>7, <2>8
  <2> QED BY <2>3, <2>4, <2>5, <2>6, <2>8 DEF m
<1> QED BY <1>2, <1>3

LEMMA FanoutLive ==
  ASSUME IInv, NEW S, NEW P, NEW X, NEW R, Fanout(S, P, X, R)
  PROVE  /\ Gone(S, X, R) \subseteq Live
         /\ \A s \in Sid : \A f \in Event :
              <<s, f>> \in Live' <=> IF f = NewEvent THEN s \in S
                                     ELSE <<s, f>> \in Live /\ <<s, f>> \notin Gone(S, X, R)
<1> USE DEF IInv
<1>1. /\ S \subseteq subscriptionList /\ X \subseteq subscriptionList /\ R \subseteq subscriptionList
      /\ subscriptionList \subseteq Sid /\ subscriptionList' = subscriptionList \ R /\ sending' = sending
      /\ R \cap (S \cup P \cup X) = {}
  BY DEF Fanout, TypeOK
<1>2. \A s \in Sid : {Queue(s)[i] : i \in Discarded(Queue(s))} \subseteq Waiting(Queue(s))
  <2> SUFFICES ASSUME NEW s \in Sid PROVE {Queue(s)[i] : i \in Discarded(Queue(s))} \subseteq Waiting(Queue(s))
    OBVIOUS
  <2>1. Ordered(Queue(s), lastEvent) /\ lastEvent \in Nat
    BY QueueOf
  <2> QED BY <2>1, QueuePruned
<1>3. \A s \in Sid : \A f \in Event :
        <<s, f>> \in Gone(S, X, R) <=> \/ s \in S \cup X /\ f \in {Queue(s)[i] : i \in Discarded(Queue(s))}
                                       \/ s \in R /\ f \in Waiting(Queue(s))
  BY DEF Gone, DiscardedJobs, QueuedEvents, Queue, Job
<1>4. \A s \in Sid : \A f \in Event : <<s, f>> \in InQueue <=> s \in subscriptionList /\ f \in Waiting(Queue(s))
  BY DEF InQueue, Job
<1>5. \A s \in Sid : \A f \in Event : <<s, f>> \in InQueue' <=> s \in subscriptionList' /\ f \in Waiting((Queue(s))')
  BY DEF InQueue, Job
<1>6. Gone(S, X, R) \subseteq Live
  <2>1. Gone(S, X, R) \subseteq Job
    BY DEF Gone, DiscardedJobs, QueuedEvents
  <2>2. \A j \in Job : j[1] \in Sid /\ j[2] \in Event /\ j = <<j[1], j[2]>>
    BY DEF Job
  <2>3. \A s \in Sid : \A f \in Event : <<s, f>> \in Gone(S, X, R) => <<s, f>> \in InQueue
    BY <1>1, <1>2, <1>3, <1>4
  <2> QED BY <2>1, <2>2, <2>3 DEF Live
<1>7. ASSUME NEW s \in Sid, NEW f \in Event
      PROVE  <<s, f>> \in Live' <=> IF f = NewEvent THEN s \in S
                                    ELSE <<s, f>> \in Live /\ <<s, f>> \notin Gone(S, X, R)
  <2> DEFINE q == Queue(s)
             w == {q[i] : i \in Discarded(q)}
             job == <<s, f>> \in pool \cup sending
  <2>1. <<s, f>> \in Live' <=> job \/ (s \in S /\ q = <<>> /\ f = NewEvent) \/ <<s, f>> \in InQueue'
    BY FanoutJobs DEF Live
  <2>2. <<s, f>> \in Live <=> job \/ <<s, f>> \in InQueue
    BY DEF Live
  <2>3. f = NewEvent => <<s, f>> \notin Live
    <3>1. f = NewEvent => f > lastEvent
      BY FanoutFacts
    <3> QED BY <3>1, NoStructYet
  <2>4. s \in subscriptionList => ~(job /\ f \in Waiting(q))
    BY HeadIsNotWaiting
  <2>5. w \subseteq Waiting(q)
    BY <1>2
  <2>6. <<s, f>> \in Gone(S, X, R) <=> (s \in S \cup X /\ f \in w) \/ (s \in R /\ f \in Waiting(q))
    BY <1>3
  <2>7. <<s, f>> \in InQueue <=> s \in subscriptionList /\ f \in Waiting(q)
    BY <1>4
  <2>8. CASE s \in R
    <3>1. <<s, f>> \notin InQueue' /\ s \notin S \cup X /\ s \notin S /\ s \in subscriptionList
      BY <1>1, <1>5, <2>8
    <3> HIDE DEF q, w
    <3> QED BY <2>1, <2>2, <2>3, <2>4, <2>6, <2>7, <2>8, <3>1
  <2>9. CASE s \notin R
    <3>1. Waiting((Queue(s))') = (IF s \in S \cup X THEN Waiting(q) \ w ELSE Waiting(q))
                                 \cup (IF s \in S /\ q # <<>> THEN {NewEvent} ELSE {})
      <4>1. (Queue(s))' = NewQueue(s, S, P, X)
        BY <2>9, FanoutFacts
      <4>2. PICK r : r = NewQueue(s, S, P, X)
        OBVIOUS
      <4>3. Waiting(r) = (IF s \in S \cup X THEN Waiting(q) \ w ELSE Waiting(q))
                          \cup (IF s \in S /\ q # <<>> THEN {NewEvent} ELSE {})
        BY <2>9, <4>2, FanoutQueue
      <4> QED BY <4>1, <4>2, <4>3
    <3>2. <<s, f>> \in InQueue' <=> s \in subscriptionList /\ f \in Waiting((Queue(s))')
      BY <1>1, <1>5, <2>9
    <3>3. s \in S \cup X => s \in subscriptionList
      BY <1>1
    <3> HIDE DEF q, w, job
    <3>4. CASE f = NewEvent
      <4>1. ~job /\ ~(s \in subscriptionList /\ f \in Waiting(q))
        BY <2>2, <2>3, <2>7, <3>4
      <4>2. s \in subscriptionList => (f \in Waiting((Queue(s))') <=> s \in S /\ q # <<>>)
        BY <3>1, <3>4, <4>1
      <4> QED BY <2>1, <3>2, <3>3, <3>4, <4>1, <4>2
    <3>5. CASE f # NewEvent
      <4>1. f \in Waiting((Queue(s))') <=> f \in Waiting(q) /\ ~(s \in S \cup X /\ f \in w)
        BY <2>5, <3>1, <3>5
      <4> QED BY <2>1, <2>2, <2>4, <2>5, <2>6, <2>7, <2>9, <3>2, <3>3, <3>5, <4>1
    <3> QED BY <3>4, <3>5
  <2> QED BY <2>8, <2>9
<1> QED BY <1>6, <1>7

LEMMA FanoutKeepsCounts ==
  ASSUME IInv, NEW S, NEW P, NEW X, NEW R, Fanout(S, P, X, R)
  PROVE  /\ RefsRight' /\ TotalExact' /\ refs' \in [Event -> Nat] /\ TotalSubscriptions' \in Nat
         /\ \A f \in Event : f > lastEvent' => refs'[f] = 0
<1> USE DEF IInv
<1> DEFINE G == Gone(S, X, R)
           N == Live \ G
           A == S \cup P \cup X
           e == NewEvent
<1>1. /\ G \subseteq Live
      /\ \A s \in Sid : \A f \in Event :
           <<s, f>> \in Live' <=> IF f = NewEvent THEN s \in S
                                  ELSE <<s, f>> \in Live /\ <<s, f>> \notin G
  BY FanoutLive
<1>2. \A f \in Event : /\ Released(G)[f] \in Nat
                       /\ Released(G)[f] <= refs[f]
                       /\ Released(G)[f] >= Cardinality(LiveOf(N, f))
                       /\ faults = {} => Released(G)[f] = Cardinality(LiveOf(N, f))
  <2>1. G \subseteq Live /\ N \subseteq Live \ G /\ N = Live \ G
    BY <1>1
  <2> HIDE DEF N, G
  <2> QED BY <2>1, ReleasedRefs
<1>3. /\ lastEvent \in Nat /\ e \in Event /\ e > lastEvent /\ S \in SUBSET Sid /\ A \in SUBSET Sid
      /\ lastEvent' \in Nat /\ lastEvent <= lastEvent' /\ (A # {} => lastEvent' = e)
  BY FanoutFacts

<1>4. \A f \in Event : f = NewEvent => (LiveOf(Live, f))' = S
  BY <1>1, <1>3 DEF LiveOf
<1>5. \A f \in Event : f # NewEvent => (LiveOf(Live, f))' = LiveOf(N, f)
  BY <1>1 DEF LiveOf
<1>6. LiveOf(N, e) = {} /\ Released(G)[e] = 0
  <2>1. LiveOf(Live, e) = {} /\ refs[e] = 0
    BY <1>3, NoStructYet
  <2>2. Released(G)[e] \in Nat /\ Released(G)[e] <= refs[e]
    BY <1>2, <1>3
  <2> QED BY <2>1, <2>2 DEF LiveOf
<1>7. /\ A = {} => refs' = Released(G) /\ lastEvent' = lastEvent
      /\ A # {} => refs' = [Released(G) EXCEPT ![e] = Cardinality(A)]
      /\ S \subseteq A /\ (faults = {} => S = A) /\ faults' = faults
  BY DEF Fanout
<1> HIDE DEF G, N, A, e
<1>8. Released(G) \in [Event -> Nat]
  BY <1>2, ReleasedType
<1>9. Cardinality(A) \in Nat /\ Cardinality(S) \in Nat /\ Cardinality(S) <= Cardinality(A)
  <2>1. IsFiniteSet(A) /\ Cardinality(A) \in Nat /\ Cardinality(S) \in Nat
    BY <1>3, Finite
  <2> QED BY <1>7, <2>1, FS_Subset
<1>10. refs' \in [Event -> Nat]
  BY <1>3, <1>7, <1>8, <1>9
<1>11. \A f \in Event : f # e => refs'[f] = Released(G)[f]
  BY <1>7, <1>8
<1>12. refs'[e] = IF A = {} THEN 0 ELSE Cardinality(A)
  BY <1>3, <1>6, <1>7, <1>8
<1>13. refs'[e] = Cardinality(A)
  BY <1>12, FS_EmptySet
<1>14. ASSUME NEW f \in Event
       PROVE  /\ refs'[f] >= Cardinality((LiveOf(Live, f))')
              /\ faults' = {} => refs'[f] = Cardinality((LiveOf(Live, f))')
  <2>1. CASE f = e
    <3>1. (LiveOf(Live, f))' = S
      BY <1>4, <2>1 DEF e
    <3>2. refs'[f] = Cardinality(A)
      BY <1>13, <2>1
    <3> QED BY <1>7, <1>9, <3>1, <3>2
  <2>2. CASE f # e
    <3>1. (LiveOf(Live, f))' = LiveOf(N, f)
      BY <1>5, <2>2 DEF e
    <3>2. refs'[f] = Released(G)[f]
      BY <1>11, <2>2
    <3> QED BY <1>2, <1>7, <3>1, <3>2
  <2> QED BY <2>1, <2>2
<1>15. RefsRight'
  BY <1>14 DEF RefsRight
<1>16. ASSUME NEW f \in Event, f > lastEvent' PROVE refs'[f] = 0
  <2>1. f > lastEvent
    BY <1>3, <1>16 DEF Event
  <2>2. refs[f] = 0
    BY <2>1 DEF Numbered
  <2>3. Released(G)[f] = 0
    <3>1. Released(G)[f] \in Nat /\ Released(G)[f] <= refs[f]
      BY <1>2
    <3> QED BY <2>2, <3>1
  <2>4. CASE A = {}
    BY <1>7, <2>3, <2>4
  <2>5. CASE A # {}
    <3>1. f # e
      BY <1>3, <1>16, <2>5 DEF Event
    <3> QED BY <1>11, <2>3, <3>1
  <2> QED BY <2>4, <2>5
<1>17. TotalExact' /\ TotalSubscriptions' \in Nat
  <2>1. /\ R \subseteq subscriptionList /\ subscriptionList \subseteq Sid /\ subscriptionList' = subscriptionList \ R
        /\ TotalSubscriptions' = Cardinality(subscriptionList) - Cardinality(R)
    BY DEF Fanout, TypeOK, TotalExact
  <2>2. IsFiniteSet(subscriptionList) /\ Cardinality(subscriptionList \ R) \in Nat
    BY <2>1, Finite
  <2>3. Cardinality(subscriptionList \ R) = Cardinality(subscriptionList) - Cardinality(subscriptionList \cap R)
    BY <2>2, FS_Difference
  <2>4. subscriptionList \cap R = R
    BY <2>1
  <2> QED BY <2>1, <2>2, <2>3, <2>4 DEF TotalExact
<1> QED BY <1>10, <1>15, <1>16, <1>17

LEMMA FanoutStep ==
  ASSUME IInv, NEW S, NEW P, NEW X, NEW R, Fanout(S, P, X, R)
  PROVE  IInv'
<1> USE DEF IInv
<1>1. /\ sending' = sending /\ MaxSubscriptions' = MaxSubscriptions /\ registered' = registered
      /\ lastSid' = lastSid /\ accepted' = accepted /\ sent' = sent /\ now' = now /\ faults' = faults
      /\ subscriptionList' = subscriptionList \ R /\ registered
  BY DEF Fanout
<1>2. /\ sub' \in [Sid -> SubRecord] /\ lastEvent' \in Nat /\ lastEvent <= lastEvent' /\ lastEvent' \in 0 .. MaxEvents
      /\ NewEvent \in Event /\ lastEvent \in Nat /\ (S \cup P \cup X # {} => lastEvent' = NewEvent)
  BY FanoutFacts
<1>3. pool' \subseteq Job /\ sending' \subseteq Job
  <2>1. S \subseteq Sid /\ pool' = pool \cup {<<s, NewEvent>> : s \in {x \in S : Queue(x) = <<>>}}
    BY DEF Fanout, TypeOK
  <2>2. \A s \in S : <<s, NewEvent>> \in Job
    BY <1>2, <2>1 DEF Job
  <2> QED BY <1>1, <2>1, <2>2 DEF TypeOK
<1>4. ctime' \in [Event -> Nat]
  <2>1. ctime' = ctime \/ ctime' = [ctime EXCEPT ![NewEvent] = now]
    BY DEF Fanout
  <2> QED BY <1>2, <2>1 DEF TypeOK
<1>5. TypeOK'
  BY <1>1, <1>2, <1>3, <1>4, FanoutKeepsCounts DEF TypeOK
<1>6. Numbered'
  <2>1. \A x \in Sid, f \in Event : <<x, f>> \in pool' \cup sending' => x <= lastSid' /\ f <= lastEvent'
    <3> SUFFICES ASSUME NEW x \in Sid, NEW f \in Event, <<x, f>> \in pool' \cup sending'
                 PROVE  x <= lastSid' /\ f <= lastEvent'
      OBVIOUS
    <3>1. <<x, f>> \in pool \cup sending \/ (x \in S /\ Queue(x) = <<>> /\ f = NewEvent)
      BY FanoutJobs
    <3>2. CASE <<x, f>> \in pool \cup sending
      <4>1. x <= lastSid /\ f <= lastEvent
        BY <3>2 DEF Numbered
      <4> QED BY <1>1, <1>2, <4>1 DEF Event
    <3>3. CASE x \in S /\ f = NewEvent
      <4>1. x \in subscriptionList /\ lastEvent' = f
        BY <1>2, <3>3 DEF Fanout
      <4>2. f <= f
        BY DEF Event
      <4> QED BY <1>1, <4>1, <4>2 DEF Numbered
    <3> QED BY <3>1, <3>2, <3>3
  <2>2. \A x \in Sid : \A i \in DOMAIN sent[x] : sent[x][i][2] <= lastEvent'
    <3> SUFFICES ASSUME NEW x \in Sid, NEW i \in DOMAIN sent[x] PROVE sent[x][i][2] <= lastEvent'
      OBVIOUS
    <3>1. sent[x] \in Seq((0 .. KeyMax) \X Event)
      BY DEF TypeOK
    <3>2. sent[x][i] \in (0 .. KeyMax) \X Event
      BY <3>1
    <3>3. sent[x][i][2] \in Nat
      BY <3>2 DEF Event
    <3>4. sent[x][i][2] <= lastEvent
      BY DEF Numbered
    <3> QED BY <1>2, <3>3, <3>4
  <2>3. \A f \in Event : f > lastEvent' => refs'[f] = 0
    BY FanoutKeepsCounts
  <2> QED BY <1>1, <2>1, <2>2, <2>3 DEF Numbered
<1> QED BY <1>1, <1>5, <1>6, FanoutKeepsQueues, FanoutKeepsJobs, FanoutKeepsCounts, FanoutKeepsSent

LEMMA OutgoingRecord ==
  ASSUME NEW r \in SubRecord, NEW q, NEW c, c = [r EXCEPT !.outgoing = q]
  PROVE  c = [active |-> r.active, expireTime |-> r.expireTime, ToSendEventKey |-> r.ToSendEventKey, outgoing |-> q]
  BY DEF SubRecord

\* Where the walk along the list may end early.
Ends(fault, b) ==
  \/ fault = "none" /\ b = 0
  \/ /\ b \in Subscribers /\ faults # {}
     /\ \/ fault = "pool" /\ sub[b].outgoing = <<>>
        \/ fault \in {"job", "struct"}

LEMMA NotifyAllStep ==
  ASSUME IInv, NEW fault, NEW b, NotifyAll(fault, b), Ends(fault, b), faults' = faults
  PROVE  IInv'
<1> USE DEF IInv
<1> DEFINE e    == lastEvent + 1
           met  == {s \in subscriptionList : s > b}
           S    == Subscribers \cap met
           P    == IF fault = "pool" THEN {b} ELSE {}
           X    == IF fault = "job" THEN {b} ELSE {}
           D    == S \cup X
           R    == {s \in met : Expired(s)}
           t    == [s \in Sid |->
                      CASE s \in S -> [sub[s] EXCEPT !.outgoing = Append(Pruned(@), e)]
                        [] s \in P -> [sub[s] EXCEPT !.outgoing = <<e>>]
                        [] s \in D \ S -> [sub[s] EXCEPT !.outgoing = Pruned(@)]
                        [] OTHER -> sub[s]]
           left == Released(DiscardedJobs(D) \cup QueuedEvents(R, sub))
<1>1. /\ registered /\ MayMakeEvent /\ Unlink(R, t)
      /\ pool' = pool \cup {<<s, e>> : s \in Kickstarted(S)}
      /\ D \cup P = {} => refs' = left /\ lastEvent' = lastEvent /\ ctime' = ctime
      /\ D \cup P # {} => /\ refs' = [left EXCEPT ![e] = Cardinality(D \cup P)]
                          /\ lastEvent' = e
                          /\ ctime' = [ctime EXCEPT ![e] = now]
      /\ sending' = sending /\ MaxSubscriptions' = MaxSubscriptions /\ registered' = registered
      /\ lastSid' = lastSid /\ accepted' = accepted /\ sent' = sent /\ now' = now
  BY DEF NotifyAll
<1>2. subscriptionList \subseteq Sid /\ Sid \subseteq Int
  BY DEF TypeOK, Sid
<1>3. /\ S \subseteq subscriptionList /\ R \subseteq subscriptionList
      /\ \A s \in S : sub[s].active /\ ~Expired(s) /\ s > b
      /\ \A s \in R : Expired(s)
  BY DEF Subscribers
<1>4. P \cup X # {} => b \in subscriptionList /\ sub[b].active /\ ~Expired(b) /\ faults # {} /\ ~(b > b)
  <2>1. P \cup X # {} => b \in Subscribers /\ faults # {}
    BY DEF Ends
  <2>2. b \in Subscribers => b \in subscriptionList /\ sub[b].active /\ ~Expired(b)
    BY DEF Subscribers
  <2>3. b \in subscriptionList => ~(b > b)
    BY <1>2
  <2> HIDE DEF P, X
  <2> QED BY <2>1, <2>2, <2>3
<1>5. fault = "pool" => sub[b].outgoing = <<>>
  BY DEF Ends
<1>6. P \subseteq {b} /\ X \subseteq {b} /\ P \cap X = {} /\ (\A s \in P : Queue(s) = <<>>)
  BY <1>5 DEF Queue
<1>7. e \in Event /\ e = NewEvent
  BY <1>1, GenaConstants DEF MayMakeEvent, TypeOK, Event, NewEvent
<1> HIDE DEF met, S, P, X, R
<1>8. /\ P \subseteq subscriptionList /\ X \subseteq subscriptionList /\ S \cap P = {} /\ S \cap X = {}
      /\ R \cap (S \cup P \cup X) = {} /\ (\A s \in S \cup P \cup X : sub[s].active)
      /\ (P \cup X # {} => faults # {}) /\ D \ S = X /\ D \cup P = S \cup P \cup X
  BY <1>3, <1>4, <1>6
<1>9. \A s \in Sid : /\ s \in S => t[s] = [sub[s] EXCEPT !.outgoing = Append(Pruned(sub[s].outgoing), e)]
                     /\ s \in P => t[s] = [sub[s] EXCEPT !.outgoing = <<e>>]
                     /\ s \in X => t[s] = [sub[s] EXCEPT !.outgoing = Pruned(sub[s].outgoing)]
                     /\ s \notin S \cup P \cup X => t[s] = sub[s]
  <2> SUFFICES ASSUME NEW s \in Sid
               PROVE  /\ s \in S => t[s] = [sub[s] EXCEPT !.outgoing = Append(Pruned(sub[s].outgoing), e)]
                      /\ s \in P => t[s] = [sub[s] EXCEPT !.outgoing = <<e>>]
                      /\ s \in X => t[s] = [sub[s] EXCEPT !.outgoing = Pruned(sub[s].outgoing)]
                      /\ s \notin S \cup P \cup X => t[s] = sub[s]
    OBVIOUS
  <2>1. CASE s \in S
    BY <1>6, <1>8, <2>1
  <2>2. CASE s \in P
    BY <1>6, <1>8, <2>2
  <2>3. CASE s \in X
    BY <1>6, <1>8, <2>3
  <2>4. CASE s \notin S \cup P \cup X
    BY <1>6, <1>8, <2>4
  <2> QED BY <2>1, <2>2, <2>3, <2>4
<1> HIDE DEF t
<1>10. /\ sub' = [s \in Sid |-> IF s \in R THEN NoSub ELSE t[s]]
       /\ subscriptionList' = subscriptionList \ R /\ TotalSubscriptions' = TotalSubscriptions - Cardinality(R)
  BY <1>1 DEF Unlink
<1>11. ASSUME NEW s \in Sid, s \notin R
       PROVE  sub'[s] = [active |-> sub[s].active, expireTime |-> sub[s].expireTime,
                         ToSendEventKey |-> sub[s].ToSendEventKey, outgoing |-> NewQueue(s, S, P, X)]
  <2> DEFINE c == t[s]
             q == NewQueue(s, S, P, X)
  <2>1. sub[s] \in SubRecord /\ sub'[s] = c
    BY <1>10, <1>11 DEF TypeOK
  <2>2. c = [sub[s] EXCEPT !.outgoing = q] \/ (c = sub[s] /\ q = sub[s].outgoing)
    <3>1. CASE s \in S
      <4>1. q = Append(Pruned(sub[s].outgoing), e)
        BY <1>7, <3>1 DEF NewQueue, Queue
      <4> QED BY <1>9, <3>1, <4>1
    <3>2. CASE s \in P
      <4>1. q = <<e>> /\ s \notin S
        BY <1>7, <1>8, <3>2 DEF NewQueue
      <4> QED BY <1>9, <3>2, <4>1
    <3>3. CASE s \in X
      <4>1. q = Pruned(sub[s].outgoing) /\ s \notin S /\ s \notin P
        BY <1>6, <1>8, <3>3 DEF NewQueue, Queue
      <4> QED BY <1>9, <1>8, <3>3, <4>1
    <3>4. CASE s \notin S \cup P \cup X
      <4>1. q = sub[s].outgoing
        BY <3>4 DEF NewQueue, Queue
      <4> QED BY <1>9, <1>8, <3>4, <4>1
    <3> QED BY <3>1, <3>2, <3>3, <3>4
  <2> HIDE DEF c, q
  <2>3. c = [active |-> sub[s].active, expireTime |-> sub[s].expireTime,
             ToSendEventKey |-> sub[s].ToSendEventKey, outgoing |-> q]
    BY <2>1, <2>2, OutgoingRecord, SameRecord
  <2> QED BY <2>1, <2>3 DEF q
<1>12. (\A s \in R : sub'[s] = NoSub) /\ sub' = [s \in Sid |-> sub'[s]]
  BY <1>2, <1>3, <1>10
<1>13. left = Released(Gone(S, X, R))
  BY DEF Gone
<1>14. {<<s, e>> : s \in Kickstarted(S)} = {<<s, NewEvent>> : s \in {x \in S : Queue(x) = <<>>}}
  BY <1>7 DEF Kickstarted, Queue
<1> HIDE DEF left, e
<1>15. Fanout(S, P, X, R)
  <2>1. /\ S \cup P \cup X = {} => refs' = Released(Gone(S, X, R)) /\ lastEvent' = lastEvent /\ ctime' = ctime
        /\ S \cup P \cup X # {} => /\ refs' = [Released(Gone(S, X, R)) EXCEPT ![NewEvent] = Cardinality(S \cup P \cup X)]
                                   /\ lastEvent' = NewEvent
                                   /\ ctime' = [ctime EXCEPT ![NewEvent] = now]
    BY <1>1, <1>7, <1>8, <1>13
  <2>2. \A s \in Sid \ R : sub'[s] = [active |-> sub[s].active, expireTime |-> sub[s].expireTime,
                         ToSendEventKey |-> sub[s].ToSendEventKey, outgoing |-> NewQueue(s, S, P, X)]
    BY <1>11
  <2>3. pool' = pool \cup {<<s, NewEvent>> : s \in {x \in S : Queue(x) = <<>>}}
    BY <1>1, <1>14
  <2> QED BY <1>1, <1>3, <1>6, <1>7, <1>8, <1>10, <1>12, <2>1, <2>2, <2>3 DEF Fanout
<1> QED BY <1>15, FanoutStep

LEMMA GenaNotifyAllStep ==
  ASSUME IInv, GenaNotifyAll, faults' = faults
  PROVE  IInv'
<1>1. CASE NotifyAll("none", 0)
  BY <1>1, NotifyAllStep DEF Ends
<1>2. ASSUME NEW b \in Subscribers,
             \/ "pool" \in faults /\ sub[b].outgoing = <<>> /\ NotifyAll("pool", b)
             \/ "job" \in faults /\ NotifyAll("job", b)
             \/ "struct" \in faults /\ NotifyAll("struct", b)
      PROVE  IInv'
  <2>1. CASE "pool" \in faults /\ sub[b].outgoing = <<>> /\ NotifyAll("pool", b)
    <3>1. Ends("pool", b)
      BY <2>1 DEF Ends
    <3> QED BY <2>1, <3>1, NotifyAllStep
  <2>2. CASE "job" \in faults /\ NotifyAll("job", b)
    <3>1. Ends("job", b)
      BY <2>2 DEF Ends
    <3> QED BY <2>2, <3>1, NotifyAllStep
  <2>3. CASE "struct" \in faults /\ NotifyAll("struct", b)
    <3>1. Ends("struct", b)
      BY <2>3 DEF Ends
    <3> QED BY <2>3, <3>1, NotifyAllStep
  <2> QED BY <1>2, <2>1, <2>2, <2>3
<1> QED BY <1>1, <1>2 DEF GenaNotifyAll

-----------------------------------------------------------------------------
(* The theorems *)

LEMMA InitInv == Init => IInv
<1> SUFFICES ASSUME Init PROVE IInv
  OBVIOUS
<1> USE DEF Init
<1>1. TypeOK
  <2>1. sub \in [Sid -> SubRecord]
    BY NoSubType
  <2>2. <<>> \in Seq((0 .. KeyMax) \X Event)
    OBVIOUS
  <2>3. sent \in [Sid -> Seq((0 .. KeyMax) \X Event)]
    BY <2>2
  <2>4. 0 \in 0 .. MaxSids /\ 0 \in 0 .. MaxEvents
    BY GenaConstants
  <2> QED BY <2>1, <2>3, <2>4, GenaConstants DEF TypeOK
<1>2. \A s \in Sid : sub[s] = NoSub /\ Queue(s) = <<>>
  BY NoSubType DEF Queue
<1>3. Queues
  BY <1>2 DEF Queues
<1>4. Numbered
  BY DEF Numbered
<1>5. JobsRight
  BY DEF JobsRight
<1>6. RefsRight
  <2>1. Live = {}
    BY DEF Live, InQueue
  <2>2. \A e : LiveOf(Live, e) = {}
    BY <2>1 DEF LiveOf
  <2>3. Cardinality({}) = 0
    BY FS_EmptySet
  <2>4. \A e \in Event : refs[e] = 0 /\ Cardinality(LiveOf(Live, e)) = 0
    BY <2>2, <2>3
  <2> QED BY <2>4 DEF RefsRight
<1>7. TotalExact
  BY FS_EmptySet DEF TotalExact
<1>8. SentRight
  BY DEF SentRight
<1>9. SentInOrder
  BY DEF SentInOrder
<1>10. faults \subseteq Faults
  OBVIOUS
<1> QED BY <1>1, <1>3, <1>4, <1>5, <1>6, <1>7, <1>8, <1>9, <1>10 DEF IInv

\* Steps that leave the subscriptions, the jobs and what was sent alone.
LEMMA QuietStep ==
  ASSUME IInv, TypeOK', faults' = faults, subVars' = subVars, jobVars' = jobVars,
         registered' = registered, lastSid' = lastSid, lastEvent' = lastEvent, sent' = sent
  PROVE  IInv'
<1> USE DEF IInv, subVars, jobVars
<1>1. \A s : (Queue(s))' = Queue(s)
  BY DEF Queue
<1>2. Queues' /\ Numbered' /\ TotalExact' /\ SentInOrder'
  BY <1>1 DEF Queues, Numbered, TotalExact, SentInOrder
<1>3. JobsRight'
  BY <1>1 DEF JobsRight
<1>4. InQueue' = InQueue
  BY <1>1 DEF InQueue
<1>5. \A e : (LiveOf(Live, e))' = LiveOf(Live, e)
  BY <1>4 DEF LiveOf, Live
<1>6. RefsRight'
  BY <1>5 DEF RefsRight
<1>7. SentRight'
  BY <1>1 DEF SentRight
<1> QED BY <1>2, <1>3, <1>6, <1>7

LEMMA InvNext ==
  ASSUME IInv, Next
  PROVE  IInv'
<1>1. Step /\ faults' = faults
  BY DEF Next
<1>2. TypeOK
  BY DEF IInv
<1>3. CASE \E t \in TimeOuts : Subscribe(t) \/ \E s \in Sid : Renew(s, t)
  BY <1>1, <1>3, SubscribeStep, RenewStep
<1>4. ASSUME NEW s \in Sid, Unsubscribe(s) \/ InitNotify(s) \/ InitNotifyLate(s)
      PROVE  IInv'
  BY <1>1, <1>4, DropStep, InitNotifyStep
<1>5. ASSUME NEW s \in Sid, AcceptEmpty(s) PROVE IInv'
  <2>1. TypeOK'
    BY <1>2, <1>5 DEF TypeOK, AcceptEmpty, subVars, jobVars
  <2> QED BY <1>1, <1>5, <2>1, QuietStep DEF AcceptEmpty
<1>6. ASSUME NEW s \in Sid, NEW e \in Event, NotifyThread(s, e) PROVE IInv'
  <2>1. CASE NotifyGivenUp(s, e) \/ NotifyOrphaned(s, e)
    BY <1>1, <2>1, JobEndsStep
  <2>2. CASE NotifyStart(s, e)
    BY <1>1, <2>2, NotifyStartStep
  <2>3. CASE \E unaccepted \in BOOLEAN : NotifyDone(s, e, unaccepted)
    BY <1>1, <2>3, NotifyDoneStep
  <2> QED BY <1>6, <2>1, <2>2, <2>3 DEF NotifyThread
<1>7. CASE GenaNotifyAll
  BY <1>1, <1>7, GenaNotifyAllStep
<1>8. ASSUME NEW m \in LimitsNow, SetMaxSubscriptions(m) PROVE IInv'
  <2>1. m \in Limits
    BY GenaConstants DEF LimitsNow
  <2>2. TypeOK'
    BY <1>2, <1>8, <2>1 DEF TypeOK, SetMaxSubscriptions, subVars, jobVars
  <2> QED BY <1>1, <1>8, <2>2, QuietStep DEF SetMaxSubscriptions
<1>9. CASE UnregisterDevice
  BY <1>1, <1>9, UnregisterStep
<1>10. CASE Tick
  <2>1. TypeOK'
    BY <1>2, <1>10 DEF TypeOK, Tick, subVars, jobVars
  <2> QED BY <1>1, <1>10, <2>1, QuietStep DEF Tick
<1> QED BY <1>1, <1>3, <1>4, <1>5, <1>6, <1>7, <1>8, <1>9, <1>10 DEF Step

LEMMA InvHolds == Spec => []IInv
<1>1. IInv /\ UNCHANGED <<vars, faults>> => IInv'
  <2> SUFFICES ASSUME IInv, UNCHANGED <<vars, faults>> PROVE IInv'
    OBVIOUS
  <2>1. TypeOK'
    BY DEF IInv, TypeOK, vars, subVars, jobVars
  <2> QED BY <2>1, QuietStep DEF vars
<1>2. IInv /\ [Next]_<<vars, faults>> => IInv'
  BY <1>1, InvNext
<1> QED BY <1>2, InitInv, PTL DEF Spec

\* The structs the properties count are the live ones.
LEMMA StructsAreLive ==
  ASSUME IInv, NEW e \in Event
  PROVE  Structs(e) = Cardinality(LiveOf(Live, e))
<1> USE DEF IInv
<1> DEFINE W == {s \in subscriptionList : e \in Waiting(sub[s].outgoing)}
           J == {j \in pool \cup sending : j[2] = e}
           B == {s \in Sid : <<s, e>> \in pool \cup sending}
           F == [s \in B |-> <<s, e>>]
<1>1. subscriptionList \subseteq Sid /\ pool \cup sending \subseteq Job
  BY DEF TypeOK
<1>2. LiveOf(Live, e) = W \cup B
  BY <1>1 DEF LiveOf, Live, InQueue, Job, Queue
<1>3. W \cap B = {}
  BY HeadIsNotWaiting DEF Queue
<1>4. F \in [B -> J] /\ (\A a, b \in B : F[a] = F[b] => a = b)
  OBVIOUS
<1>5. \A j \in J : \E s \in B : F[s] = j
  <2> SUFFICES ASSUME NEW j \in J PROVE \E s \in B : F[s] = j
    OBVIOUS
  <2>1. j[1] \in Sid /\ j = <<j[1], e>> /\ j \in pool \cup sending
    BY <1>1 DEF Job
  <2>2. j[1] \in B /\ F[j[1]] = j
    BY <2>1
  <2> QED BY <2>2
<1>6. W \in SUBSET Sid /\ B \in SUBSET Sid
  BY <1>1
<1>7. Structs(e) = Cardinality(W) + Cardinality(J)
  BY DEF Structs
<1> HIDE DEF W, J, B, F
<1>8. F \in Bijection(B, J)
  BY <1>4, <1>5, Fun_IsBij
<1>9. ExistsBijection(B, J)
  BY <1>8, Fun_ExistsBij
<1>10. IsFiniteSet(B) /\ IsFiniteSet(W) /\ Cardinality(B) \in Nat /\ Cardinality(W) \in Nat
  BY <1>6, Finite
<1>11. Cardinality(J) = Cardinality(B)
  BY <1>9, <1>10, FS_Bijection
<1>12. Cardinality(W \cup B) = Cardinality(W) + Cardinality(B)
  <2>1. Cardinality(W \cup B) = Cardinality(W) + Cardinality(B) - Cardinality(W \cap B)
    BY <1>10, FS_Union
  <2>2. Cardinality(W \cap B) = 0
    BY <1>3, FS_EmptySet
  <2> QED BY <1>10, <2>1, <2>2
<1> QED BY <1>2, <1>7, <1>11, <1>12

\* In every interleaving of requests, calls of the application, expiries, failures and
\* sending threads, the reference count of an event covers its structs, and equals
\* their number when nothing fails, and TotalSubscriptions is the length of the list
\* (free_notify_struct, freeSubscriptionList, RemoveSubscriptionSID and their callers).
THEOREM CountsAreExact == Spec => []CountsExact
<1>1. IInv => CountsExact
  <2> SUFFICES ASSUME IInv PROVE CountsExact
    OBVIOUS
  <2>1. RefsExact
    <3>1. \A e \in Event : Structs(e) = Cardinality(LiveOf(Live, e))
      BY StructsAreLive
    <3> QED BY <3>1 DEF IInv, RefsRight, RefsExact
  <2> QED BY <2>1 DEF IInv, CountsExact
<1> QED BY <1>1, InvHolds, PTL

\* A subscriber has at most one NOTIFY in the pool or on the wire, and sees the SEQ and
\* the events in order, however many are discarded, whatever fails and whichever thread
\* of the pool sends them (genaNotifyThread).
THEOREM DeliveredInOrder == Spec => []DeliveryRight
<1>1. IInv => DeliveryRight
  <2> SUFFICES ASSUME IInv PROVE DeliveryRight
    OBVIOUS
  <2>1. ASSUME NEW s \in Sid PROVE Cardinality(Jobs(s)) <= 1
    <3>1. \A e, f \in Jobs(s) : e = f
      BY DEF Jobs, IInv, JobsRight
    <3>2. CASE Jobs(s) = {}
      <4>1. Cardinality(Jobs(s)) = 0
        BY <3>2, FS_EmptySet
      <4> QED BY <4>1
    <3>3. CASE Jobs(s) # {}
      <4>1. PICK e \in Jobs(s) : TRUE
        BY <3>3
      <4>2. Jobs(s) = {e}
        BY <3>1, <4>1
      <4>3. Cardinality({e}) = 1
        BY FS_Singleton
      <4> QED BY <4>2, <4>3
    <3> QED BY <3>2, <3>3
  <2>2. pool \cap sending = {}
    BY DEF IInv, JobsRight
  <2> QED BY <2>1, <2>2 DEF IInv, DeliveryRight, OneNotifyAtATime
<1> QED BY <1>1, InvHolds, PTL
===============================================================================
