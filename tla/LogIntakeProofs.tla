-------------------------- MODULE LogIntakeProofs --------------------------
(***************************************************************************)
(* For any number of requests, consumers and logs, any room in the miner,  *)
(* any failures and ends of processes: what each consumer reports comes in *)
(* the order it was pushed, a learning is lost only by something, and a    *)
(* template is learned again only for a cause.                             *)
(***************************************************************************)
EXTENDS LogIntake, SequenceTheorems, FiniteSetTheorems, TLAPS

Busy == {"handle", "publish", "run"}

\* A request has the number of what it learned only until it pushes it.
PostShape ==
  \A r \in Posts :
    /\ post[r].pc # "next" => post[r].logs # <<>>
    /\ post[r].pc = "push" <=> post[r].learning # 0

\* A consumer has an entry while it is busy, and works on its newest conversation.
ConsumerShape ==
  \A p \in Consumers :
    /\ consumer[p].pc \in Busy => consumer[p].entry \in Entries
    /\ consumer[p].pc \notin Busy => consumer[p].entry = NoEntry
    /\ consumer[p].pc \in {"publish", "run"} =>
         /\ consumer[p].thread \in DOMAIN threads
         /\ threads[consumer[p].thread] = [entry |-> consumer[p].entry, by |-> p]
         /\ \A t \in DOMAIN threads : threads[t].by = p => t <= consumer[p].thread

PostRecords == [logs : Seq(Templates), pc : {"next", "learn", "push"},
                learning : 0..Len(learned)]
ConsumerRecords == [pc : {"off", "pop", "handle", "publish", "run"}, command : Commands,
                    entry : Entries \union {NoEntry}, thread : 0..Len(threads)]
ThreadRecords == [entry : Entries, by : Consumers]

MinerTypes ==
  /\ post \in [Posts -> PostRecords]
  /\ miner \in Seq(Templates) /\ saved \in Seq(Templates) /\ learned \in Seq(Templates)
  /\ Len(miner) <= MaxClusters /\ Len(saved) <= MaxClusters
  /\ forgotten \in [Templates -> Nat]

WorkTypes ==
  /\ pushed \in Nat
  /\ list \in Seq(Entries)
  /\ consumer \in [Consumers -> ConsumerRecords]
  /\ threads \in Seq(ThreadRecords)
  /\ events \in Seq(DOMAIN threads)
  /\ ran \subseteq DOMAIN threads
  /\ shown \subseteq Entries

Types == MinerTypes /\ WorkTypes /\ faults \in Nat /\ ends \in Nat

-----------------------------------------------------------------------------

Popped(p) == consumer[p].pc = "handle"

\* The list is a queue of numbered entries, and all that was popped is older than
\* what is in it.
Queue ==
  /\ \A i, j \in DOMAIN list : i < j => list[i].number < list[j].number
  /\ \A i \in DOMAIN list :
       /\ \A p \in Consumers : Popped(p) => consumer[p].entry.number < list[i].number
       /\ \A t \in DOMAIN threads : threads[t].entry.number < list[i].number

\* An entry is with one consumer, or with one conversation, and a consumer meets
\* newer and newer ones.
Numbers ==
  /\ \A p, q \in Consumers :
       Popped(p) /\ Popped(q) /\ p # q => consumer[p].entry.number # consumer[q].entry.number
  /\ \A p \in Consumers, t \in DOMAIN threads :
       Popped(p) => /\ threads[t].entry.number # consumer[p].entry.number
                    /\ threads[t].by = p => threads[t].entry.number < consumer[p].entry.number
  /\ \A t, u \in DOMAIN threads :
       t < u => /\ threads[t].entry.number # threads[u].entry.number
                /\ threads[t].by = threads[u].by =>
                     threads[t].entry.number < threads[u].entry.number

\* A consumer publishes its conversations in the order it made them.
EventOrder ==
  \A i, j \in DOMAIN events :
    i < j /\ threads[events[i]].by = threads[events[j]].by => events[i] <= events[j]

-----------------------------------------------------------------------------

Lost == (1..Len(learned)) \ (OnTheWay \union Arrived)

-----------------------------------------------------------------------------

\* The clusters that were created for t, and the requests that are about to.
LearnedFor(t) == {i \in DOMAIN learned : learned[i] = t}
Learning(t) == {r \in Posts : post[r].pc = "learn" /\ Head(post[r].logs) = t}

\* While t is in memory no request starts to learn it; when it is not, all that
\* learned it are paid for by the times it was forgotten.
PaidFor(t) ==
  IF t \in ToSet(miner)
  THEN Cardinality(LearnedFor(t)) + Cardinality(Learning(t))
         <= Cardinality(Posts) * (1 + forgotten[t])
  ELSE Cardinality(LearnedFor(t)) <= Cardinality(Posts) * forgotten[t]

-----------------------------------------------------------------------------

LEMMA TypesImplyTypeOK == Types => TypeOK
  BY DEF Types, MinerTypes, WorkTypes, PostRecords, ConsumerRecords, ThreadRecords, TypeOK

LEMMA SeqWiden ==
  ASSUME NEW S, NEW T, S \subseteq T, NEW s \in Seq(S)
  PROVE  s \in Seq(T)
<1>1. Len(s) \in Nat /\ s = [i \in 1..Len(s) |-> s[i]] /\ \A i \in 1..Len(s) : s[i] \in S
  BY LenProperties, ElementOfSeq
<1>2. \A i \in 1..Len(s) : s[i] \in T
  BY <1>1
<1>3. [i \in 1..Len(s) |-> s[i]] \in Seq(T)
  BY <1>1, <1>2, IsASeq
<1> QED
  BY <1>1, <1>3

LEMMA TouchedType ==
  ASSUME MinerTypes, NEW i \in DOMAIN miner
  PROVE  Touched(i) \in Seq(Templates) /\ Len(Touched(i)) = Len(miner)
<1>1. PICK m \in Seq(Templates) : m = miner
  BY DEF MinerTypes
<1>2. Len(m) \in Nat /\ i \in 1..Len(m)
  BY <1>1, LenProperties
<1>3. PICK a : a = SubSeq(m, 1, i - 1)
  OBVIOUS
<1>4. PICK b : b = SubSeq(m, i + 1, Len(m))
  OBVIOUS
<1>5. a \in Seq(Templates) /\ Len(a) = i - 1
  BY <1>2, <1>3
<1>6. b \in Seq(Templates) /\ Len(b) = Len(m) - i
  BY <1>2, <1>4
<1>7. PICK c : c = a \o b
  OBVIOUS
<1>8. c \in Seq(Templates) /\ Len(c) = Len(m) - 1
  BY <1>2, <1>5, <1>6, <1>7, ConcatProperties
<1>9. m[i] \in Templates
  BY <1>2
<1>10. Append(c, m[i]) \in Seq(Templates) /\ Len(Append(c, m[i])) = Len(m)
  BY <1>2, <1>8, <1>9, AppendProperties
<1>11. Touched(i) = Append(c, m[i])
  BY <1>1, <1>3, <1>4, <1>7 DEF Touched, RemoveAt
<1> QED
  BY <1>1, <1>10, <1>11

LEMMA CreatedType ==
  ASSUME MinerTypes, NEW t \in Templates
  PROVE  Created(t) \in Seq(Templates) /\ Len(Created(t)) <= MaxClusters
<1>1. MaxClusters \in Nat /\ MaxClusters >= 1 /\ Len(miner) \in Nat
  BY LIAssumption, LenProperties DEF MinerTypes
<1>2. CASE Len(miner) >= MaxClusters
  <2>1. miner # <<>>
    BY <1>1, <1>2
  <2>2. Tail(miner) \in Seq(Templates) /\ Len(Tail(miner)) = Len(miner) - 1
    BY <2>1, HeadTailProperties DEF MinerTypes
  <2>3. Append(Tail(miner), t) \in Seq(Templates) /\ Len(Append(Tail(miner), t)) = Len(miner)
    BY <1>1, <2>2, AppendProperties
  <2> QED
    BY <1>2, <2>3 DEF Created, MinerTypes
<1>3. CASE ~(Len(miner) >= MaxClusters)
  <2>1. Append(miner, t) \in Seq(Templates) /\ Len(Append(miner, t)) = Len(miner) + 1
    BY AppendProperties DEF MinerTypes
  <2> QED
    BY <1>1, <1>3, <2>1 DEF Created
<1> QED
  BY <1>2, <1>3

LEMMA MinedType ==
  ASSUME MinerTypes, NEW m \in Seq(Templates), Mined(m), Len(m) <= MaxClusters
  PROVE  /\ miner' \in Seq(Templates) /\ Len(miner') <= MaxClusters
         /\ forgotten' \in [Templates -> Nat]
<1>1. \A t \in Templates : forgotten[t] + 1 \in Nat /\ forgotten[t] \in Nat
  BY DEF MinerTypes
<1> QED
  BY <1>1 DEF Mined

\* What the requests do to the list.
LEMMA PushedProperties ==
  ASSUME WorkTypes, NEW n \in 1..Len(learned), NEW k \in Nat,
         learned' = learned, pushed' = pushed + k, NEW r, r = Pushed(n, k)
  PROVE  /\ r \in Seq(Entries') /\ Len(list) \in Nat /\ DOMAIN list = 1..Len(list)
         /\ DOMAIN r = 1..Len(list) + k
         /\ \A i \in 1..Len(list) : r[i] = list[i]
         /\ \A i \in Len(list) + 1..Len(list) + k :
              r[i] = [learning |-> n, number |-> pushed + (i - Len(list))]
<1>0. PICK E : E = Entries'
  OBVIOUS
<1>1. PICK new : new = [i \in 1..k |-> [learning |-> n, number |-> pushed + i]]
  OBVIOUS
<1>2. Entries \subseteq E
  BY <1>0 DEF Entries, WorkTypes
<1>3. \A i \in 1..k : [learning |-> n, number |-> pushed + i] \in E
  BY <1>0 DEF Entries, WorkTypes
<1>4. /\ new \in Seq(E) /\ Len(new) = k
      /\ \A i \in 1..k : new[i] = [learning |-> n, number |-> pushed + i]
  <2>1. [i \in 1..k |-> [learning |-> n, number |-> pushed + i]] \in Seq(E)
    BY <1>3, IsASeq
  <2> QED
    BY <1>1, <2>1, LenProperties
<1>5. list \in Seq(E)
  BY <1>2, SeqWiden DEF WorkTypes
<1>6. PICK s \in Seq(E) : s = list
  BY <1>5
<1>7. /\ r \in Seq(E) /\ Len(r) = Len(list) + k
      /\ \A i \in 1..Len(list) + k : r[i] = IF i <= Len(list) THEN list[i] ELSE new[i - Len(list)]
  <2>1. r = s \o new
    BY <1>1, <1>6 DEF Pushed
  <2>2. /\ r \in Seq(E) /\ Len(r) = Len(s) + Len(new)
        /\ \A i \in 1..Len(s) + Len(new) : r[i] = IF i <= Len(s) THEN s[i] ELSE new[i - Len(s)]
    <3>1. new \in Seq(E)
      BY <1>4
    <3> QED
      BY <3>1, <2>1, ConcatProperties, Zenon
  <2> QED
    BY <1>4, <1>6, <2>2
<1>8. Len(list) \in Nat /\ DOMAIN list = 1..Len(list) /\ DOMAIN r = 1..Len(list) + k
  BY <1>5, <1>7, LenProperties
<1>9. \A i \in Len(list) + 1..Len(list) + k : i - Len(list) \in 1..k /\ ~(i <= Len(list))
  BY <1>8
<1> QED
  BY <1>0, <1>4, <1>7, <1>8, <1>9

-----------------------------------------------------------------------------

LEMMA TypesInit == Init => Types
<1> SUFFICES ASSUME Init PROVE Types
  OBVIOUS
<1>1. <<>> \in Seq(Templates) /\ Len(<<>>) = 0 /\ Len(<<>>) <= MaxClusters
  BY LIAssumption
<1>2. Closed \in PostRecords
  BY <1>1 DEF Init, Closed, PostRecords
<1>3. Off \in ConsumerRecords
  BY DEF Init, Off, ConsumerRecords, Commands
<1>4. <<>> \in Seq(Entries) /\ <<>> \in Seq(ThreadRecords) /\ <<>> \in Seq(DOMAIN threads)
  OBVIOUS
<1> QED
  BY <1>1, <1>2, <1>3, <1>4 DEF Init, Types, MinerTypes, WorkTypes

\* What is done with the logs of the requests.
LEMMA NextLogType ==
  ASSUME MinerTypes, PostShape, NEW r \in Posts, post[r].pc # "next" \/ post[r].logs # <<>>,
         NextLog(r), Len(learned') \in Nat, Len(learned) <= Len(learned')
  PROVE  post' \in [Posts -> PostRecords']
<1>1. Tail(post[r].logs) \in Seq(Templates)
  BY HeadTailProperties DEF MinerTypes, PostRecords, PostShape
<1>2. [logs |-> Tail(post[r].logs), pc |-> "next", learning |-> 0] \in PostRecords'
  BY <1>1 DEF PostRecords
<1>3. Len(learned) \in Nat
  BY LenProperties DEF MinerTypes
<1>4. post \in [Posts -> PostRecords']
  BY <1>3 DEF MinerTypes, PostRecords
<1>5. post' = [post EXCEPT ![r] = [logs |-> Tail(post[r].logs), pc |-> "next", learning |-> 0]]
  <2>1. \A x : [Closed EXCEPT !.logs = x] = [logs |-> x, pc |-> "next", learning |-> 0]
    BY DEF Closed
  <2> QED
    BY <2>1 DEF NextLog
<1> QED
  BY <1>2, <1>4, <1>5

LEMMA PostTypes ==
  ASSUME Types, PostShape, NEW r \in Posts, Vector(r)
  PROVE  Types'
<1> USE DEF Types
<1>1. CASE Ingest(r)
  <2>1. PICK b \in Batches : post' = [post EXCEPT ![r].logs = b]
    BY <1>1 DEF Ingest
  <2>2. b \in Seq(Templates)
    BY LIAssumption
  <2>3. post' \in [Posts -> PostRecords]
    BY <2>1, <2>2 DEF MinerTypes, PostRecords
  <2>4. MinerTypes'
    BY <1>1, <2>3 DEF Ingest, MinerTypes, PostRecords, minerVars
  <2>5. WorkTypes'
    BY <1>1 DEF Ingest, WorkTypes, Entries, ConsumerRecords, ThreadRecords, minerVars, listVars, workVars
  <2> QED
    BY <1>1, <2>4, <2>5 DEF Ingest
<1>2. CASE FindTemplate(r)
  <2>1. Len(learned') \in Nat /\ Len(learned) \in Nat /\ learned' = learned
    BY <1>2, LenProperties DEF FindTemplate, MinerTypes
  <2>2. post' \in [Posts -> PostRecords']
    BY <1>2, <2>1, NextLogType DEF FindTemplate
  <2>3. PICK i \in DOMAIN miner : Mined(Touched(i))
    BY <1>2 DEF FindTemplate
  <2>4. /\ miner' \in Seq(Templates) /\ Len(miner') <= MaxClusters
        /\ forgotten' \in [Templates -> Nat]
    <3>1. Touched(i) \in Seq(Templates) /\ Len(Touched(i)) <= MaxClusters
      BY <2>3, TouchedType DEF MinerTypes
    <3> QED
      BY <2>3, <3>1, MinedType
  <2>5. saved' = saved \/ saved' = miner'
    BY <1>2 DEF FindTemplate
  <2>6. MinerTypes'
    BY <2>1, <2>2, <2>4, <2>5 DEF MinerTypes
  <2>7. WorkTypes'
    BY <1>2 DEF FindTemplate, WorkTypes, Entries, ConsumerRecords, ThreadRecords, listVars, workVars
  <2> QED
    BY <1>2, <2>6, <2>7 DEF FindTemplate, counters
<1>3. CASE MissTemplate(r)
  <2>1. post' \in [Posts -> PostRecords]
    BY <1>3 DEF MissTemplate, MinerTypes, PostRecords
  <2>2. MinerTypes'
    BY <1>3, <2>1 DEF MissTemplate, MinerTypes, PostRecords, minerVars
  <2>3. WorkTypes'
    BY <1>3 DEF MissTemplate, WorkTypes, Entries, ConsumerRecords, ThreadRecords, minerVars, listVars, workVars
  <2> QED
    BY <1>3, <2>2, <2>3 DEF MissTemplate, counters
<1>4. CASE LearnTemplate(r)
  <2>1. Head(post[r].logs) \in Templates
    BY <1>4, HeadTailProperties DEF LearnTemplate, PostShape, MinerTypes, PostRecords
  <2>2. /\ learned' \in Seq(Templates) /\ Len(learned') \in Nat
        /\ Len(learned) \in Nat /\ Len(learned') = Len(learned) + 1
    BY <1>4, <2>1, AppendProperties, LenProperties DEF LearnTemplate, MinerTypes
  <2>3. /\ miner' \in Seq(Templates) /\ Len(miner') <= MaxClusters
        /\ forgotten' \in [Templates -> Nat]
    BY <1>4, <2>1, CreatedType, MinedType DEF LearnTemplate
  <2>4. post' \in [Posts -> PostRecords'] /\ faults' \in Nat
    <3>1. CASE NextLog(r) /\ Fault
      BY <1>4, <2>2, <3>1, NextLogType DEF LearnTemplate, Fault
    <3>2. CASE post' = [post EXCEPT ![r].pc = "push", ![r].learning = Len(learned')] /\ UNCHANGED faults
      <4>1. post \in [Posts -> PostRecords']
        BY <2>2 DEF MinerTypes, PostRecords
      <4>2. [post[r] EXCEPT !.pc = "push", !.learning = Len(learned')] \in PostRecords'
        <5>1. Len(learned') \in 0..Len(learned')
          BY <2>2
        <5>2. post[r] \in PostRecords'
          BY <4>1
        <5> QED
          BY <5>1, <5>2 DEF PostRecords
      <4>3. post' = [post EXCEPT ![r] = [post[r] EXCEPT !.pc = "push", !.learning = Len(learned')]]
        BY <3>2
      <4> QED
        BY <3>2, <4>1, <4>2, <4>3
    <3> QED
      BY <1>4, <3>1, <3>2 DEF LearnTemplate
  <2>5. saved' = saved \/ saved' = miner'
    BY <1>4 DEF LearnTemplate
  <2>6. MinerTypes'
    BY <2>2, <2>3, <2>4, <2>5 DEF MinerTypes
  <2>7. Entries \subseteq Entries'
    BY <1>4, <2>2 DEF Entries, LearnTemplate, listVars
  <2>8. ThreadRecords \subseteq ThreadRecords' /\ ConsumerRecords \subseteq ConsumerRecords'
    BY <1>4, <2>7 DEF ThreadRecords, ConsumerRecords, LearnTemplate, workVars
  <2>9. list \in Seq(Entries') /\ threads \in Seq(ThreadRecords')
    <3>1. \A S, T : S \subseteq T => \A s \in Seq(S) : s \in Seq(T)
      BY SeqWiden
    <3> QED
      BY <2>7, <2>8, <3>1 DEF WorkTypes
  <2>10. WorkTypes'
    BY <1>4, <2>7, <2>8, <2>9 DEF WorkTypes, LearnTemplate, listVars, workVars
  <2> QED
    BY <1>4, <2>4, <2>6, <2>10 DEF LearnTemplate
<1>5. CASE PushEntry(r)
  <2>1. Len(learned') \in Nat /\ Len(learned) \in Nat /\ learned' = learned
    BY <1>5, LenProperties DEF PushEntry, MinerTypes, minerVars
  <2>2. post' \in [Posts -> PostRecords']
    BY <1>5, <2>1, NextLogType DEF PushEntry
  <2>3. MinerTypes'
    BY <1>5, <2>2 DEF PushEntry, MinerTypes, minerVars
  <2>4. PICK k \in 0..MaxCopies : /\ list' = Pushed(post[r].learning, k) /\ pushed' = pushed + k
                                  /\ UNCHANGED faults \/ Fault
    BY <1>5 DEF PushEntry
  <2>5. post[r].learning \in 1..Len(learned)
    BY <1>5, <2>1 DEF PushEntry, PostShape, MinerTypes, PostRecords
  <2>12. k \in Nat
    BY <2>4, LIAssumption
  <2>6. list' \in Seq(Entries') /\ pushed' \in Nat
    BY <2>1, <2>4, <2>5, <2>12, PushedProperties DEF WorkTypes
  <2>7. Entries \subseteq Entries'
    BY <2>1, <2>4, <2>12 DEF Entries, WorkTypes
  <2>8. ThreadRecords \subseteq ThreadRecords' /\ ConsumerRecords \subseteq ConsumerRecords'
    BY <1>5, <2>7 DEF ThreadRecords, ConsumerRecords, PushEntry, workVars
  <2>9. threads \in Seq(ThreadRecords')
    <3>1. \A S, T : S \subseteq T => \A s \in Seq(S) : s \in Seq(T)
      BY SeqWiden
    <3> QED
      BY <2>8, <3>1 DEF WorkTypes
  <2>10. WorkTypes'
    BY <1>5, <2>6, <2>7, <2>8, <2>9 DEF WorkTypes, PushEntry, workVars
  <2> QED
    BY <1>5, <2>3, <2>4, <2>10 DEF PushEntry, Fault
<1> QED
  BY <1>1, <1>2, <1>3, <1>4, <1>5 DEF Vector

\* An entry is taken from the list.
LEMMA ListTail ==
  ASSUME WorkTypes, list # <<>>
  PROVE  /\ Head(list) \in Entries /\ Head(list) = list[1]
         /\ Tail(list) \in Seq(Entries)
         /\ Len(list) \in Nat /\ Len(list) >= 1 /\ DOMAIN list = 1..Len(list)
         /\ DOMAIN Tail(list) = 1..Len(list) - 1
         /\ \A i \in 1..Len(list) - 1 : Tail(list)[i] = list[i + 1]
<1>1. list \in Seq(Entries)
  BY DEF WorkTypes
<1> QED
  BY <1>1, HeadTailProperties, LenProperties

\* A conversation is added.
LEMMA ThreadAdded ==
  ASSUME WorkTypes, NEW x \in ThreadRecords, NEW r, r = Append(threads, x)
  PROVE  /\ r \in Seq(ThreadRecords)
         /\ Len(threads) \in Nat /\ Len(r) = Len(threads) + 1
         /\ DOMAIN threads = 1..Len(threads) /\ DOMAIN r = 1..Len(threads) + 1
         /\ \A t \in DOMAIN threads : r[t] = threads[t]
         /\ r[Len(threads) + 1] = x
<1>1. threads \in Seq(ThreadRecords)
  BY DEF WorkTypes
<1> QED
  BY <1>1, LenProperties, AppendProperties

\* An event is published k times.
LEMMA EventsAdded ==
  ASSUME WorkTypes, NEW p \in Consumers, consumer[p].thread \in DOMAIN threads,
         NEW k \in Nat, Published(p, k)
  PROVE  /\ events' \in Seq(DOMAIN threads)
         /\ Len(events) \in Nat
         /\ DOMAIN events = 1..Len(events) /\ DOMAIN events' = 1..Len(events) + k
         /\ \A i \in 1..Len(events) : events'[i] = events[i]
         /\ \A i \in Len(events) + 1..Len(events) + k : events'[i] = consumer[p].thread
<1>1. PICK e \in DOMAIN threads : e = consumer[p].thread
  OBVIOUS
<1>2. PICK s \in Seq(DOMAIN threads) : s = events
  BY DEF WorkTypes
<1>3. PICK new : new = [i \in 1..k |-> e]
  OBVIOUS
<1>4. new \in Seq(DOMAIN threads) /\ Len(new) = k /\ \A i \in 1..k : new[i] = e
  <2>1. new \in Seq(DOMAIN threads)
    BY <1>3, IsASeq
  <2> QED
    BY <1>3, <2>1, LenProperties
<1>5. PICK r : r = s \o new
  OBVIOUS
<1>6. /\ r \in Seq(DOMAIN threads) /\ Len(r) = Len(s) + Len(new)
      /\ \A i \in 1..Len(s) + Len(new) : r[i] = IF i <= Len(s) THEN s[i] ELSE new[i - Len(s)]
  <2>1. new \in Seq(DOMAIN threads)
    BY <1>4
  <2> QED
    BY <1>5, <2>1, ConcatProperties, Zenon
<1>7. Len(s) \in Nat /\ DOMAIN s = 1..Len(s) /\ DOMAIN r = 1..Len(s) + k
  BY <1>4, <1>6, LenProperties
<1>8. \A i \in Len(s) + 1..Len(s) + k : i - Len(s) \in 1..k /\ ~(i <= Len(s))
  BY <1>7
<1>9. \A i \in Len(s) + 1..Len(s) + k : r[i] = e
  BY <1>4, <1>6, <1>7, <1>8
<1>10. events' = r
  BY <1>1, <1>2, <1>3, <1>5 DEF Published
<1> QED
  BY <1>1, <1>2, <1>4, <1>6, <1>7, <1>9, <1>10

\* The states of a consumer.
LEMMA ConsumerStates ==
  ASSUME WorkTypes
  PROVE  /\ Off \in ConsumerRecords /\ Off.pc = "off" /\ Off.entry = NoEntry
         /\ \A c \in Commands : /\ Waiting(c) \in ConsumerRecords
                                /\ Waiting(c).pc = "pop" /\ Waiting(c).entry = NoEntry
         /\ NoEntry.learning = 0
<1>1. Len(threads) \in Nat
  BY LenProperties DEF WorkTypes
<1>2. Off \in ConsumerRecords
  BY <1>1 DEF Off, ConsumerRecords, Commands
<1>3. ASSUME NEW c \in Commands
      PROVE  Waiting(c) \in ConsumerRecords /\ Waiting(c).pc = "pop" /\ Waiting(c).entry = NoEntry
  <2>1. PICK off \in ConsumerRecords : off = Off
    BY <1>2
  <2>2. PICK x : x = [off EXCEPT !.pc = "pop", !.command = c]
    OBVIOUS
  <2>3. x \in ConsumerRecords /\ x.pc = "pop" /\ x.entry = off.entry
    BY <2>1, <2>2 DEF ConsumerRecords
  <2> QED
    BY <2>1, <2>2, <2>3 DEF Waiting, Off
<1> QED
  BY <1>2, <1>3 DEF Off, NoEntry

\* While no conversation and no entry is added.
LEMMA WorkTypesKept ==
  ASSUME WorkTypes, learned' = learned, pushed' = pushed, threads' = threads,
         list' \in Seq(Entries), consumer' \in [Consumers -> ConsumerRecords],
         events' \in Seq(DOMAIN threads), ran' \subseteq DOMAIN threads, shown' \subseteq Entries
  PROVE  WorkTypes'
  BY DEF WorkTypes, Entries, ThreadRecords, ConsumerRecords

\* While one consumer is given another state.
LEMMA ConsumerShapeKept ==
  ASSUME WorkTypes, ConsumerShape, learned' = learned, pushed' = pushed, threads' = threads,
         NEW p \in Consumers, NEW x \in ConsumerRecords, consumer' = [consumer EXCEPT ![p] = x],
         x.pc \in Busy => x.entry \in Entries,
         x.pc \notin Busy => x.entry = NoEntry,
         x.pc \in {"publish", "run"} => /\ consumer[p].pc \in {"publish", "run"}
                                        /\ x.thread = consumer[p].thread
                                        /\ x.entry = consumer[p].entry
  PROVE  /\ consumer' \in [Consumers -> ConsumerRecords]
         /\ ConsumerShape'
<1>1. consumer' \in [Consumers -> ConsumerRecords]
  BY DEF WorkTypes
<1>2. consumer'[p] = x /\ \A q \in Consumers : q # p => consumer'[q] = consumer[q]
  BY DEF WorkTypes
<1>3. Entries' = Entries
  BY DEF Entries
<1> QED
  <2> SUFFICES ASSUME NEW q \in Consumers
               PROVE  /\ consumer'[q].pc \in Busy => consumer'[q].entry \in Entries
                      /\ consumer'[q].pc \notin Busy => consumer'[q].entry = NoEntry
                      /\ consumer'[q].pc \in {"publish", "run"} =>
                           /\ consumer'[q].thread \in DOMAIN threads
                           /\ threads[consumer'[q].thread] = [entry |-> consumer'[q].entry, by |-> q]
                           /\ \A t \in DOMAIN threads : threads[t].by = q => t <= consumer'[q].thread
    BY <1>1, <1>3 DEF ConsumerShape
  <2>1. CASE q = p
    BY <1>2, <2>1 DEF ConsumerShape
  <2>2. CASE q # p
    BY <1>2, <2>2 DEF ConsumerShape
  <2> QED
    BY <2>1, <2>2

\* A conversation is made of the entry a consumer has.
Begins(p) ==
  /\ consumer[p].pc = "handle"
  /\ threads' = Append(threads, [entry |-> consumer[p].entry, by |-> p])
  /\ consumer' = [consumer EXCEPT ![p].pc = "publish", ![p].thread = Len(threads')]
  /\ UNCHANGED <<post, minerVars, listVars, events, ran, shown, counters>>

LEMMA BeginsEffect ==
  ASSUME WorkTypes, ConsumerShape, NEW p \in Consumers, Begins(p)
  PROVE  LET n == Len(threads) + 1
         IN  /\ n - 1 \in Nat /\ DOMAIN threads = 1..n - 1 /\ DOMAIN threads' = 1..n
             /\ threads'[n] = [entry |-> consumer[p].entry, by |-> p]
             /\ \A t \in DOMAIN threads : threads'[t] = threads[t]
             /\ consumer[p].entry \in Entries
             /\ consumer'[p].pc = "publish" /\ consumer'[p].thread = n
             /\ consumer'[p].entry = consumer[p].entry
             /\ \A q \in Consumers : q # p => consumer'[q] = consumer[q]
<1>1. consumer[p].entry \in Entries
  BY DEF Begins, ConsumerShape, Busy
<1>2. [entry |-> consumer[p].entry, by |-> p] \in ThreadRecords
  BY <1>1 DEF ThreadRecords
<1>3. PICK x \in ThreadRecords : x = [entry |-> consumer[p].entry, by |-> p]
  BY <1>2
<1>4. PICK r : r = Append(threads, x)
  OBVIOUS
<1>5. threads' = r
  BY <1>3, <1>4 DEF Begins
<1>6. /\ Len(threads) \in Nat /\ Len(r) = Len(threads) + 1
      /\ DOMAIN threads = 1..Len(threads) /\ DOMAIN r = 1..Len(threads) + 1
      /\ \A t \in DOMAIN threads : r[t] = threads[t]
      /\ r[Len(threads) + 1] = x
  BY <1>4, ThreadAdded
<1>7. /\ consumer'[p].pc = "publish" /\ consumer'[p].thread = Len(r)
      /\ consumer'[p].entry = consumer[p].entry
      /\ \A q \in Consumers : q # p => consumer'[q] = consumer[q]
  BY <1>5 DEF Begins, WorkTypes, ConsumerRecords
<1> QED
  BY <1>1, <1>3, <1>5, <1>6, <1>7

LEMMA BeginsTypes ==
  ASSUME WorkTypes, ConsumerShape, NEW p \in Consumers, Begins(p)
  PROVE  WorkTypes' /\ ConsumerShape'
<1>1. PICK n : n = Len(threads) + 1
  OBVIOUS
<1>2. /\ n - 1 \in Nat /\ DOMAIN threads = 1..n - 1 /\ DOMAIN threads' = 1..n
      /\ threads'[n] = [entry |-> consumer[p].entry, by |-> p]
      /\ \A t \in DOMAIN threads : threads'[t] = threads[t]
      /\ consumer[p].entry \in Entries
      /\ consumer'[p].pc = "publish" /\ consumer'[p].thread = n
      /\ consumer'[p].entry = consumer[p].entry
      /\ \A q \in Consumers : q # p => consumer'[q] = consumer[q]
  BY <1>1, BeginsEffect
<1>3. n \in Nat /\ Len(threads) \in Nat
  BY <1>1, <1>2, LenProperties DEF WorkTypes
<1>4. Entries' = Entries /\ ThreadRecords' = ThreadRecords
  BY DEF Begins, Entries, ThreadRecords, minerVars, listVars
<1>5. threads' \in Seq(ThreadRecords) /\ Len(threads') = n
  <2>1. [entry |-> consumer[p].entry, by |-> p] \in ThreadRecords
    BY <1>2 DEF ThreadRecords
  <2> QED
    BY <1>1, <2>1, ThreadAdded DEF Begins
<1>6. consumer' \in [Consumers -> ConsumerRecords']
  <2>1. consumer \in [Consumers -> ConsumerRecords']
    BY <1>1, <1>3, <1>4, <1>5 DEF WorkTypes, ConsumerRecords
  <2>2. PICK x \in ConsumerRecords' : x = consumer[p]
    BY <2>1
  <2>3. [x EXCEPT !.pc = "publish", !.thread = n] \in ConsumerRecords'
    <3>1. PICK m : m = Len(threads')
      OBVIOUS
    <3>2. n \in 0..m
      BY <1>3, <1>5, <3>1
    <3>3. ConsumerRecords' = [pc : {"off", "pop", "handle", "publish", "run"}, command : Commands,
                              entry : Entries \union {NoEntry}, thread : 0..m]
      BY <1>4, <3>1 DEF ConsumerRecords
    <3> QED
      BY <2>2, <3>2, <3>3
  <2>4. consumer' = [consumer EXCEPT ![p] = [x EXCEPT !.pc = "publish", !.thread = n]]
    BY <1>5, <2>2 DEF Begins
  <2> QED
    BY <2>1, <2>3, <2>4
<1>7. events' \in Seq(DOMAIN threads')
  <2>1. DOMAIN threads \subseteq DOMAIN threads'
    BY <1>2, <1>3
  <2>2. events \in Seq(DOMAIN threads')
    BY <2>1, SeqWiden DEF WorkTypes
  <2> QED
    BY <2>2 DEF Begins
<1>8. ran \subseteq DOMAIN threads'
  BY <1>2, <1>3 DEF WorkTypes
<1>9. WorkTypes'
  BY <1>4, <1>5, <1>6, <1>7, <1>8 DEF WorkTypes, Begins, listVars
<1>10. ConsumerShape'
  <2> SUFFICES ASSUME NEW q \in Consumers
               PROVE  /\ consumer'[q].pc \in Busy => consumer'[q].entry \in Entries
                      /\ consumer'[q].pc \notin Busy => consumer'[q].entry = NoEntry
                      /\ consumer'[q].pc \in {"publish", "run"} =>
                           /\ consumer'[q].thread \in DOMAIN threads'
                           /\ threads'[consumer'[q].thread] = [entry |-> consumer'[q].entry, by |-> q]
                           /\ \A t \in DOMAIN threads' : threads'[t].by = q => t <= consumer'[q].thread
    BY <1>4 DEF ConsumerShape
  <2>1. CASE q = p
    BY <1>2, <1>3, <2>1 DEF Busy
  <2>2. CASE q # p
    <3>1. consumer'[q] = consumer[q]
      BY <1>2, <2>2
    <3>2. threads'[n].by = p /\ ~(threads'[n].by = q)
      BY <1>2, <2>2
    <3>3. \A t \in DOMAIN threads' : t # n => t \in DOMAIN threads /\ threads'[t] = threads[t]
      BY <1>2, <1>3
    <3> QED
      BY <1>2, <1>3, <3>1, <3>2, <3>3 DEF ConsumerShape
  <2> QED
    BY <2>1, <2>2
<1> QED
  BY <1>9, <1>10

\* What a consumer is when it has an entry, and when it goes on with it.
LEMMA PopState ==
  ASSUME WorkTypes, NEW p \in Consumers, Pop(p)
  PROVE  \E x \in ConsumerRecords :
           x.pc = "handle" /\ x.entry = Head(list) /\ consumer' = [consumer EXCEPT ![p] = x]
<1>1. PICK y \in ConsumerRecords : y = consumer[p]
  BY DEF WorkTypes
<1>2. PICK e \in Entries : e = Head(list)
  BY ListTail DEF Pop
<1>3. PICK x : x = [y EXCEPT !.pc = "handle", !.entry = e]
  OBVIOUS
<1>4. x \in ConsumerRecords /\ x.pc = "handle" /\ x.entry = e
  BY <1>1, <1>3 DEF ConsumerRecords
<1> QED
  BY <1>1, <1>2, <1>3, <1>4 DEF Pop

LEMMA RunState ==
  ASSUME WorkTypes, NEW p \in Consumers, Goto(p, "run")
  PROVE  \E x \in ConsumerRecords :
           /\ x.pc = "run" /\ x.entry = consumer[p].entry /\ x.thread = consumer[p].thread
           /\ consumer' = [consumer EXCEPT ![p] = x]
<1>1. PICK y \in ConsumerRecords : y = consumer[p]
  BY DEF WorkTypes
<1>2. PICK x : x = [y EXCEPT !.pc = "run"]
  OBVIOUS
<1>3. x \in ConsumerRecords /\ x.pc = "run" /\ x.entry = y.entry /\ x.thread = y.thread
  BY <1>1, <1>2 DEF ConsumerRecords
<1> QED
  BY <1>1, <1>2, <1>3 DEF Goto

\* It is off, or asks for the next.
Rests(p) ==
  \E x \in ConsumerRecords :
    x.pc \notin Busy /\ x.entry = NoEntry /\ consumer' = [consumer EXCEPT ![p] = x]

LEMMA RestsWhen ==
  ASSUME WorkTypes, NEW p \in Consumers
  PROVE  /\ NextEntry(p) => Rests(p)
         /\ StartOther(p) => Rests(p)
         /\ StartServer /\ p = Server => Rests(p)
         /\ End(p) => Rests(p)
<1>1. /\ Off \in ConsumerRecords /\ Off.pc \notin Busy /\ Off.entry = NoEntry
      /\ \A c \in Commands : /\ Waiting(c) \in ConsumerRecords
                             /\ Waiting(c).pc \notin Busy /\ Waiting(c).entry = NoEntry
  BY ConsumerStates DEF Busy
<1>2. consumer[p].command \in Commands
  BY DEF WorkTypes, ConsumerRecords
<1>3. NextEntry(p) => Rests(p)
  <2> SUFFICES ASSUME NextEntry(p) PROVE Rests(p)
    OBVIOUS
  <2>1. PICK x : x = Waiting(consumer[p].command)
    OBVIOUS
  <2>2. x \in ConsumerRecords /\ x.pc \notin Busy /\ x.entry = NoEntry
    BY <1>1, <1>2, <2>1
  <2>3. consumer' = [consumer EXCEPT ![p] = x]
    BY <2>1 DEF NextEntry
  <2> QED
    BY <2>2, <2>3 DEF Rests
<1>4. StartOther(p) => Rests(p)
  BY <1>1 DEF StartOther, Rests
<1>5. StartServer /\ p = Server => Rests(p)
  BY <1>1 DEF StartServer, Rests, Commands
<1>6. End(p) => Rests(p)
  BY <1>1 DEF End, Rests
<1> QED
  BY <1>3, <1>4, <1>5, <1>6

LEMMA RestsShape ==
  ASSUME WorkTypes, ConsumerShape, NEW p \in Consumers, Rests(p),
         learned' = learned, pushed' = pushed, threads' = threads,
         list' \in Seq(Entries), events' \in Seq(DOMAIN threads),
         ran' \subseteq DOMAIN threads, shown' \subseteq Entries
  PROVE  WorkTypes' /\ ConsumerShape'
<1>1. PICK x \in ConsumerRecords :
         x.pc \notin Busy /\ x.entry = NoEntry /\ consumer' = [consumer EXCEPT ![p] = x]
  BY DEF Rests
<1>2. x.pc \notin {"publish", "run"}
  BY <1>1 DEF Busy
<1>3. consumer' \in [Consumers -> ConsumerRecords] /\ ConsumerShape'
  BY <1>1, <1>2, ConsumerShapeKept
<1> QED
  BY <1>3, WorkTypesKept

LEMMA ConsumerTypes ==
  ASSUME Types, PostShape, ConsumerShape, NEW p \in Consumers, Consumer(p)
  PROVE  WorkTypes' /\ ConsumerShape'
<1>0. WorkTypes
  BY DEF Types
<1>1. /\ list \in Seq(Entries) /\ events \in Seq(DOMAIN threads)
      /\ ran \subseteq DOMAIN threads /\ shown \subseteq Entries
  BY <1>0 DEF WorkTypes
<1>2. CASE StartOther(p)
  <2>1. UNCHANGED <<learned, pushed, threads, list, events, ran, shown>>
    BY <1>2 DEF StartOther, minerVars, listVars, workVars
  <2> QED
    BY <1>0, <1>1, <1>2, <2>1, RestsWhen, RestsShape
<1>3. CASE Pop(p)
  <2>1. UNCHANGED <<learned, pushed, threads, events, ran, shown>>
    BY <1>3 DEF Pop, minerVars, workVars
  <2>2. list' \in Seq(Entries) /\ Head(list) \in Entries
    BY <1>0, <1>3, ListTail DEF Pop
  <2>3. PICK x \in ConsumerRecords :
           x.pc = "handle" /\ x.entry = Head(list) /\ consumer' = [consumer EXCEPT ![p] = x]
    BY <1>0, <1>3, PopState
  <2>4. consumer' \in [Consumers -> ConsumerRecords] /\ ConsumerShape'
    <3>1. x.pc \in Busy /\ x.pc \notin {"publish", "run"} /\ x.entry \in Entries
      BY <2>2, <2>3 DEF Busy
    <3> QED
      BY <1>0, <2>1, <2>3, <3>1, ConsumerShapeKept
  <2> QED
    BY <1>0, <1>1, <2>1, <2>2, <2>4, WorkTypesKept
<1>4. CASE PopLost(p)
  <2>1. UNCHANGED <<learned, pushed, threads, events, ran, shown, consumer>>
    BY <1>4 DEF PopLost, minerVars, workVars
  <2>2. list' \in Seq(Entries)
    BY <1>0, <1>4, ListTail DEF PopLost
  <2>3. ConsumerShape'
    BY <2>1 DEF ConsumerShape, Entries
  <2>4. consumer' \in [Consumers -> ConsumerRecords]
    BY <1>0, <2>1 DEF WorkTypes
  <2> QED
    BY <1>0, <1>1, <2>1, <2>2, <2>3, <2>4, WorkTypesKept
<1>5. CASE Converse(p)
  <2>1. CASE Begins(p)
    BY <1>0, <2>1, BeginsTypes
  <2>2. CASE NextEntry(p) /\ UNCHANGED threads
    <3>1. UNCHANGED <<learned, pushed, threads, list, events, ran, shown>>
      BY <1>5, <2>2 DEF Converse, minerVars, listVars
    <3> QED
      BY <1>0, <1>1, <2>2, <3>1, RestsWhen, RestsShape
  <2> QED
    BY <1>5, <2>1, <2>2 DEF Converse, Begins, counters
<1>6. CASE NewThread(p)
  <2>1. Begins(p)
    BY <1>6 DEF NewThread, Begins, counters
  <2> QED
    BY <1>0, <2>1, BeginsTypes
<1>7. CASE PublishUser(p)
  <2>1. UNCHANGED <<learned, pushed, threads, list, ran, shown>>
    BY <1>7 DEF PublishUser, minerVars, listVars
  <2>2. consumer[p].thread \in DOMAIN threads
    BY <1>7 DEF PublishUser, ConsumerShape
  <2>3. events' \in Seq(DOMAIN threads)
    BY <1>0, <1>7, <2>2, EventsAdded DEF PublishUser
  <2>4. CASE NextEntry(p)
    BY <1>0, <1>1, <2>1, <2>3, <2>4, RestsWhen, RestsShape
  <2>5. CASE Goto(p, "run")
    <3>1. PICK x \in ConsumerRecords :
             /\ x.pc = "run" /\ x.entry = consumer[p].entry /\ x.thread = consumer[p].thread
             /\ consumer' = [consumer EXCEPT ![p] = x]
      BY <1>0, <2>5, RunState
    <3>2. /\ x.pc \in Busy /\ consumer[p].pc \in Busy /\ consumer[p].pc \in {"publish", "run"}
          /\ x.entry \in Entries
      BY <1>7, <3>1 DEF PublishUser, Busy, ConsumerShape
    <3>3. consumer' \in [Consumers -> ConsumerRecords] /\ ConsumerShape'
      BY <1>0, <2>1, <3>1, <3>2, ConsumerShapeKept
    <3> QED
      BY <1>0, <1>1, <2>1, <2>3, <3>3, WorkTypesKept
  <2> QED
    BY <1>7, <2>4, <2>5 DEF PublishUser
<1>8. CASE RunHere(p)
  <2>1. UNCHANGED <<learned, pushed, threads, list, events, shown>> /\ NextEntry(p)
    BY <1>8 DEF RunHere, minerVars, listVars
  <2>2. ran' \subseteq DOMAIN threads
    BY <1>1, <1>8 DEF RunHere, ConsumerShape
  <2> QED
    BY <1>0, <1>1, <2>1, <2>2, RestsWhen, RestsShape
<1>9. CASE Show(p)
  <2>1. UNCHANGED <<learned, pushed, threads, list, events, ran>> /\ NextEntry(p)
    BY <1>9 DEF Show, minerVars, listVars
  <2>2. shown' \subseteq Entries
    BY <1>1, <1>9 DEF Show, ConsumerShape, Busy
  <2> QED
    BY <1>0, <1>1, <2>1, <2>2, RestsWhen, RestsShape
<1>10. CASE End(p)
  <2>1. UNCHANGED <<learned, pushed, threads, list, ran, shown>>
    BY <1>10 DEF End, minerVars, listVars
  <2>2. events' \in Seq(DOMAIN threads)
    <3>1. CASE consumer[p].pc = "publish" /\ Published(p, 1)
      <4>1. consumer[p].thread \in DOMAIN threads
        BY <3>1 DEF ConsumerShape
      <4> QED
        BY <1>0, <3>1, <4>1, EventsAdded
    <3> QED
      BY <1>1, <1>10, <3>1 DEF End
  <2> QED
    BY <1>0, <1>1, <1>10, <2>1, <2>2, RestsWhen, RestsShape
<1> QED
  BY <1>2, <1>3, <1>4, <1>5, <1>6, <1>7, <1>8, <1>9, <1>10 DEF Consumer

LEMMA ConsumerMinerTypes ==
  ASSUME Types, PostShape, NEW p \in Consumers, Consumer(p)
  PROVE  /\ MinerTypes' /\ PostShape'
         /\ faults' \in Nat /\ ends' \in Nat
<1>1. CASE End(p)
  <2>1. /\ UNCHANGED <<minerVars, faults>> /\ ends' = ends + 1
        /\ post' = post \/ post' = [r \in Posts |-> Closed]
    BY <1>1 DEF End
  <2>2. Closed \in PostRecords /\ Closed.pc = "next" /\ Closed.learning = 0
    <3>1. Len(learned) \in Nat /\ <<>> \in Seq(Templates)
      BY LenProperties DEF Types, MinerTypes
    <3> QED
      BY <3>1 DEF Closed, PostRecords
  <2>3. post' \in [Posts -> PostRecords]
    BY <2>1, <2>2 DEF Types, MinerTypes
  <2>4. PostShape'
    BY <2>1, <2>2 DEF PostShape
  <2> QED
    BY <2>1, <2>3, <2>4 DEF Types, MinerTypes, PostRecords, minerVars
<1>2. CASE ~End(p)
  <2>1. /\ UNCHANGED <<post, minerVars, ends>>
        /\ UNCHANGED faults \/ Fault
    BY <1>2 DEF Consumer, StartOther, Pop, PopLost, Converse, NewThread, PublishUser, RunHere,
                Show, counters
  <2>2. faults' \in Nat /\ ends' \in Nat
    BY <2>1 DEF Fault, Types
  <2> QED
    BY <2>1, <2>2 DEF Types, MinerTypes, PostRecords, PostShape, minerVars
<1> QED
  BY <1>1, <1>2

LEMMA StartServerTypes ==
  ASSUME Types, PostShape, ConsumerShape, StartServer
  PROVE  Types' /\ PostShape' /\ ConsumerShape'
<1>1. UNCHANGED <<post, saved, learned, pushed, list, threads, events, ran, shown, faults, ends>>
  BY DEF StartServer, listVars, workVars, counters
<1>2. /\ miner' \in Seq(Templates) /\ Len(miner') <= MaxClusters
      /\ forgotten' \in [Templates -> Nat]
  BY MinedType DEF StartServer, Loaded, Types, MinerTypes
<1>3. Server \in Consumers
  BY DEF Consumers
<1>4. WorkTypes' /\ ConsumerShape'
  BY <1>1, <1>3, RestsWhen, RestsShape DEF Types, WorkTypes
<1> QED
  BY <1>1, <1>2, <1>4 DEF Types, MinerTypes, PostRecords, PostShape

LEMMA PostShapeKept ==
  ASSUME PostShape, NEW r \in Posts, \A q \in Posts : q # r => post'[q] = post[q],
         post'[r].pc # "next" => post'[r].logs # <<>>,
         post'[r].pc = "push" <=> post'[r].learning # 0
  PROVE  PostShape'
<1> SUFFICES ASSUME NEW q \in Posts
             PROVE  /\ post'[q].pc # "next" => post'[q].logs # <<>>
                    /\ post'[q].pc = "push" <=> post'[q].learning # 0
  BY DEF PostShape
<1>1. CASE q = r
  BY <1>1
<1>2. CASE q # r
  BY <1>2 DEF PostShape
<1> QED
  BY <1>1, <1>2

LEMMA PostShapeStep ==
  ASSUME Types, PostShape, ConsumerShape, NEW r \in Posts, Vector(r)
  PROVE  PostShape' /\ ConsumerShape'
<1>1. /\ consumer' = consumer /\ threads' = threads
      /\ Len(learned) <= Len(learned') /\ pushed <= pushed'
  <2>1. Len(learned) \in Nat /\ pushed \in Nat
    BY LenProperties DEF Types, MinerTypes, WorkTypes
  <2>2. UNCHANGED learned \/ \E t : learned' = Append(learned, t)
    BY DEF Vector, Ingest, FindTemplate, MissTemplate, LearnTemplate, PushEntry, minerVars
  <2>3. UNCHANGED pushed \/ \E k \in Nat : pushed' = pushed + k
    BY DEF Vector, Ingest, FindTemplate, MissTemplate, LearnTemplate, PushEntry, listVars
  <2> QED
    BY <2>1, <2>2, <2>3
       DEF Vector, Ingest, FindTemplate, MissTemplate, LearnTemplate, PushEntry, workVars,
           Types, MinerTypes
<1>2. ConsumerShape'
  <2>1. Entries \subseteq Entries'
    <3>1. /\ Len(learned) \in Nat /\ Len(learned') \in Nat /\ pushed \in Nat /\ pushed' \in Nat
      BY PostTypes, LenProperties DEF Types, MinerTypes, WorkTypes
    <3>2. 1..Len(learned) \subseteq 1..Len(learned') /\ 1..pushed \subseteq 1..pushed'
      BY <1>1, <3>1
    <3> QED
      BY <3>2 DEF Entries
  <2> QED
    BY <1>1, <2>1 DEF ConsumerShape
<1>3. CASE NextLog(r)
  <2>1. Closed.pc = "next" /\ Closed.learning = 0
    BY DEF Closed
  <2>2. \A x : [Closed EXCEPT !.logs = x].pc = "next" /\ [Closed EXCEPT !.logs = x].learning = 0
    BY DEF Closed
  <2>3. /\ post'[r].pc = "next" /\ post'[r].learning = 0
        /\ \A q \in Posts : q # r => post'[q] = post[q]
    BY <1>3, <2>2 DEF NextLog, Types, MinerTypes
  <2> QED
    <3>1. /\ post'[r].pc # "next" => post'[r].logs # <<>>
          /\ post'[r].pc = "push" <=> post'[r].learning # 0
      BY <2>3 DEF PostShape
    <3>2. \A q \in Posts : q # r => post'[q] = post[q]
      BY <2>3
    <3> QED
      BY <1>2, <3>1, <3>2, PostShapeKept
<1>4. CASE Ingest(r)
  <2>1. PICK b \in Batches : post' = [post EXCEPT ![r].logs = b]
    BY <1>4 DEF Ingest
  <2>2. post[r].pc = "next"
    BY <1>4 DEF Ingest, PostShape
  <2>3. /\ post'[r].pc = "next" /\ post'[r].learning = post[r].learning
        /\ \A q \in Posts : q # r => post'[q] = post[q]
    BY <2>1, <2>2 DEF Types, MinerTypes, PostRecords
  <2> QED
    <3>1. /\ post'[r].pc # "next" => post'[r].logs # <<>>
          /\ post'[r].pc = "push" <=> post'[r].learning # 0
      BY <2>2, <2>3 DEF PostShape
    <3>2. \A q \in Posts : q # r => post'[q] = post[q]
      BY <2>3
    <3> QED
      BY <1>2, <3>1, <3>2, PostShapeKept
<1>5. CASE MissTemplate(r)
  <2>1. /\ post'[r].pc = "learn" /\ post'[r].learning = post[r].learning
        /\ post'[r].logs = post[r].logs /\ post[r].logs # <<>> /\ post[r].pc = "next"
        /\ \A q \in Posts : q # r => post'[q] = post[q]
    BY <1>5 DEF MissTemplate, Types, MinerTypes, PostRecords
  <2> QED
    <3>1. /\ post'[r].pc # "next" => post'[r].logs # <<>>
          /\ post'[r].pc = "push" <=> post'[r].learning # 0
      BY <2>1 DEF PostShape
    <3>2. \A q \in Posts : q # r => post'[q] = post[q]
      BY <2>1
    <3> QED
      BY <1>2, <3>1, <3>2, PostShapeKept
<1>6. CASE LearnTemplate(r) /\ ~NextLog(r)
  <2>1. /\ post[r].pc = "learn" /\ learned' = Append(learned, Head(post[r].logs))
        /\ post' = [post EXCEPT ![r].pc = "push", ![r].learning = Len(learned')]
    BY <1>6 DEF LearnTemplate
  <2>2. Len(learned') # 0
    <3>1. Head(post[r].logs) \in Templates
      BY <2>1, HeadTailProperties DEF PostShape, Types, MinerTypes, PostRecords
    <3> QED
      BY <2>1, <3>1, AppendProperties, LenProperties DEF Types, MinerTypes
  <2>3. /\ post'[r].pc = "push" /\ post'[r].learning = Len(learned')
        /\ post'[r].logs = post[r].logs
        /\ \A q \in Posts : q # r => post'[q] = post[q]
    BY <2>1 DEF Types, MinerTypes, PostRecords
  <2> QED
    <3>1. /\ post'[r].pc # "next" => post'[r].logs # <<>>
          /\ post'[r].pc = "push" <=> post'[r].learning # 0
      BY <2>1, <2>2, <2>3 DEF PostShape
    <3>2. \A q \in Posts : q # r => post'[q] = post[q]
      BY <2>3
    <3> QED
      BY <1>2, <3>1, <3>2, PostShapeKept
<1> QED
  BY <1>2, <1>3, <1>4, <1>5, <1>6 DEF Vector, FindTemplate, LearnTemplate, PushEntry

\* The inductive invariant all the others rest on.
Shapes == Types /\ PostShape /\ ConsumerShape

LEMMA ShapesInit == Init => Shapes
<1>1. Init => PostShape
  BY DEF Init, PostShape, Closed
<1>2. Init => ConsumerShape
  BY DEF Init, ConsumerShape, Off, Busy
<1> QED
  BY <1>1, <1>2, TypesInit DEF Shapes

LEMMA ShapesStep == Shapes /\ [Next]_vars => Shapes'
<1> SUFFICES ASSUME Shapes, [Next]_vars PROVE Shapes'
  OBVIOUS
<1>1. ASSUME NEW r \in Posts, Vector(r) PROVE Shapes'
  BY <1>1, PostTypes, PostShapeStep DEF Shapes
<1>2. ASSUME NEW p \in Consumers, Consumer(p) PROVE Shapes'
  <2>1. WorkTypes' /\ ConsumerShape'
    BY <1>2, ConsumerTypes DEF Shapes
  <2>2. MinerTypes' /\ PostShape' /\ faults' \in Nat /\ ends' \in Nat
    BY <1>2, ConsumerMinerTypes DEF Shapes
  <2> QED
    BY <2>1, <2>2 DEF Shapes, Types
<1>3. CASE StartServer
  BY <1>3, StartServerTypes DEF Shapes
<1>4. CASE UNCHANGED vars
  BY <1>4 DEF Shapes, Types, MinerTypes, WorkTypes, PostShape, ConsumerShape, Entries,
              PostRecords, ConsumerRecords, ThreadRecords,
              vars, minerVars, listVars, workVars, counters
<1> QED
  BY <1>1, <1>2, <1>3, <1>4 DEF Next

\* The type invariant of the log pipeline.
THEOREM TypeCorrect == Spec => []TypeOK
<1>1. Init => Shapes
  BY ShapesInit
<1>2. Shapes /\ [Next]_vars => Shapes'
  BY ShapesStep
<1>3. Shapes => TypeOK
  BY TypesImplyTypeOK DEF Shapes
<1> QED
  BY <1>1, <1>2, <1>3, PTL DEF Spec

-----------------------------------------------------------------------------

Order == Queue /\ Numbers

\* Every entry there is was pushed.
LEMMA NumbersPushed ==
  ASSUME Shapes
  PROVE  /\ pushed \in Nat
         /\ \A e \in Entries : e.number \in Nat /\ e.number <= pushed
         /\ \A i \in DOMAIN list : list[i] \in Entries
         /\ \A t \in DOMAIN threads : threads[t].entry \in Entries /\ t \in Nat
         /\ \A p \in Consumers : Popped(p) => consumer[p].entry \in Entries
<1>1. pushed \in Nat
  BY DEF Shapes, Types, WorkTypes
<1>2. \A e \in Entries : e.number \in Nat /\ e.number <= pushed
  BY <1>1 DEF Entries
<1>3. \A i \in DOMAIN list : list[i] \in Entries
  BY LenProperties, ElementOfSeq DEF Shapes, Types, WorkTypes
<1>4. \A t \in DOMAIN threads : threads[t].entry \in Entries /\ t \in Nat
  <2>1. threads \in Seq(ThreadRecords) /\ DOMAIN threads = 1..Len(threads) /\ Len(threads) \in Nat
    BY LenProperties DEF Shapes, Types, WorkTypes
  <2>2. \A t \in DOMAIN threads : threads[t] \in ThreadRecords /\ t \in Nat
    BY <2>1, ElementOfSeq
  <2> QED
    BY <2>2 DEF ThreadRecords
<1>5. \A p \in Consumers : Popped(p) => consumer[p].entry \in Entries
  BY DEF Shapes, ConsumerShape, Popped, Busy
<1> QED
  BY <1>1, <1>2, <1>3, <1>4, <1>5

\* The list may lose its first entry, and consumers what they popped.
LEMMA OrderKept ==
  ASSUME Shapes, Order, threads' = threads,
         list' = list \/ (list # <<>> /\ list' = Tail(list)),
         \A q \in Consumers : Popped(q)' => Popped(q) /\ consumer'[q].entry = consumer[q].entry
  PROVE  Order'
<1>1. CASE list' = list
  BY <1>1 DEF Order, Queue, Numbers
<1>2. CASE list # <<>> /\ list' = Tail(list)
  <2>1. /\ Len(list) \in Nat /\ DOMAIN list = 1..Len(list)
        /\ DOMAIN list' = 1..Len(list) - 1
        /\ \A i \in 1..Len(list) - 1 : list'[i] = list[i + 1]
    BY <1>2, ListTail DEF Shapes, Types
  <2>2. \A i \in DOMAIN list' : i + 1 \in DOMAIN list /\ list'[i] = list[i + 1]
    BY <2>1
  <2>3. \A i, j \in DOMAIN list' : i < j => i + 1 < j + 1
    BY <2>1
  <2>4. Queue'
    BY <2>2, <2>3 DEF Order, Queue
  <2>5. Numbers'
    BY DEF Order, Numbers
  <2> QED
    BY <2>4, <2>5 DEF Order
<1> QED
  BY <1>1, <1>2

\* The newest entries are put at the end.
LEMMA OrderPushed ==
  ASSUME Shapes, Order, NEW n \in 1..Len(learned), NEW k \in Nat,
         list' = Pushed(n, k), UNCHANGED <<learned, consumer, threads>>, pushed' = pushed + k
  PROVE  Order'
<1>1. PICK r : r = Pushed(n, k)
  OBVIOUS
<1>2. /\ Len(list) \in Nat /\ DOMAIN list = 1..Len(list)
      /\ DOMAIN r = 1..Len(list) + k
      /\ \A i \in 1..Len(list) : r[i] = list[i]
      /\ \A i \in Len(list) + 1..Len(list) + k :
           r[i] = [learning |-> n, number |-> pushed + (i - Len(list))]
  BY <1>1, PushedProperties DEF Shapes, Types
<1>3. \A i \in DOMAIN r :
        \/ i \in DOMAIN list /\ r[i] = list[i]
        \/ i > Len(list) /\ r[i].number = pushed + (i - Len(list))
  <2> SUFFICES ASSUME NEW i \in DOMAIN r
               PROVE  \/ i \in DOMAIN list /\ r[i] = list[i]
                      \/ i > Len(list) /\ r[i].number = pushed + (i - Len(list))
    OBVIOUS
  <2>1. CASE i <= Len(list)
    BY <1>2, <2>1
  <2>2. CASE i > Len(list)
    <3>1. i \in Len(list) + 1..Len(list) + k
      BY <1>2, <2>2
    <3>2. r[i] = [learning |-> n, number |-> pushed + (i - Len(list))]
      BY <1>2, <3>1
    <3> QED
      BY <2>2, <3>2
  <2> QED
    BY <1>2, <2>1, <2>2
<1>4. /\ pushed \in Nat
      /\ \A i \in DOMAIN list : list[i].number \in Nat /\ list[i].number <= pushed
      /\ \A t \in DOMAIN threads : threads[t].entry.number \in Nat /\ threads[t].entry.number <= pushed
      /\ \A p \in Consumers : Popped(p) => /\ consumer[p].entry.number \in Nat
                                           /\ consumer[p].entry.number <= pushed
  BY NumbersPushed
<1>5. \A i, j \in DOMAIN r : i < j => r[i].number < r[j].number
  <2> SUFFICES ASSUME NEW i \in DOMAIN r, NEW j \in DOMAIN r, i < j
               PROVE  r[i].number < r[j].number
    OBVIOUS
  <2>1. CASE j \in DOMAIN list /\ r[j] = list[j]
    <3>1. i \in DOMAIN list /\ r[i] = list[i]
      BY <1>2, <2>1
    <3> QED
      BY <2>1, <3>1 DEF Order, Queue
  <2>2. CASE j > Len(list) /\ r[j].number = pushed + (j - Len(list))
    <3>1. CASE i \in DOMAIN list /\ r[i] = list[i]
      BY <1>2, <1>4, <2>2, <3>1
    <3>2. CASE i > Len(list) /\ r[i].number = pushed + (i - Len(list))
      BY <1>2, <1>4, <2>2, <3>2
    <3> QED
      BY <1>3, <3>1, <3>2
  <2> QED
    BY <1>3, <2>1, <2>2
<1>6. ASSUME NEW i \in DOMAIN r
      PROVE  /\ \A p \in Consumers : Popped(p) => consumer[p].entry.number < r[i].number
             /\ \A t \in DOMAIN threads : threads[t].entry.number < r[i].number
  <2>1. CASE i \in DOMAIN list /\ r[i] = list[i]
    BY <2>1 DEF Order, Queue
  <2>2. CASE i > Len(list) /\ r[i].number = pushed + (i - Len(list))
    <3>1. r[i].number \in Nat /\ r[i].number > pushed
      BY <1>2, <1>4, <2>2
    <3> QED
      BY <1>4, <3>1
  <2> QED
    BY <1>3, <2>1, <2>2
<1>7. list' = r /\ (\A p \in Consumers : Popped(p)' <=> Popped(p))
  BY <1>1 DEF Popped
<1>8. Queue'
  BY <1>5, <1>6, <1>7 DEF Queue
<1>9. Numbers'
  BY <1>7 DEF Order, Numbers
<1> QED
  BY <1>8, <1>9 DEF Order

\* A consumer pops the oldest entry of the list.
LEMMA OrderPopped ==
  ASSUME Shapes, Order, NEW p \in Consumers, Pop(p)
  PROVE  Order'
<1>1. /\ Len(list) \in Nat /\ Len(list) >= 1 /\ DOMAIN list = 1..Len(list)
      /\ DOMAIN Tail(list) = 1..Len(list) - 1 /\ Head(list) = list[1]
      /\ \A i \in 1..Len(list) - 1 : Tail(list)[i] = list[i + 1]
  BY ListTail DEF Shapes, Types, Pop
<1>2. PICK e : e = list[1]
  OBVIOUS
<1>3. /\ consumer'[p].pc = "handle" /\ consumer'[p].entry = e
      /\ \A q \in Consumers : q # p => consumer'[q] = consumer[q]
      /\ ~Popped(p) /\ threads' = threads /\ list' = Tail(list)
  <2>1. PICK x \in ConsumerRecords :
           x.pc = "handle" /\ x.entry = Head(list) /\ consumer' = [consumer EXCEPT ![p] = x]
    BY PopState DEF Shapes, Types
  <2> QED
    BY <1>1, <1>2, <2>1 DEF Shapes, Types, WorkTypes, Pop, Popped, workVars
<1>4. /\ \A i \in DOMAIN list' : i + 1 \in DOMAIN list /\ 1 < i + 1 /\ list'[i] = list[i + 1]
      /\ \A i, j \in DOMAIN list' : i < j => i + 1 < j + 1
      /\ 1 \in DOMAIN list
  BY <1>1, <1>3
<1>5. /\ \A q \in Consumers : Popped(q) => consumer[q].entry.number < e.number
      /\ \A t \in DOMAIN threads : threads[t].entry.number < e.number
      /\ \A i \in DOMAIN list' : e.number < list'[i].number
      /\ \A i, j \in DOMAIN list' : i < j => list'[i].number < list'[j].number
  BY <1>2, <1>4 DEF Order, Queue
<1>6. \A q \in Consumers : q # p => (Popped(q)' <=> Popped(q)) /\ consumer'[q] = consumer[q]
  BY <1>3 DEF Popped
<1>7. /\ \A e1 \in Entries : e1.number \in Nat
      /\ e \in Entries
      /\ \A t \in DOMAIN threads : threads[t].entry \in Entries
      /\ \A q \in Consumers : Popped(q) => consumer[q].entry \in Entries
  BY <1>2, <1>4, NumbersPushed
<1>8. Queue'
  <2>1. ASSUME NEW i \in DOMAIN list', NEW q \in Consumers, Popped(q)'
        PROVE  consumer'[q].entry.number < list'[i].number
    <3>1. CASE q = p
      BY <1>3, <1>5, <3>1
    <3>2. CASE q # p
      <4>1. Popped(q) /\ consumer'[q] = consumer[q]
        BY <1>6, <2>1, <3>2
      <4>2. i + 1 \in DOMAIN list /\ list'[i] = list[i + 1]
        BY <1>4
      <4> QED
        BY <4>1, <4>2 DEF Order, Queue
    <3> QED
      BY <3>1, <3>2
  <2>2. ASSUME NEW i \in DOMAIN list', NEW t \in DOMAIN threads
        PROVE  threads[t].entry.number < list'[i].number
    <3>1. i + 1 \in DOMAIN list /\ list'[i] = list[i + 1]
      BY <1>4
    <3> QED
      BY <3>1 DEF Order, Queue
  <2> QED
    BY <1>3, <1>5, <2>1, <2>2 DEF Queue
<1>9. Numbers'
  <2>1. ASSUME NEW q \in Consumers, NEW s \in Consumers, Popped(q)', Popped(s)', q # s
        PROVE  consumer'[q].entry.number # consumer'[s].entry.number
    <3>1. CASE q = p
      BY <1>3, <1>5, <1>6, <1>7, <2>1, <3>1
    <3>2. CASE s = p
      BY <1>3, <1>5, <1>6, <1>7, <2>1, <3>2
    <3>3. CASE q # p /\ s # p
      BY <1>6, <2>1, <3>3 DEF Order, Numbers
    <3> QED
      BY <3>1, <3>2, <3>3
  <2>2. ASSUME NEW q \in Consumers, NEW t \in DOMAIN threads, Popped(q)'
        PROVE  /\ threads[t].entry.number # consumer'[q].entry.number
               /\ threads[t].by = q => threads[t].entry.number < consumer'[q].entry.number
    <3>1. CASE q = p
      BY <1>3, <1>5, <1>7, <3>1
    <3>2. CASE q # p
      BY <1>6, <2>2, <3>2 DEF Order, Numbers
    <3> QED
      BY <3>1, <3>2
  <2> QED
    BY <1>3, <2>1, <2>2 DEF Order, Numbers
<1> QED
  BY <1>8, <1>9 DEF Order

\* What was popped becomes a conversation.
LEMMA OrderBegins ==
  ASSUME Shapes, Order, NEW p \in Consumers, Begins(p)
  PROVE  Order'
<1>1. PICK n : n = Len(threads) + 1
  OBVIOUS
<1>2. /\ n - 1 \in Nat /\ DOMAIN threads = 1..n - 1 /\ DOMAIN threads' = 1..n
      /\ threads'[n] = [entry |-> consumer[p].entry, by |-> p]
      /\ \A t \in DOMAIN threads : threads'[t] = threads[t]
      /\ consumer'[p].pc = "publish"
      /\ \A q \in Consumers : q # p => consumer'[q] = consumer[q]
  BY <1>1, BeginsEffect DEF Shapes, Types
<1>3. n \in Nat
  BY <1>1, LenProperties DEF Shapes, Types, WorkTypes
<1>4. Popped(p) /\ ~Popped(p)' /\ list' = list
  BY <1>2 DEF Begins, Popped, listVars
<1>5. PICK e : e = consumer[p].entry
  OBVIOUS
<1>6. \A q \in Consumers : Popped(q)' => q # p /\ Popped(q) /\ consumer'[q] = consumer[q]
  BY <1>2, <1>4 DEF Popped
<1>7. \A t \in DOMAIN threads' :
        \/ t \in DOMAIN threads /\ threads'[t] = threads[t]
        \/ t = n /\ threads'[t].entry = e /\ threads'[t].by = p
  BY <1>2, <1>3, <1>5
<1>8. /\ \A e1 \in Entries : e1.number \in Nat
      /\ e \in Entries
      /\ \A t \in DOMAIN threads : threads[t].entry \in Entries
      /\ \A q \in Consumers : Popped(q) => consumer[q].entry \in Entries
  BY <1>4, <1>5, NumbersPushed
<1>9. Queue'
  BY <1>4, <1>5, <1>6, <1>7 DEF Order, Queue
<1>10. ASSUME NEW q \in Consumers, NEW t \in DOMAIN threads', Popped(q)'
       PROVE  /\ threads'[t].entry.number # consumer'[q].entry.number
              /\ threads'[t].by = q => threads'[t].entry.number < consumer'[q].entry.number
  <2>1. q # p /\ Popped(q) /\ consumer'[q] = consumer[q]
    BY <1>6, <1>10
  <2>2. CASE t \in DOMAIN threads /\ threads'[t] = threads[t]
    BY <2>1, <2>2 DEF Order, Numbers
  <2>3. CASE t = n /\ threads'[t].entry = e /\ threads'[t].by = p
    BY <1>4, <1>5, <2>1, <2>3 DEF Order, Numbers
  <2> QED
    BY <1>7, <2>2, <2>3
<1>11. ASSUME NEW t \in DOMAIN threads', NEW u \in DOMAIN threads', t < u
       PROVE  /\ threads'[t].entry.number # threads'[u].entry.number
              /\ threads'[t].by = threads'[u].by =>
                   threads'[t].entry.number < threads'[u].entry.number
  <2>1. t \in DOMAIN threads /\ threads'[t] = threads[t]
    BY <1>2, <1>3, <1>11
  <2>2. CASE u \in DOMAIN threads /\ threads'[u] = threads[u]
    BY <1>11, <2>1, <2>2 DEF Order, Numbers
  <2>3. CASE u = n /\ threads'[u].entry = e /\ threads'[u].by = p
    BY <1>4, <1>5, <2>1, <2>3 DEF Order, Numbers
  <2> QED
    BY <1>7, <2>2, <2>3
<1>12. Numbers'
  <2>1. \A q, s \in Consumers :
          Popped(q)' /\ Popped(s)' /\ q # s => consumer'[q].entry.number # consumer'[s].entry.number
    BY <1>6 DEF Order, Numbers
  <2> QED
    BY <1>10, <1>11, <2>1 DEF Numbers
<1> QED
  BY <1>9, <1>12 DEF Order

\* A consumer rests or goes on with what it does: nobody has popped more.
LEMMA PoppedStays ==
  ASSUME WorkTypes, NEW p \in Consumers, Rests(p) \/ Goto(p, "run")
  PROVE  \A q \in Consumers : Popped(q)' => Popped(q) /\ consumer'[q].entry = consumer[q].entry
<1>1. PICK x : x.pc # "handle" /\ consumer' = [consumer EXCEPT ![p] = x]
  <2>1. CASE Rests(p)
    BY <2>1 DEF Rests, Busy
  <2>2. CASE Goto(p, "run")
    BY <2>2, RunState
  <2> QED
    BY <2>1, <2>2
<1> QED
  BY <1>1 DEF Popped, WorkTypes

LEMMA OrderStep == Shapes /\ Order /\ [Next]_vars => Order'
<1> SUFFICES ASSUME Shapes, Order, [Next]_vars PROVE Order'
  OBVIOUS
<1>0. WorkTypes
  BY DEF Shapes, Types
<1>1. ASSUME NEW r \in Posts, Vector(r) PROVE Order'
  <2>1. CASE PushEntry(r)
    <3>1. PICK k \in 0..MaxCopies : list' = Pushed(post[r].learning, k) /\ pushed' = pushed + k
      BY <2>1 DEF PushEntry
    <3>2. UNCHANGED <<learned, consumer, threads>>
      BY <2>1 DEF PushEntry, minerVars, workVars
    <3>3. Len(learned) \in Nat /\ post[r] \in PostRecords
      BY LenProperties DEF Shapes, Types, MinerTypes
    <3>4. post[r].learning \in 1..Len(learned)
      BY <2>1, <3>3 DEF PushEntry, PostShape, Shapes, PostRecords
    <3> QED
      BY <3>1, <3>2, <3>4, OrderPushed
  <2>2. CASE ~PushEntry(r)
    <3>1. UNCHANGED <<list, consumer, threads>>
      BY <1>1, <2>2 DEF Vector, Ingest, FindTemplate, MissTemplate, LearnTemplate, listVars, workVars
    <3> QED
      BY <3>1 DEF Order, Queue, Numbers, Popped
  <2> QED
    BY <2>1, <2>2
<1>2. ASSUME NEW p \in Consumers, Rests(p) \/ Goto(p, "run"), UNCHANGED <<list, threads>>
      PROVE  Order'
  BY <1>0, <1>2, PoppedStays, OrderKept
<1>3. ASSUME NEW p \in Consumers, Consumer(p) PROVE Order'
  <2>1. CASE Pop(p)
    BY <2>1, OrderPopped
  <2>2. CASE PopLost(p)
    <3>1. UNCHANGED <<consumer, threads>> /\ list # <<>> /\ list' = Tail(list)
      BY <2>2 DEF PopLost, workVars
    <3> QED
      BY <3>1, OrderKept DEF Popped
  <2>3. CASE Begins(p)
    BY <2>3, OrderBegins
  <2>4. CASE (Converse(p) \/ NewThread(p)) /\ ~Begins(p)
    <3>1. Converse(p) /\ NextEntry(p) /\ UNCHANGED <<list, threads>>
      BY <2>4 DEF Converse, NewThread, Begins, counters, listVars
    <3> QED
      BY <1>0, <1>2, <3>1, RestsWhen
  <2>5. CASE StartOther(p) \/ PublishUser(p) \/ RunHere(p) \/ Show(p) \/ End(p)
    <3>1. UNCHANGED <<list, threads>>
      BY <2>5 DEF StartOther, PublishUser, RunHere, Show, End, listVars, workVars
    <3>2. Rests(p) \/ Goto(p, "run")
      BY <1>0, <2>5, RestsWhen DEF PublishUser, RunHere, Show
    <3> QED
      BY <1>2, <3>1, <3>2
  <2> QED
    BY <1>3, <2>1, <2>2, <2>3, <2>4, <2>5 DEF Consumer
<1>4. CASE StartServer
  <2>1. UNCHANGED <<list, threads>> /\ Server \in Consumers
    BY <1>4 DEF StartServer, listVars, workVars, Consumers
  <2> QED
    BY <1>0, <1>2, <1>4, <2>1, RestsWhen
<1>5. CASE UNCHANGED vars
  BY <1>5 DEF vars, listVars, workVars, Order, Queue, Numbers, Popped
<1> QED
  BY <1>1, <1>3, <1>4, <1>5 DEF Next

-----------------------------------------------------------------------------

LEMMA EventTypes ==
  ASSUME WorkTypes
  PROVE  /\ \A i \in DOMAIN events : events[i] \in DOMAIN threads /\ events[i] \in Nat
         /\ DOMAIN events = 1..Len(events) /\ Len(events) \in Nat
<1>1. events \in Seq(DOMAIN threads) /\ DOMAIN threads = 1..Len(threads)
  BY LenProperties DEF WorkTypes
<1>2. \A i \in DOMAIN events : events[i] \in DOMAIN threads
  BY <1>1, ElementOfSeq, LenProperties
<1> QED
  BY <1>1, <1>2, LenProperties

\* What a consumer publishes is of its newest conversation.
LEMMA EventOrderPublished ==
  ASSUME Shapes, EventOrder, NEW p \in Consumers, consumer[p].pc = "publish",
         NEW k \in Nat, Published(p, k), threads' = threads
  PROVE  EventOrder'
<1>1. PICK t : t = consumer[p].thread
  OBVIOUS
<1>2. /\ t \in DOMAIN threads /\ threads[t].by = p
      /\ \A u \in DOMAIN threads : threads[u].by = p => u <= t
  <2>1. consumer[p].pc \in {"publish", "run"} /\ ConsumerShape
    BY DEF Shapes
  <2>2. /\ t \in DOMAIN threads /\ threads[t] = [entry |-> consumer[p].entry, by |-> p]
        /\ \A u \in DOMAIN threads : threads[u].by = p => u <= t
    BY <1>1, <2>1 DEF ConsumerShape
  <2> QED
    BY <2>2
<1>3. /\ Len(events) \in Nat /\ DOMAIN events = 1..Len(events)
      /\ DOMAIN events' = 1..Len(events) + k
      /\ \A i \in 1..Len(events) : events'[i] = events[i]
      /\ \A i \in Len(events) + 1..Len(events) + k : events'[i] = t
  BY <1>1, <1>2, EventsAdded DEF Shapes, Types
<1>4. /\ \A i \in DOMAIN events : events[i] \in DOMAIN threads
      /\ t \in Nat
  BY <1>2, EventTypes, LenProperties DEF Shapes, Types, WorkTypes
<1>5. PICK s : s = events'
  OBVIOUS
<1>6. \A i \in DOMAIN s : \/ i \in DOMAIN events /\ s[i] = events[i]
                          \/ i \notin DOMAIN events /\ s[i] = t
  <2> SUFFICES ASSUME NEW i \in DOMAIN s
               PROVE  \/ i \in DOMAIN events /\ s[i] = events[i]
                      \/ i \notin DOMAIN events /\ s[i] = t
    OBVIOUS
  <2>1. i \in 1..Len(events) \/ i \in Len(events) + 1..Len(events) + k
    BY <1>3, <1>5
  <2> QED
    BY <1>3, <1>5, <2>1
<1>7. ASSUME NEW i \in DOMAIN s, NEW j \in DOMAIN s, i < j, threads[s[i]].by = threads[s[j]].by
      PROVE  s[i] <= s[j]
  <2>1. CASE j \in DOMAIN events /\ s[j] = events[j]
    <3>1. i \in DOMAIN events /\ s[i] = events[i]
      BY <1>3, <1>5, <1>7, <2>1
    <3> QED
      BY <1>7, <2>1, <3>1 DEF EventOrder
  <2>2. CASE j \notin DOMAIN events /\ s[j] = t
    <3>1. CASE s[i] = t
      BY <1>4, <2>2, <3>1
    <3>2. CASE i \in DOMAIN events /\ s[i] = events[i]
      BY <1>2, <1>4, <1>7, <2>2, <3>2
    <3> QED
      BY <1>6, <3>1, <3>2
  <2> QED
    BY <1>6, <2>1, <2>2
<1> QED
  BY <1>5, <1>7 DEF EventOrder

LEMMA EventOrderStep == Shapes /\ EventOrder /\ [Next]_vars => EventOrder'
<1> SUFFICES ASSUME Shapes, EventOrder, [Next]_vars PROVE EventOrder'
  OBVIOUS
<1>1. CASE UNCHANGED <<events, threads>>
  BY <1>1 DEF EventOrder
<1>2. ASSUME NEW r \in Posts, Vector(r) PROVE UNCHANGED <<events, threads>>
  BY <1>2 DEF Vector, Ingest, FindTemplate, MissTemplate, LearnTemplate, PushEntry, workVars
<1>3. ASSUME NEW p \in Consumers, Consumer(p) PROVE EventOrder'
  <2>1. CASE Begins(p)
    <3>1. /\ events' = events
          /\ \A t \in DOMAIN threads : threads'[t] = threads[t]
      BY <2>1, BeginsEffect DEF Begins, Shapes, Types
    <3>2. \A i \in DOMAIN events : events[i] \in DOMAIN threads
      BY EventTypes DEF Shapes, Types
    <3> QED
      BY <3>1, <3>2 DEF EventOrder
  <2>2. CASE (Converse(p) \/ NewThread(p)) /\ ~Begins(p)
    <3>1. UNCHANGED <<events, threads>>
      BY <2>2 DEF Converse, NewThread, Begins, counters
    <3> QED
      BY <1>1, <3>1
  <2>3. CASE PublishUser(p)
    BY <2>3, EventOrderPublished DEF PublishUser
  <2>4. CASE End(p)
    BY <1>1, <2>4, EventOrderPublished DEF End
  <2>5. CASE StartOther(p) \/ Pop(p) \/ PopLost(p) \/ RunHere(p) \/ Show(p)
    <3>1. UNCHANGED <<events, threads>>
      BY <2>5 DEF StartOther, Pop, PopLost, RunHere, Show, workVars
    <3> QED
      BY <1>1, <3>1
  <2> QED
    BY <1>3, <2>1, <2>2, <2>3, <2>4, <2>5 DEF Consumer
<1>4. CASE StartServer \/ UNCHANGED vars
  BY <1>1, <1>4 DEF StartServer, vars, workVars
<1> QED
  BY <1>1, <1>2, <1>3, <1>4 DEF Next

\* The inductive invariant of the order.
OrderInv == Shapes /\ Order /\ EventOrder

LEMMA OrderInvImpliesReportedInOrder == OrderInv => ReportedInOrder
<1> SUFFICES ASSUME OrderInv PROVE ReportedInOrder
  OBVIOUS
<1>1. /\ \A i \in DOMAIN events : events[i] \in DOMAIN threads /\ events[i] \in Nat
      /\ \A t \in DOMAIN threads : t \in Nat
  BY EventTypes, NumbersPushed DEF OrderInv, Shapes, Types
<1>2. ASSUME NEW i \in DOMAIN events, NEW j \in DOMAIN events, i < j,
             threads[events[i]].by = threads[events[j]].by, events[i] # events[j]
      PROVE  threads[events[i]].entry.number < threads[events[j]].entry.number
  <2>1. events[i] <= events[j]
    BY <1>2 DEF OrderInv, EventOrder
  <2>2. events[i] < events[j]
    BY <1>1, <1>2, <2>1
  <2> QED
    BY <1>1, <1>2, <2>2 DEF OrderInv, Order, Numbers
<1>3. ASSUME NEW t \in DOMAIN threads, NEW u \in DOMAIN threads, t # u
      PROVE  threads[t].entry # threads[u].entry
  <2>1. t < u \/ u < t
    BY <1>1, <1>3
  <2> QED
    BY <2>1 DEF OrderInv, Order, Numbers
<1> QED
  BY <1>2, <1>3 DEF ReportedInOrder

\* collector/vector_consumer.py with its handlers: any number of consumers, repeated
\* LPUSHes, lost answers of BRPOP and ends of processes included, what one consumer
\* publishes comes in the order the entries were pushed, and no entry is made two
\* conversations.
THEOREM ReportedInOrderAlways == Spec => []ReportedInOrder
<1>1. Init => OrderInv
  <2>1. Init => Order /\ EventOrder
    BY DEF Init, Order, Queue, Numbers, EventOrder, Popped, Off
  <2> QED
    BY <2>1, ShapesInit DEF OrderInv
<1>2. OrderInv /\ [Next]_vars => OrderInv'
  BY ShapesStep, OrderStep, EventOrderStep DEF OrderInv
<1>3. OrderInv => ReportedInOrder
  BY OrderInvImpliesReportedInOrder
<1> QED
  BY <1>1, <1>2, <1>3, PTL DEF Spec

-----------------------------------------------------------------------------

LEMMA Times == \A a, b \in Nat : a * b \in Nat /\ a * (1 + b) = a * b + a
  OBVIOUS

LEMMA LearnedCounted ==
  ASSUME Shapes, NEW t
  PROVE  /\ IsFiniteSet(LearnedFor(t)) /\ Cardinality(LearnedFor(t)) \in Nat
         /\ IsFiniteSet(Learning(t)) /\ Cardinality(Learning(t)) \in Nat
         /\ Cardinality(Posts) \in Nat
         /\ Cardinality(Learning(t)) <= Cardinality(Posts)
<1>1. Len(learned) \in Nat /\ DOMAIN learned = 1..Len(learned)
  BY LenProperties DEF Shapes, Types, MinerTypes
<1>2. IsFiniteSet(1..Len(learned))
  BY <1>1, FS_Interval
<1>3. LearnedFor(t) \subseteq 1..Len(learned)
  BY <1>1 DEF LearnedFor
<1>4. Learning(t) \subseteq Posts /\ IsFiniteSet(Posts)
  BY LIAssumption DEF Learning
<1> QED
  BY <1>2, <1>3, <1>4, FS_Subset, FS_CardinalityType

\* How often t was forgotten is what the miner makes of it.
Forgets(t) ==
  forgotten'[t] = IF t \in ToSet(miner) /\ t \notin ToSet(miner') THEN forgotten[t] + 1
                  ELSE forgotten[t]

LEMMA MinedForgets ==
  ASSUME NEW t \in Templates, (\E m : Mined(m)) \/ UNCHANGED <<miner, forgotten>>
  PROVE  Forgets(t)
<1>1. CASE UNCHANGED <<miner, forgotten>>
  BY <1>1 DEF Forgets
<1>2. ASSUME NEW m, Mined(m) PROVE Forgets(t)
  BY <1>2 DEF Forgets, Mined
<1> QED
  BY <1>1, <1>2

\* No cluster is created for t, and no request starts to learn it while it is in
\* memory.
LEMMA PaidStays ==
  ASSUME Shapes, Shapes', NEW t \in Templates, PaidFor(t), Forgets(t),
         LearnedFor(t)' = LearnedFor(t),
         t \in ToSet(miner) => Learning(t)' \subseteq Learning(t)
  PROVE  PaidFor(t)'
<1>1. PICK l \in Nat : l = Cardinality(LearnedFor(t))
  BY LearnedCounted
<1>2. PICK w \in Nat : w = Cardinality(Learning(t))
  BY LearnedCounted
<1>3. PICK w1 : w1 = Cardinality(Learning(t))'
  OBVIOUS
<1>4. PICK k \in Nat : k = Cardinality(Posts)
  BY LearnedCounted
<1>5. PICK f \in Nat : f = forgotten[t]
  BY DEF Shapes, Types, MinerTypes
<1>6. PICK f1 \in Nat : f1 = forgotten'[t]
  BY DEF Shapes, Types, MinerTypes
<1>7. w1 \in Nat /\ w1 <= k
  <2>1. /\ IsFiniteSet(Posts) /\ Learning(t)' \subseteq Posts
    BY LIAssumption DEF Learning
  <2> QED
    BY <1>3, <1>4, <2>1, FS_Subset, FS_CardinalityType
<1>8. t \in ToSet(miner) => w1 <= w
  BY <1>2, <1>3, LearnedCounted, FS_Subset
<1>9. Cardinality(LearnedFor(t))' = l
  BY <1>1
<1>10. /\ t \in ToSet(miner) => l + w <= k * (1 + f)
       /\ t \notin ToSet(miner) => l <= k * f
  BY <1>1, <1>2, <1>4, <1>5 DEF PaidFor
<1>11. f1 = IF t \in ToSet(miner) /\ t \notin ToSet(miner') THEN f + 1 ELSE f
  BY <1>5, <1>6 DEF Forgets
<1>12. k * f \in Nat /\ k * (1 + f) = k * f + k
  BY Times
<1>13. CASE t \in ToSet(miner')
  <2>1. f1 = f
    BY <1>11, <1>13
  <2>2. l + w1 <= k * (1 + f)
    <3>1. CASE t \in ToSet(miner)
      BY <1>7, <1>8, <1>10, <1>12, <3>1
    <3>2. CASE t \notin ToSet(miner)
      BY <1>7, <1>10, <1>12, <3>2
    <3> QED
      BY <3>1, <3>2
  <2> QED
    BY <1>3, <1>4, <1>6, <1>9, <1>13, <2>1, <2>2 DEF PaidFor
<1>14. CASE t \notin ToSet(miner')
  <2>1. l <= k * f1
    <3>1. CASE t \in ToSet(miner)
      <4>1. f1 = 1 + f
        BY <1>11, <1>14, <3>1
      <4> QED
        BY <1>10, <1>12, <3>1, <4>1
    <3>2. CASE t \notin ToSet(miner)
      BY <1>10, <1>11, <3>2
    <3> QED
      BY <3>1, <3>2
  <2> QED
    BY <1>4, <1>6, <1>9, <1>14, <2>1 DEF PaidFor
<1> QED
  BY <1>13, <1>14

\* The cluster for t is created: one request fewer is about to learn it.
LEMMA PaidLearned ==
  ASSUME Shapes, Shapes', NEW r \in Posts, LearnTemplate(r),
         NEW t, t = Head(post[r].logs), PaidFor(t)
  PROVE  PaidFor(t)'
<1>1. t \in Templates
  BY HeadTailProperties DEF LearnTemplate, Shapes, PostShape, Types, MinerTypes, PostRecords
<1>2. t \in ToSet(miner')
  <2>1. PICK m \in Seq(Templates) : miner' = Append(m, t)
    <3>1. miner \in Seq(Templates) /\ (Len(miner) >= MaxClusters => miner # <<>>)
      BY LIAssumption DEF Shapes, Types, MinerTypes
    <3>2. Len(miner) >= MaxClusters => Tail(miner) \in Seq(Templates)
      BY <3>1, HeadTailProperties
    <3>3. miner' = Created(t)
      BY DEF LearnTemplate, Mined
    <3> QED
      BY <3>1, <3>2, <3>3 DEF Created
  <2>2. Len(m) + 1 \in DOMAIN miner' /\ miner'[Len(m) + 1] = t
    BY <1>1, <2>1, AppendProperties, LenProperties
  <2> QED
    BY <2>2 DEF ToSet
<1>3. forgotten'[t] = forgotten[t]
  BY <1>1, <1>2, MinedForgets DEF LearnTemplate, Forgets
<1>4. r \in Learning(t) /\ Learning(t)' = Learning(t) \ {r}
  <2>1. /\ post'[r].pc # "learn"
        /\ \A q \in Posts : q # r => post'[q] = post[q]
    <3>1. \A x : [Closed EXCEPT !.logs = x].pc = "next"
      BY DEF Closed
    <3> QED
      <4>1. CASE NextLog(r)
        BY <3>1, <4>1 DEF NextLog, Shapes, Types, MinerTypes
      <4>2. CASE post' = [post EXCEPT ![r].pc = "push", ![r].learning = Len(learned')]
        BY <4>2 DEF Shapes, Types, MinerTypes, PostRecords
      <4> QED
        BY <4>1, <4>2 DEF LearnTemplate
  <2> QED
    BY <2>1 DEF LearnTemplate, Learning
<1>5. PICK n \in Nat : n = Len(learned) + 1
  BY LenProperties DEF Shapes, Types, MinerTypes
<1>6. LearnedFor(t)' = LearnedFor(t) \union {n} /\ n \notin LearnedFor(t)
  <2>1. /\ Len(learned) \in Nat /\ DOMAIN learned = 1..Len(learned)
        /\ DOMAIN learned' = 1..n /\ learned'[n] = t
        /\ \A i \in 1..Len(learned) : learned'[i] = learned[i]
    BY <1>1, <1>5, AppendProperties, LenProperties DEF LearnTemplate, Shapes, Types, MinerTypes
  <2>2. 1..n = 1..Len(learned) \union {n} /\ n \notin 1..Len(learned)
    BY <1>5, <2>1
  <2> QED
    BY <2>1, <2>2 DEF LearnedFor
<1>7. PICK l \in Nat : l = Cardinality(LearnedFor(t))
  BY LearnedCounted
<1>8. PICK w \in Nat : w = Cardinality(Learning(t))
  BY LearnedCounted
<1>9. PICK k \in Nat : k = Cardinality(Posts)
  BY LearnedCounted
<1>10. PICK f \in Nat : f = forgotten[t]
  BY <1>1 DEF Shapes, Types, MinerTypes
<1>11. Cardinality(LearnedFor(t)') = l + 1
  BY <1>6, <1>7, LearnedCounted, FS_AddElement
<1>12. Cardinality(Learning(t)') = w - 1
  BY <1>4, <1>8, LearnedCounted, FS_RemoveElement
<1>13. w <= k
  BY <1>8, <1>9, LearnedCounted
<1>14. /\ t \in ToSet(miner) => l + w <= k * (1 + f)
       /\ t \notin ToSet(miner) => l <= k * f
  BY <1>7, <1>8, <1>9, <1>10 DEF PaidFor
<1>15. k * f \in Nat /\ k * (1 + f) = k * f + k
  BY Times
<1>16. (l + 1) + (w - 1) <= k * (1 + f)
  <2>1. CASE t \in ToSet(miner)
    BY <1>14, <1>15, <2>1
  <2>2. CASE t \notin ToSet(miner)
    BY <1>13, <1>14, <1>15, <2>2
  <2> QED
    BY <2>1, <2>2
<1> QED
  BY <1>2, <1>3, <1>9, <1>10, <1>11, <1>12, <1>16 DEF PaidFor

PaidForAll == \A t \in Templates : PaidFor(t)

LEMMA PaidStep == Shapes /\ Shapes' /\ PaidForAll /\ [Next]_vars => PaidForAll'
<1> SUFFICES ASSUME Shapes, Shapes', PaidForAll, [Next]_vars, NEW t \in Templates
             PROVE  PaidFor(t)'
  BY DEF PaidForAll
<1>1. PaidFor(t)
  BY DEF PaidForAll
<1>2. ASSUME NEW r \in Posts, post'[r].pc # "learn", \A q \in Posts : q # r => post'[q] = post[q]
      PROVE  Learning(t)' \subseteq Learning(t)
  BY <1>2 DEF Learning
<1>3. ASSUME NEW r \in Posts, NextLog(r) PROVE Learning(t)' \subseteq Learning(t)
  <2>1. \A x : [Closed EXCEPT !.logs = x].pc = "next"
    BY DEF Closed
  <2>2. post'[r].pc # "learn" /\ \A q \in Posts : q # r => post'[q] = post[q]
    BY <1>3, <2>1 DEF NextLog, Shapes, Types, MinerTypes
  <2> QED
    BY <1>2, <2>2
<1>4. CASE /\ UNCHANGED learned
           /\ (\E m : Mined(m)) \/ UNCHANGED <<miner, forgotten>>
           /\ t \in ToSet(miner) => Learning(t)' \subseteq Learning(t)
  <2>1. LearnedFor(t)' = LearnedFor(t)
    BY <1>4 DEF LearnedFor
  <2> QED
    BY <1>1, <1>4, <2>1, MinedForgets, PaidStays
<1>5. ASSUME NEW r \in Posts, Vector(r) PROVE PaidFor(t)'
  <2>1. CASE Ingest(r)
    <3>1. PICK b : post' = [post EXCEPT ![r].logs = b]
      BY <2>1 DEF Ingest
    <3>2. post[r].pc # "learn"
      BY <2>1 DEF Ingest, Shapes, PostShape
    <3>3. post'[r].pc # "learn" /\ \A q \in Posts : q # r => post'[q] = post[q]
      BY <3>1, <3>2 DEF Shapes, Types, MinerTypes, PostRecords
    <3> QED
      BY <1>2, <1>4, <2>1, <3>3 DEF Ingest, minerVars
  <2>2. CASE FindTemplate(r)
    BY <1>3, <1>4, <2>2 DEF FindTemplate
  <2>3. CASE MissTemplate(r)
    <3>1. /\ Head(post[r].logs) \notin ToSet(miner)
          /\ post'[r].logs = post[r].logs
          /\ \A q \in Posts : q # r => post'[q] = post[q]
      BY <2>3 DEF MissTemplate, Shapes, Types, MinerTypes, PostRecords
    <3>2. t \in ToSet(miner) => Learning(t)' \subseteq Learning(t)
      BY <3>1 DEF Learning
    <3> QED
      BY <1>4, <2>3, <3>2 DEF MissTemplate, minerVars
  <2>4. CASE LearnTemplate(r) /\ t = Head(post[r].logs)
    BY <1>1, <2>4, PaidLearned
  <2>5. CASE LearnTemplate(r) /\ t # Head(post[r].logs)
    <3>1. LearnedFor(t)' = LearnedFor(t)
      <4>1. Head(post[r].logs) \in Templates
        BY <2>5, HeadTailProperties DEF LearnTemplate, Shapes, PostShape, Types, MinerTypes, PostRecords
      <4>2. /\ Len(learned) \in Nat /\ DOMAIN learned = 1..Len(learned)
            /\ DOMAIN learned' = 1..Len(learned) + 1
            /\ learned'[Len(learned) + 1] = Head(post[r].logs)
            /\ \A i \in 1..Len(learned) : learned'[i] = learned[i]
        BY <2>5, <4>1, AppendProperties, LenProperties DEF LearnTemplate, Shapes, Types, MinerTypes
      <4> QED
        BY <2>5, <4>2 DEF LearnedFor
    <3>2. Learning(t)' \subseteq Learning(t)
      <4>1. CASE NextLog(r)
        BY <1>3, <4>1
      <4>2. CASE post' = [post EXCEPT ![r].pc = "push", ![r].learning = Len(learned')]
        <5>1. post'[r].pc # "learn" /\ \A q \in Posts : q # r => post'[q] = post[q]
          BY <4>2 DEF Shapes, Types, MinerTypes, PostRecords
        <5> QED
          BY <1>2, <5>1
      <4> QED
        BY <2>5, <4>1, <4>2 DEF LearnTemplate
    <3>3. Forgets(t)
      BY <2>5, MinedForgets DEF LearnTemplate
    <3> QED
      BY <1>1, <3>1, <3>2, <3>3, PaidStays
  <2>6. CASE PushEntry(r)
    BY <1>3, <1>4, <2>6 DEF PushEntry, minerVars
  <2> QED
    BY <1>5, <2>1, <2>2, <2>3, <2>4, <2>5, <2>6 DEF Vector
<1>6. ASSUME NEW p \in Consumers, Consumer(p) PROVE PaidFor(t)'
  <2>1. UNCHANGED minerVars /\ (post' = post \/ post' = [r \in Posts |-> Closed])
    BY <1>6 DEF Consumer, StartOther, Pop, PopLost, Converse, NewThread, PublishUser, RunHere,
                Show, End
  <2>2. Learning(t)' \subseteq Learning(t)
    BY <2>1 DEF Learning, Closed
  <2> QED
    BY <1>4, <2>1, <2>2 DEF minerVars
<1>7. CASE StartServer
  BY <1>4, <1>7 DEF StartServer, Learning
<1>8. CASE UNCHANGED vars
  BY <1>4, <1>8 DEF vars, minerVars, Learning
<1> QED
  BY <1>5, <1>6, <1>7, <1>8 DEF Next

\* And of what is learned again.
PaidInv == Shapes /\ PaidForAll

\* services/drain3_service.py: a template is learned again only because the miner
\* forgot it or because another request looked for it at the same time, for any
\* number of requests, any room in the miner, and any failures and restarts.
THEOREM LearnedAgainForCauseAlways == Spec => []LearnedAgainForCause
<1>1. Init => PaidInv
  <2> SUFFICES ASSUME Init, NEW t \in Templates PROVE PaidFor(t)
    BY ShapesInit DEF PaidInv, PaidForAll
  <2>1. LearnedFor(t) = {} /\ ToSet(miner) = {} /\ forgotten[t] = 0
    BY DEF Init, LearnedFor, ToSet
  <2>2. Cardinality(Posts) \in Nat
    BY LIAssumption, FS_CardinalityType
  <2> QED
    BY <2>1, <2>2, FS_EmptySet DEF PaidFor
<1>2. PaidInv /\ [Next]_vars => PaidInv'
  BY ShapesStep, PaidStep DEF PaidInv
<1>3. PaidInv => LearnedAgainForCause
  <2> SUFFICES ASSUME PaidInv, NEW t \in Templates
               PROVE  Cardinality(LearnedFor(t)) <= Cardinality(Posts) * (1 + forgotten[t])
    BY DEF LearnedAgainForCause, LearnedFor
  <2>1. /\ Cardinality(LearnedFor(t)) \in Nat /\ Cardinality(Learning(t)) \in Nat
        /\ Cardinality(Posts) \in Nat
    BY LearnedCounted DEF PaidInv
  <2>2. forgotten[t] \in Nat /\ PaidFor(t)
    BY DEF PaidInv, PaidForAll, Shapes, Types, MinerTypes
  <2>3. /\ Cardinality(Posts) * forgotten[t] \in Nat
        /\ Cardinality(Posts) * (1 + forgotten[t]) = Cardinality(Posts) * forgotten[t] + Cardinality(Posts)
    BY <2>1, <2>2, Times
  <2> QED
    BY <2>1, <2>2, <2>3 DEF PaidFor
<1> QED
  BY <1>1, <1>2, <1>3, PTL DEF Spec

-----------------------------------------------------------------------------

Accounted == OnTheWay \union Arrived
Causes == faults + ends * (Cardinality(Posts) + 1)

\* Where a learning is.
LEMMA AccountedWhere ==
  ASSUME NEW x
  PROVE  x \in Accounted <=>
           \/ \E r \in Posts : post[r].learning = x
           \/ \E i \in DOMAIN list : list[i].learning = x
           \/ \E p \in Consumers : consumer[p].entry.learning = x
           \/ x \in Arrived
  BY DEF Accounted, OnTheWay

\* What arrived stays.
LEMMA ArrivedStays ==
  ASSUME Shapes, DOMAIN threads \subseteq DOMAIN threads',
         \A t \in DOMAIN threads : threads'[t] = threads[t],
         DOMAIN events \subseteq DOMAIN events',
         \A i \in DOMAIN events : events'[i] = events[i],
         ran \subseteq ran', shown \subseteq shown'
  PROVE  Arrived \subseteq Arrived'
<1>1. \A i \in DOMAIN events : events[i] \in DOMAIN threads
  BY EventTypes DEF Shapes, Types
<1>2. ran \subseteq DOMAIN threads
  BY DEF Shapes, Types, WorkTypes
<1> SUFFICES ASSUME NEW x \in Arrived PROVE x \in Arrived'
  OBVIOUS
<1>3. CASE x \in {threads[events[i]].entry.learning : i \in DOMAIN events}
  <2>1. PICK i \in DOMAIN events : x = threads[events[i]].entry.learning
    BY <1>3
  <2>2. i \in DOMAIN events' /\ x = threads'[events'[i]].entry.learning
    BY <1>1, <2>1
  <2> QED
    BY <2>2 DEF Arrived
<1>4. CASE x \in {threads[t].entry.learning : t \in ran}
  BY <1>2, <1>4 DEF Arrived
<1>5. CASE x \in {e.learning : e \in shown}
  BY <1>5 DEF Arrived
<1> QED
  BY <1>3, <1>4, <1>5 DEF Arrived

LEMMA ArrivedSame ==
  ASSUME Shapes, threads' = threads, events' = events, ran \subseteq ran', shown \subseteq shown'
  PROVE  Arrived \subseteq Arrived'
  BY ArrivedStays

\* What arrived, and what is published now.
LEMMA ArrivedPublished ==
  ASSUME Shapes, NEW p \in Consumers, consumer[p].pc = "publish", NEW k \in Nat,
         Published(p, k), UNCHANGED <<threads, ran, shown>>
  PROVE  /\ Arrived \subseteq Arrived'
         /\ k > 0 => consumer[p].entry.learning \in Arrived'
<1>1. /\ consumer[p].thread \in DOMAIN threads
      /\ threads[consumer[p].thread] = [entry |-> consumer[p].entry, by |-> p]
  <2>1. ConsumerShape /\ consumer[p].pc \in {"publish", "run"}
    BY DEF Shapes
  <2> QED
    BY <2>1 DEF ConsumerShape
<1>2. /\ Len(events) \in Nat
      /\ DOMAIN events = 1..Len(events) /\ DOMAIN events' = 1..Len(events) + k
      /\ \A i \in 1..Len(events) : events'[i] = events[i]
      /\ \A i \in Len(events) + 1..Len(events) + k : events'[i] = consumer[p].thread
  BY <1>1, EventsAdded DEF Shapes, Types
<1>3. DOMAIN events \subseteq DOMAIN events'
  BY <1>2
<1>4. Arrived \subseteq Arrived'
  BY <1>2, <1>3, ArrivedStays
<1>5. ASSUME k > 0 PROVE consumer[p].entry.learning \in Arrived'
  <2>1. Len(events) + 1 \in DOMAIN events' /\ events'[Len(events) + 1] = consumer[p].thread
    BY <1>2, <1>5
  <2>2. threads'[events'[Len(events) + 1]].entry.learning = consumer[p].entry.learning
    BY <1>1, <2>1
  <2> QED
    BY <2>1, <2>2 DEF Arrived
<1> QED
  BY <1>4, <1>5

LEMMA LostFinite ==
  ASSUME Shapes
  PROVE  IsFiniteSet(Lost) /\ Cardinality(Lost) \in Nat /\ Cardinality(Posts) \in Nat
<1>1. Len(learned) \in Nat
  BY LenProperties DEF Shapes, Types, MinerTypes
<1>2. IsFiniteSet(1..Len(learned)) /\ Lost \subseteq 1..Len(learned)
  BY <1>1, FS_Interval DEF Lost
<1> QED
  BY <1>2, LIAssumption, FS_Subset, FS_CardinalityType

\* What is lost in a step is paid for by what the step counts.
LEMMA LossCounted ==
  ASSUME Shapes, Shapes', Cardinality(Lost) <= Causes, NEW C, IsFiniteSet(C), NEW c \in Nat,
         Cardinality(C) <= c, Lost' \subseteq Lost \union C, Causes' >= Causes + c
  PROVE  Cardinality(Lost)' <= Causes'
<1>1. /\ IsFiniteSet(Lost) /\ Cardinality(Lost) \in Nat /\ Cardinality(Posts) \in Nat
      /\ Cardinality(C) \in Nat
  BY LostFinite, FS_CardinalityType
<1>2. Cardinality(Lost \union C) <= Cardinality(Lost) + Cardinality(C)
  <2>1. /\ IsFiniteSet(Lost \cap C) /\ Cardinality(Lost \cap C) \in Nat
    BY <1>1, FS_Intersection, FS_CardinalityType
  <2>2. Cardinality(Lost \union C) = Cardinality(Lost) + Cardinality(C) - Cardinality(Lost \cap C)
    BY <1>1, FS_Union
  <2> QED
    BY <1>1, <2>1, <2>2
<1>3. IsFiniteSet(Lost \union C) /\ Cardinality(Lost \union C) \in Nat
  BY <1>1, FS_Union, FS_CardinalityType
<1>4. Cardinality(Lost') <= Cardinality(Lost \union C)
  BY <1>3, FS_Subset
<1>5. Cardinality(Lost') \in Nat
  BY <1>3, FS_Subset, FS_CardinalityType
<1>6. Causes \in Nat /\ Causes' \in Nat
  BY <1>1 DEF Causes, Shapes, Types
<1> QED
  BY <1>1, <1>2, <1>3, <1>4, <1>5, <1>6

LEMMA CausesStep ==
  ASSUME Shapes
  PROVE  /\ Causes \in Nat
         /\ faults' = faults /\ ends' = ends => Causes' = Causes
         /\ Fault /\ ends' = ends => Causes' = Causes + 1
         /\ faults' = faults /\ ends' = ends + 1 => Causes' = Causes + (Cardinality(Posts) + 1)
<1>1. Cardinality(Posts) + 1 \in Nat /\ faults \in Nat /\ ends \in Nat
  BY LostFinite DEF Shapes, Types
<1>2. PICK k \in Nat : k = Cardinality(Posts) + 1
  BY <1>1
<1>3. ends * k \in Nat /\ (ends + 1) * k = ends * k + k
  BY <1>1
<1> QED
  BY <1>1, <1>2, <1>3 DEF Causes, Fault

\* A step that loses at most the learning c, and that only in a fault.
LEMMA LossOfFault ==
  ASSUME Shapes, Shapes', Cardinality(Lost) <= Causes, ends' = ends,
         NEW C, (C = {} /\ faults' = faults) \/ ((\E c : C = {c}) /\ Fault),
         Len(learned') = Len(learned) \/ 1..Len(learned') \subseteq 1..Len(learned) \union C,
         \A x \in 1..Len(learned) : x \in Accounted => x \in Accounted' \/ x \in C
  PROVE  Cardinality(Lost)' <= Causes'
<1>1. Lost' \subseteq Lost \union C
  BY DEF Lost, Accounted
<1>2. CASE C = {} /\ faults' = faults
  BY <1>1, <1>2, FS_EmptySet, CausesStep, LossCounted
<1>3. ASSUME NEW c, C = {c}, Fault PROVE Cardinality(Lost)' <= Causes'
  <2>1. IsFiniteSet(C) /\ Cardinality(C) = 1
    BY <1>3, FS_Singleton
  <2> QED
    BY <1>1, <1>3, <2>1, CausesStep, LossCounted
<1> QED
  BY <1>2, <1>3

\* The request goes on with its next log: what it carried is dropped.
LEMMA Dropped ==
  ASSUME Shapes, NEW r \in Posts, NextLog(r)
  PROVE  \A q \in Posts : q # r => post'[q] = post[q]
  BY DEF NextLog, Shapes, Types, MinerTypes

LEMMA LossOfRequest ==
  ASSUME Shapes, Shapes', Cardinality(Lost) <= Causes, NEW r \in Posts, Vector(r)
  PROVE  Cardinality(Lost)' <= Causes'
<1>0. Len(learned) \in Nat /\ post \in [Posts -> PostRecords]
  BY LenProperties DEF Shapes, Types, MinerTypes
<1>1. UNCHANGED <<consumer, threads, events, ran, shown, ends>> /\ Arrived \subseteq Arrived'
  <2>1. UNCHANGED <<consumer, threads, events, ran, shown, ends>>
    BY DEF Vector, Ingest, FindTemplate, MissTemplate, LearnTemplate, PushEntry, workVars, counters
  <2> QED
    BY <2>1, ArrivedSame
<1>2. ASSUME NEW C, UNCHANGED list,
             \A q \in Posts : \/ post'[q].learning = post[q].learning
                              \/ post[q].learning = 0
      PROVE  \A x \in 1..Len(learned) : x \in Accounted => x \in Accounted' \/ x \in C
  <2> SUFFICES ASSUME NEW x \in 1..Len(learned), x \in Accounted PROVE x \in Accounted'
    OBVIOUS
  <2>1. CASE \E q \in Posts : post[q].learning = x
    <3>1. PICK q \in Posts : post[q].learning = x
      BY <2>1
    <3>2. x # 0
      BY <1>0
    <3> QED
      BY <1>2, <3>1, <3>2 DEF Accounted, OnTheWay
  <2>2. CASE \/ \E i \in DOMAIN list : list[i].learning = x
             \/ \E p \in Consumers : consumer[p].entry.learning = x
             \/ x \in Arrived
    BY <1>1, <1>2, <2>2 DEF Accounted, OnTheWay
  <2> QED
    BY <2>1, <2>2, AccountedWhere
<1>3. CASE Ingest(r)
  <2>1. PICK b : post' = [post EXCEPT ![r].logs = b]
    BY <1>3 DEF Ingest
  <2>2. \A q \in Posts : post'[q].learning = post[q].learning
    BY <1>0, <2>1 DEF PostRecords
  <2>3. UNCHANGED <<list, learned, faults>>
    BY <1>3 DEF Ingest, minerVars, listVars
  <2> QED
    <3>1. \A x \in 1..Len(learned) : x \in Accounted => x \in Accounted' \/ x \in {}
      BY <1>2, <2>2, <2>3
    <3> QED
      BY <1>1, <3>1, <2>2, <2>3, LossOfFault
<1>4. CASE FindTemplate(r)
  <2>1. post[r].learning = 0 /\ (\A q \in Posts : q # r => post'[q] = post[q])
    BY <1>4, Dropped DEF FindTemplate, Shapes, PostShape
  <2>2. UNCHANGED <<list, learned, faults>>
    BY <1>4 DEF FindTemplate, listVars, counters
  <2> QED
    <3>1. \A x \in 1..Len(learned) : x \in Accounted => x \in Accounted' \/ x \in {}
      BY <1>2, <2>1, <2>2
    <3> QED
      BY <1>1, <3>1, <2>1, <2>2, LossOfFault
<1>5. CASE MissTemplate(r)
  <2>1. \A q \in Posts : post'[q].learning = post[q].learning
    BY <1>0, <1>5 DEF MissTemplate, PostRecords
  <2>2. UNCHANGED <<list, learned, faults>>
    BY <1>5 DEF MissTemplate, minerVars, listVars, counters
  <2> QED
    <3>1. \A x \in 1..Len(learned) : x \in Accounted => x \in Accounted' \/ x \in {}
      BY <1>2, <2>1, <2>2
    <3> QED
      BY <1>1, <3>1, <2>1, <2>2, LossOfFault
<1>6. CASE LearnTemplate(r)
  <2>1. PICK n \in Nat : n = Len(learned')
    BY LenProperties DEF Shapes, Types, MinerTypes
  <2>2. Len(learned') = Len(learned) + 1
    <3>1. Head(post[r].logs) \in Templates
      BY <1>6, HeadTailProperties DEF LearnTemplate, Shapes, PostShape, Types, MinerTypes, PostRecords
    <3> QED
      BY <1>6, <3>1, AppendProperties DEF LearnTemplate, Shapes, Types, MinerTypes
  <2>3. 1..Len(learned') \subseteq 1..Len(learned) \union {n}
    BY <1>0, <2>1, <2>2
  <2>4. UNCHANGED list /\ post[r].learning = 0
    BY <1>6 DEF LearnTemplate, listVars, Shapes, PostShape
  <2>5. CASE Fault /\ NextLog(r)
    <3>1. \A x \in 1..Len(learned) : x \in Accounted => x \in Accounted' \/ x \in {n}
      BY <1>2, <2>4, <2>5, Dropped
    <3> QED
      BY <1>1, <2>3, <2>5, <3>1, LossOfFault
  <2>6. CASE post' = [post EXCEPT ![r].pc = "push", ![r].learning = Len(learned')] /\ UNCHANGED faults
    <3>1. /\ post'[r].learning = n
          /\ \A q \in Posts : q # r => post'[q] = post[q]
      BY <1>0, <2>1, <2>6 DEF PostRecords
    <3>2. \A x \in 1..Len(learned) : x \in Accounted => x \in Accounted' \/ x \in {}
      BY <1>2, <2>4, <3>1
    <3>3. n \in Accounted'
      BY <3>1 DEF Accounted, OnTheWay
    <3>4. Lost' \subseteq Lost \union {}
      BY <2>3, <3>2, <3>3 DEF Lost, Accounted
    <3> QED
      <4>1. IsFiniteSet({}) /\ Cardinality({}) <= 0
        BY FS_EmptySet
      <4>2. Causes' >= Causes + 0
        BY <1>1, <2>6, CausesStep
      <4> QED
        BY <3>4, <4>1, <4>2, LossCounted
  <2> QED
    BY <1>6, <2>5, <2>6 DEF LearnTemplate
<1>7. CASE PushEntry(r)
  <2>1. PICK k \in 0..MaxCopies : /\ (k = 1 /\ UNCHANGED faults) \/ Fault
                                  /\ list' = Pushed(post[r].learning, k) /\ pushed' = pushed + k
    BY <1>7 DEF PushEntry
  <2>2. PICK n \in 1..Len(learned) : n = post[r].learning
    BY <1>0, <1>7 DEF PushEntry, Shapes, PostShape, PostRecords
  <2>3. learned' = learned /\ \A q \in Posts : q # r => post'[q] = post[q]
    BY <1>7, Dropped DEF PushEntry, minerVars
  <2>4. PICK s : s = Pushed(n, k)
    OBVIOUS
  <2>5. /\ Len(list) \in Nat /\ DOMAIN list = 1..Len(list)
        /\ DOMAIN s = 1..Len(list) + k
        /\ \A i \in 1..Len(list) : s[i] = list[i]
        /\ \A i \in Len(list) + 1..Len(list) + k :
             s[i] = [learning |-> n, number |-> pushed + (i - Len(list))]
    BY <2>1, <2>3, <2>4, PushedProperties DEF Shapes, Types
  <2>6. list' = s
    BY <2>1, <2>2, <2>4
  <2>7. PICK C : C = IF k = 0 THEN {n} ELSE {}
    OBVIOUS
  <2>8. \/ C = {} /\ faults' = faults
        \/ (\E c : C = {c}) /\ Fault
        \/ C = {} /\ Fault
    <3>1. C = {} \/ C = {n}
      BY <2>7
    <3>2. k = 1 => C = {}
      BY <2>7
    <3> QED
      BY <2>1, <3>1, <3>2
  <2>9. n \in Accounted' \/ n \in C
    <3>1. CASE k = 0
      BY <2>7, <3>1
    <3>2. CASE k # 0
      <4>1. Len(list) + 1 \in DOMAIN s /\ Len(list) + 1 \in Len(list) + 1..Len(list) + k
        <5>1. k \in Nat /\ k > 0
          BY <2>1, <3>2, LIAssumption
        <5> QED
          BY <2>5, <5>1
      <4>2. s[Len(list) + 1].learning = n
        <5>1. s[Len(list) + 1] = [learning |-> n, number |-> pushed + (Len(list) + 1 - Len(list))]
          BY <2>5, <4>1
        <5> QED
          BY <5>1
      <4> QED
        BY <2>6, <4>1, <4>2 DEF Accounted, OnTheWay
    <3> QED
      BY <3>1, <3>2
  <2>10. ASSUME NEW x \in 1..Len(learned), x \in Accounted PROVE x \in Accounted' \/ x \in C
    <3>1. CASE \E q \in Posts : post[q].learning = x
      <4>1. PICK q \in Posts : post[q].learning = x
        BY <3>1
      <4>2. CASE q = r
        BY <2>2, <2>9, <4>1, <4>2
      <4>3. CASE q # r
        BY <2>3, <4>1, <4>3 DEF Accounted, OnTheWay
      <4> QED
        BY <4>2, <4>3
    <3>2. CASE \E i \in DOMAIN list : list[i].learning = x
      <4>1. PICK i \in DOMAIN list : list[i].learning = x
        BY <3>2
      <4>2. i \in DOMAIN s /\ s[i].learning = x
        BY <2>5, <4>1
      <4> QED
        BY <2>6, <4>2 DEF Accounted, OnTheWay
    <3>3. CASE (\E p \in Consumers : consumer[p].entry.learning = x) \/ x \in Arrived
      BY <1>1, <3>3 DEF Accounted, OnTheWay
    <3> QED
      BY <2>10, <3>1, <3>2, <3>3, AccountedWhere
  <2>11. CASE ~(C = {} /\ Fault)
    BY <1>1, <2>3, <2>8, <2>10, <2>11, LossOfFault
  <2>12. CASE C = {} /\ Fault
    <3>1. \A x \in 1..Len(learned) : x \in Accounted => x \in Accounted' \/ x \in {0}
      BY <2>10, <2>12
    <3> QED
      BY <1>1, <2>3, <2>12, <3>1, LossOfFault
  <2> QED
    BY <2>11, <2>12
<1> QED
  BY <1>3, <1>4, <1>5, <1>6, <1>7 DEF Vector

\* An entry leaves the list.
LEMMA ListLoses ==
  ASSUME WorkTypes, list # <<>>, list' = Tail(list)
  PROVE  \A i \in DOMAIN list : list[i] = Head(list) \/ \E j \in DOMAIN list' : list'[j] = list[i]
<1>1. /\ Len(list) \in Nat /\ DOMAIN list = 1..Len(list) /\ Head(list) = list[1]
      /\ DOMAIN list' = 1..Len(list) - 1
      /\ \A i \in 1..Len(list) - 1 : list'[i] = list[i + 1]
  BY ListTail
<1> SUFFICES ASSUME NEW i \in DOMAIN list
             PROVE  list[i] = Head(list) \/ \E j \in DOMAIN list' : list'[j] = list[i]
  OBVIOUS
<1>2. CASE i = 1
  BY <1>1, <1>2
<1>3. CASE i # 1
  <2>1. i - 1 \in 1..Len(list) - 1 /\ (i - 1) + 1 = i
    BY <1>1, <1>3
  <2>2. i - 1 \in DOMAIN list' /\ list'[i - 1] = list[i]
    BY <1>1, <2>1
  <2> QED
    BY <2>2
<1> QED
  BY <1>2, <1>3

\* The others keep what they have.
LEMMA AccountedKept ==
  ASSUME NEW p \in Consumers, NEW C, post' = post,
         \A q \in Consumers : q # p => consumer'[q] = consumer[q],
         NEW x, x \in Accounted,
         \A i \in DOMAIN list : list[i].learning = x => x \in Accounted' \/ x \in C,
         consumer[p].entry.learning = x => x \in Accounted' \/ x \in C,
         Arrived \subseteq Arrived'
  PROVE  x \in Accounted' \/ x \in C
<1>1. CASE \E r \in Posts : post[r].learning = x
  BY <1>1 DEF Accounted, OnTheWay
<1>2. CASE \E i \in DOMAIN list : list[i].learning = x
  BY <1>2
<1>3. CASE \E q \in Consumers : consumer[q].entry.learning = x
  <2>1. PICK q \in Consumers : consumer[q].entry.learning = x
    BY <1>3
  <2>2. CASE q # p
    BY <2>1, <2>2 DEF Accounted, OnTheWay
  <2> QED
    BY <2>1, <2>2
<1>4. CASE x \in Arrived
  BY <1>4 DEF Accounted
<1> QED
  BY <1>1, <1>2, <1>3, <1>4, AccountedWhere

\* What a consumer has stays with it, has arrived or is lost in a fault.
LEMMA LossOfConsumer ==
  ASSUME Shapes, Shapes', Cardinality(Lost) <= Causes, NEW p \in Consumers,
         NEW C, (C = {} /\ faults' = faults) \/ ((\E c : C = {c}) /\ Fault),
         UNCHANGED <<learned, post, list, ends>>,
         \A q \in Consumers : q # p => consumer'[q] = consumer[q],
         \/ consumer[p].entry = NoEntry
         \/ consumer'[p].entry = consumer[p].entry
         \/ consumer[p].entry.learning \in Arrived' \union C,
         Arrived \subseteq Arrived'
  PROVE  Cardinality(Lost)' <= Causes'
<1>1. ASSUME NEW x \in 1..Len(learned), x \in Accounted PROVE x \in Accounted' \/ x \in C
  <2>1. \A i \in DOMAIN list : list[i].learning = x => x \in Accounted'
    BY DEF Accounted, OnTheWay
  <2>2. consumer[p].entry.learning = x => x \in Accounted' \/ x \in C
    <3>1. x # 0 /\ NoEntry.learning = 0
      BY LenProperties DEF NoEntry, Shapes, Types, MinerTypes
    <3> QED
      BY <3>1 DEF Accounted, OnTheWay
  <2> QED
    BY <1>1, <2>1, <2>2, AccountedKept
<1> QED
  BY <1>1, LossOfFault

\* The consumers whose state is another are one.
LEMMA RestsOthers ==
  ASSUME WorkTypes, NEW p \in Consumers, Rests(p) \/ Goto(p, "run")
  PROVE  /\ \A q \in Consumers : q # p => consumer'[q] = consumer[q]
         /\ Goto(p, "run") => consumer'[p].entry = consumer[p].entry
<1>1. \A q \in Consumers : q # p => consumer'[q] = consumer[q]
  BY DEF Rests, Goto, WorkTypes
<1>2. Goto(p, "run") => consumer'[p].entry = consumer[p].entry
  BY DEF Goto, WorkTypes, ConsumerRecords
<1> QED
  BY <1>1, <1>2

LEMMA LossOfConsume ==
  ASSUME Shapes, Shapes', Cardinality(Lost) <= Causes, NEW p \in Consumers,
         Consumer(p), ~End(p)
  PROVE  Cardinality(Lost)' <= Causes'
<1>0. WorkTypes /\ Len(learned) \in Nat
  BY LenProperties DEF Shapes, Types, MinerTypes
<1>1. UNCHANGED <<learned, post, ends>>
  BY DEF Consumer, StartOther, Pop, PopLost, Converse, NewThread, PublishUser, RunHere, Show,
         minerVars, counters
<1>2. consumer[p].pc \notin Busy => consumer[p].entry = NoEntry
  BY DEF Shapes, ConsumerShape
<1>3. CASE StartOther(p)
  <2>1. /\ UNCHANGED <<list, threads, events, ran, shown, faults>>
        /\ consumer[p].entry = NoEntry
    BY <1>2, <1>3 DEF StartOther, listVars, workVars, counters, Busy
  <2>2. Rests(p)
    BY <1>0, <1>3, RestsWhen
  <2> QED
    BY <1>0, <1>1, <2>1, <2>2, ArrivedSame, RestsOthers, LossOfConsumer
<1>4. CASE Pop(p) \/ PopLost(p)
  <2>1. /\ list # <<>> /\ list' = Tail(list) /\ consumer[p].entry = NoEntry
        /\ UNCHANGED <<threads, events, ran, shown>>
    BY <1>2, <1>4 DEF Pop, PopLost, workVars, Busy
  <2>2. PICK e : e = Head(list)
    OBVIOUS
  <2>3. \A i \in DOMAIN list : list[i] = e \/ \E j \in DOMAIN list' : list'[j] = list[i]
    BY <1>0, <2>1, <2>2, ListLoses
  <2>4. Arrived \subseteq Arrived'
    BY <2>1, ArrivedSame
  <2>5. \A q \in Consumers : q # p => consumer'[q] = consumer[q]
    BY <1>0, <1>4, PopState DEF PopLost, WorkTypes
  <2>6. ASSUME NEW C, e.learning \in Accounted' \union C
        PROVE  \A x \in 1..Len(learned) : x \in Accounted => x \in Accounted' \/ x \in C
    <3> SUFFICES ASSUME NEW x \in 1..Len(learned), x \in Accounted PROVE x \in Accounted' \/ x \in C
      OBVIOUS
    <3>1. \A i \in DOMAIN list : list[i].learning = x => x \in Accounted' \/ x \in C
      BY <2>3, <2>6 DEF Accounted, OnTheWay
    <3>2. x # 0 /\ NoEntry.learning = 0
      BY <1>0 DEF NoEntry
    <3> QED
      BY <1>1, <2>1, <2>4, <2>5, <3>1, <3>2, AccountedKept
  <2>7. CASE Pop(p)
    <3>1. consumer'[p].entry = e
      BY <1>0, <2>2, <2>7, PopState DEF WorkTypes
    <3>2. e.learning \in Accounted' \union {}
      BY <3>1 DEF Accounted, OnTheWay
    <3>3. \A x \in 1..Len(learned) : x \in Accounted => x \in Accounted' \/ x \in {}
      BY <2>6, <3>2
    <3> QED
      BY <1>1, <2>7, <3>3, LossOfFault DEF Pop, counters
  <2>8. CASE PopLost(p)
    <3>1. \A x \in 1..Len(learned) : x \in Accounted => x \in Accounted' \/ x \in {e.learning}
      BY <2>6
    <3> QED
      BY <1>1, <2>8, <3>1, LossOfFault DEF PopLost
  <2> QED
    BY <1>4, <2>7, <2>8
<1>5. CASE Begins(p)
  <2>1. /\ Len(threads) \in Nat
        /\ DOMAIN threads = 1..Len(threads) /\ DOMAIN threads' = 1..Len(threads) + 1
        /\ \A t \in DOMAIN threads : threads'[t] = threads[t]
        /\ consumer'[p].entry = consumer[p].entry
        /\ \A q \in Consumers : q # p => consumer'[q] = consumer[q]
    BY <1>0, <1>5, BeginsEffect, LenProperties DEF Shapes, WorkTypes
  <2>2. DOMAIN threads \subseteq DOMAIN threads'
    BY <2>1
  <2>3. UNCHANGED <<list, events, ran, shown>>
    BY <1>5 DEF Begins, listVars
  <2>4. Arrived \subseteq Arrived'
    BY <2>1, <2>2, <2>3, ArrivedStays
  <2>5. \A x \in 1..Len(learned) : x \in Accounted => x \in Accounted' \/ x \in {}
    <3> SUFFICES ASSUME NEW x \in 1..Len(learned), x \in Accounted PROVE x \in Accounted' \/ x \in {}
      OBVIOUS
    <3>1. \A i \in DOMAIN list : list[i].learning = x => x \in Accounted' \/ x \in {}
      BY <2>3 DEF Accounted, OnTheWay
    <3>2. consumer[p].entry.learning = x => x \in Accounted' \/ x \in {}
      BY <2>1 DEF Accounted, OnTheWay
    <3> QED
      BY <1>1, <2>1, <2>4, <3>1, <3>2, AccountedKept
  <2>6. faults' = faults
    BY <1>5 DEF Begins, counters
  <2> QED
    BY <1>1, <2>5, <2>6, LossOfFault
<1>6. CASE (Converse(p) \/ NewThread(p)) /\ ~Begins(p)
  <2>1. /\ Fault /\ NextEntry(p)
        /\ UNCHANGED <<list, threads, events, ran, shown>>
    BY <1>6 DEF Converse, NewThread, Begins, counters, listVars
  <2>2. Rests(p)
    BY <1>0, <2>1, RestsWhen
  <2>3. PICK C : C = {consumer[p].entry.learning}
    OBVIOUS
  <2>4. \A q \in Consumers : q # p => consumer'[q] = consumer[q]
    BY <1>0, <2>2, RestsOthers
  <2> QED
    BY <1>1, <2>1, <2>3, <2>4, ArrivedSame, LossOfConsumer
<1>7. CASE PublishUser(p)
  <2>1. PICK k \in 0..MaxCopies : ((k = 1 /\ UNCHANGED faults) \/ Fault) /\ Published(p, k)
    BY <1>7 DEF PublishUser
  <2>2. UNCHANGED <<list, threads, ran, shown>> /\ consumer[p].pc = "publish"
    BY <1>7 DEF PublishUser, listVars
  <2>3. /\ Arrived \subseteq Arrived'
        /\ k > 0 => consumer[p].entry.learning \in Arrived'
    BY <2>1, <2>2, ArrivedPublished
  <2>4. \A q \in Consumers : q # p => consumer'[q] = consumer[q]
    BY <1>0, <1>7, RestsWhen, RestsOthers DEF PublishUser
  <2>5. CASE k = 0
    <3>1. PICK C : C = {consumer[p].entry.learning}
      OBVIOUS
    <3>2. Fault /\ consumer[p].entry.learning \in Arrived' \union C
      BY <2>1, <2>5, <3>1
    <3> QED
      BY <1>1, <2>2, <2>3, <2>4, <3>1, <3>2, LossOfConsumer
  <2>6. CASE k # 0 /\ UNCHANGED faults
    <3>1. consumer[p].entry.learning \in Arrived' \union {}
      BY <2>3, <2>6
    <3> QED
      BY <1>1, <2>2, <2>3, <2>4, <2>6, <3>1, LossOfConsumer
  <2>7. CASE k # 0 /\ Fault
    <3>1. consumer[p].entry.learning \in Arrived' \union {0}
      BY <2>3, <2>7
    <3> QED
      BY <1>1, <2>2, <2>3, <2>4, <2>7, <3>1, LossOfConsumer
  <2> QED
    BY <2>1, <2>5, <2>6, <2>7
<1>8. CASE RunHere(p)
  <2>1. /\ UNCHANGED <<list, threads, events, shown, faults>> /\ NextEntry(p)
        /\ ran' = ran \union {consumer[p].thread} /\ consumer[p].pc = "run"
    BY <1>8 DEF RunHere, listVars, counters
  <2>2. threads[consumer[p].thread] = [entry |-> consumer[p].entry, by |-> p]
    <3>1. consumer[p].pc \in {"publish", "run"} /\ ConsumerShape
      BY <2>1 DEF Shapes
    <3> QED
      BY <3>1 DEF ConsumerShape
  <2>3. threads[consumer[p].thread].entry.learning = consumer[p].entry.learning
    BY <2>2
  <2>4. consumer[p].entry.learning \in Arrived' \union {}
    BY <2>1, <2>3 DEF Arrived
  <2>5. Arrived \subseteq Arrived'
    BY <2>1, ArrivedSame
  <2>6. \A q \in Consumers : q # p => consumer'[q] = consumer[q]
    BY <1>0, <2>1, RestsWhen, RestsOthers
  <2> QED
    BY <1>1, <2>1, <2>4, <2>5, <2>6, LossOfConsumer
<1>9. CASE Show(p)
  <2>1. /\ UNCHANGED <<list, threads, events, ran, faults>> /\ NextEntry(p)
        /\ shown' = shown \union {consumer[p].entry}
    BY <1>9 DEF Show, listVars, counters
  <2>2. consumer[p].entry.learning \in Arrived' \union {}
    BY <2>1 DEF Arrived
  <2>3. Arrived \subseteq Arrived'
    BY <2>1, ArrivedSame
  <2>4. \A q \in Consumers : q # p => consumer'[q] = consumer[q]
    BY <1>0, <2>1, RestsWhen, RestsOthers
  <2> QED
    BY <1>1, <2>1, <2>2, <2>3, <2>4, LossOfConsumer
<1> QED
  BY <1>3, <1>4, <1>5, <1>6, <1>7, <1>8, <1>9 DEF Consumer

\* A process ends: lost is at most what its consumer and its requests had.
LEMMA LossOfEnd ==
  ASSUME Shapes, Shapes', Cardinality(Lost) <= Causes, NEW p \in Consumers, End(p)
  PROVE  Cardinality(Lost)' <= Causes'
<1>0. WorkTypes
  BY DEF Shapes, Types
<1>1. PICK f : f = [r \in Posts |-> post[r].learning]
  OBVIOUS
<1>2. PICK D : D = {post[r].learning : r \in Posts}
  OBVIOUS
<1>3. IsFiniteSet(D) /\ Cardinality(D) <= Cardinality(Posts)
  <2>1. f \in Surjection(Posts, D)
    BY <1>1, <1>2 DEF Surjection
  <2> QED
    BY <2>1, LIAssumption, FS_Surjection
<1>4. PICK e : e = consumer[p].entry.learning
  OBVIOUS
<1>5. PICK C : C = D \union {e}
  OBVIOUS
<1>6. IsFiniteSet(C) /\ Cardinality(C) <= Cardinality(Posts) + 1
  <2>1. /\ IsFiniteSet(C) /\ Cardinality(C) = IF e \in D THEN Cardinality(D) ELSE Cardinality(D) + 1
    BY <1>3, <1>5, FS_AddElement
  <2>2. Cardinality(D) \in Nat /\ Cardinality(Posts) \in Nat
    BY <1>3, LostFinite, FS_CardinalityType
  <2> QED
    BY <1>3, <2>1, <2>2
<1>7. /\ UNCHANGED <<learned, list, threads, ran, shown, faults>> /\ ends' = ends + 1
      /\ \A q \in Consumers : q # p => consumer'[q] = consumer[q]
  BY <1>0 DEF End, minerVars, listVars, WorkTypes
<1>8. Arrived \subseteq Arrived'
  <2>1. CASE UNCHANGED events
    BY <1>7, <2>1, ArrivedSame
  <2>2. CASE consumer[p].pc = "publish" /\ Published(p, 1)
    BY <1>7, <2>2, ArrivedPublished
  <2> QED
    BY <2>1, <2>2 DEF End
<1>9. ASSUME NEW x \in 1..Len(learned), x \in Accounted PROVE x \in Accounted' \/ x \in C
  <2>1. CASE \E r \in Posts : post[r].learning = x
    BY <1>2, <1>5, <2>1
  <2>2. CASE \E i \in DOMAIN list : list[i].learning = x
    BY <1>7, <2>2 DEF Accounted, OnTheWay
  <2>3. CASE \E q \in Consumers : consumer[q].entry.learning = x
    <3>1. PICK q \in Consumers : consumer[q].entry.learning = x
      BY <2>3
    <3>2. CASE q = p
      BY <1>4, <1>5, <3>1, <3>2
    <3>3. CASE q # p
      BY <1>7, <3>1, <3>3 DEF Accounted, OnTheWay
    <3> QED
      BY <3>2, <3>3
  <2>4. CASE x \in Arrived
    BY <1>8, <2>4 DEF Accounted
  <2> QED
    BY <1>9, <2>1, <2>2, <2>3, <2>4, AccountedWhere
<1>10. Lost' \subseteq Lost \union C
  BY <1>7, <1>9 DEF Lost, Accounted
<1>11. Causes' = Causes + (Cardinality(Posts) + 1)
  BY <1>7, CausesStep
<1>12. Cardinality(Posts) + 1 \in Nat /\ Causes' >= Causes + (Cardinality(Posts) + 1)
  <2>1. Causes \in Nat /\ Cardinality(Posts) \in Nat
    BY LostFinite, CausesStep
  <2> QED
    BY <1>11, <2>1
<1> QED
  BY <1>6, <1>10, <1>12, LossCounted

\* The inductive invariant of the losses.
LossInv == Shapes /\ Cardinality(Lost) <= Causes

LEMMA LossStep == LossInv /\ Shapes' /\ [Next]_vars => (Cardinality(Lost) <= Causes)'
<1> SUFFICES ASSUME LossInv, Shapes', [Next]_vars PROVE (Cardinality(Lost) <= Causes)'
  OBVIOUS
<1>1. ASSUME NEW r \in Posts, Vector(r) PROVE (Cardinality(Lost) <= Causes)'
  BY <1>1, LossOfRequest DEF LossInv
<1>2. ASSUME NEW p \in Consumers, Consumer(p) PROVE (Cardinality(Lost) <= Causes)'
  BY <1>2, LossOfConsume, LossOfEnd DEF LossInv
<1>3. CASE StartServer
  <2>1. /\ UNCHANGED <<learned, post, list, threads, events, ran, shown, faults, ends>>
        /\ Server \in Consumers /\ consumer[Server].entry = NoEntry
    BY <1>3 DEF StartServer, Up, listVars, workVars, counters, Consumers, LossInv, Shapes,
                ConsumerShape, Busy
  <2>2. \A q \in Consumers : q # Server => consumer'[q] = consumer[q]
    BY <1>3 DEF StartServer, LossInv, Shapes, Types, WorkTypes
  <2> QED
    BY <2>1, <2>2, ArrivedSame, LossOfConsumer DEF LossInv
<1>4. CASE UNCHANGED vars
  BY <1>4 DEF vars, minerVars, listVars, workVars, counters, LossInv, Lost, OnTheWay, Arrived, Causes
<1> QED
  BY <1>1, <1>2, <1>3, <1>4 DEF LossInv, Next

\* routes/vector.py to collector/handlers: for any number of requests, consumers and
\* logs, a learning that neither is on its way nor was reported was lost by a failure,
\* which loses one, or by the end of a process, which loses what its requests and its
\* consumer had.
THEOREM LossHasCauseAlways == Spec => []LossHasCause
<1>1. Init => LossInv
  <2> SUFFICES ASSUME Init PROVE Cardinality(Lost) <= Causes
    BY ShapesInit DEF LossInv
  <2>1. Shapes /\ Lost = {}
    BY ShapesInit DEF Init, Lost
  <2>2. Causes \in Nat
    BY <2>1, CausesStep
  <2> QED
    BY <2>1, <2>2, FS_EmptySet
<1>2. LossInv /\ [Next]_vars => LossInv'
  BY ShapesStep, LossStep DEF LossInv
<1>3. LossInv => LossHasCause
  BY DEF LossInv, LossHasCause, Lost, Causes
<1> QED
  BY <1>1, <1>2, <1>3, PTL DEF Spec
=============================================================================
