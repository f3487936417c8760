------------------------- MODULE EventCenterProofs -------------------------
(***************************************************************************)
(* For any set of consumers, any retention and any number of failures: the *)
(* group's bookkeeping is consistent, an entry is held by one consumer at  *)
(* most, and no entry is lost without staying in the pending list.         *)
(***************************************************************************)
EXTENDS EventCenter, SequenceTheorems, TLAPS

\* A consumer holds an entry exactly while it handles or acknowledges it, and
\* acknowledges only what was handled.
HandsFull ==
  \A c \in Consumers :
    /\ reader[c].pc \in {"handle", "ack"} <=> reader[c].cur # 0
    /\ reader[c].pc = "ack" => reader[c].cur \in handled

\* Before the group exists nobody reads and nothing has been delivered.
UnbornIsEmpty ==
  ~created => /\ last = born
              /\ \A c \in Consumers : reader[c].pc \notin {"read", "handle", "ack"}

\* The inductive invariant.
IInv == TypeOK /\ UnbornIsEmpty /\ HandsFull /\ HeldByOne /\ LossIsPending

-----------------------------------------------------------------------------

\* XADD appends, and removes nothing that is not in the stream.
LEMMA XAddType ==
  ASSUME NEW e \in Events, NEW k \in Nat, TypeOK, XAdd(e, k)
  PROVE  /\ stream' \in Seq(Events)
         /\ Len(stream') = Len(stream) + k
         /\ \A i \in 1..Len(stream) : stream'[i] = stream[i]
         /\ trimmed' \in trimmed..Len(stream')
<1> DEFINE new == [i \in 1..k |-> e]
<1>1. new \in Seq(Events) /\ Len(new) = k
  OBVIOUS
<1>2. stream' = stream \o new
  BY DEF XAdd
<1>3. stream \in Seq(Events)
  BY DEF TypeOK
<1> HIDE DEF new
<1>4. /\ stream' \in Seq(Events)
      /\ Len(stream') = Len(stream) + k
      /\ \A i \in 1..Len(stream) : stream'[i] = stream[i]
  <2>1. /\ stream \o new \in Seq(Events)
        /\ Len(stream \o new) = Len(stream) + Len(new)
        /\ \A i \in 1..Len(stream) + Len(new) : (stream \o new)[i] =
                IF i <= Len(stream) THEN stream[i] ELSE new[i - Len(stream)]
    BY <1>1, <1>3, ConcatProperties
  <2> QED
    BY <1>1, <1>2, <1>3, <2>1
<1>5. trimmed' \in trimmed..Len(stream')
  BY <1>4, <1>3 DEF XAdd, Trim, TypeOK
<1> QED
  BY <1>4, <1>5

\* Whatever is published, nothing but the stream, its trimming and the count
\* of faults changes, and these keep their types.
LEMMA PublishType ==
  ASSUME TypeOK, PublishSome \/ Quiet, ECAssumption
  PROVE  /\ stream' \in Seq(Events)
         /\ Len(stream) <= Len(stream')
         /\ Len(stream') \in Nat
         /\ \A i \in 1..Len(stream) : stream'[i] = stream[i]
         /\ trimmed' \in trimmed..Len(stream')
         /\ faults' \in 0..MaxFaults
<1> USE DEF TypeOK
<1>1. CASE Quiet
  BY <1>1 DEF Quiet
<1>2. CASE PublishSome
  <2>1. PICK e \in Events : \/ PublishOK(e)
                            \/ PublishRaises(e)
                            \/ PublishCancelled(e)
    BY <1>2 DEF PublishSome
  <2>2. PICK k \in 0..2 : XAdd(e, k)
    BY <2>1 DEF PublishOK, PublishRaises, PublishCancelled
  <2>3. faults' \in 0..MaxFaults
    BY <2>1 DEF PublishOK, PublishRaises, PublishCancelled, Fault,
                ECAssumption
  <2>4. k \in Nat
    OBVIOUS
  <2> QED
    BY <2>2, <2>3, <2>4, XAddType
<1> QED
  BY <1>1, <1>2

-----------------------------------------------------------------------------

\* What a step of the group and its consumers does to the invariant is settled
\* by what it does to these variables; the stream may grow at the same time.
StreamGrows ==
  /\ stream' \in Seq(Events)
  /\ Len(stream) <= Len(stream')
  /\ trimmed' \in trimmed..Len(stream')
  /\ faults' \in 0..MaxFaults

LEMMA GrowingKeepsIInv ==
  ASSUME IInv, StreamGrows, UNCHANGED <<groupVars, reader, handled>>
  PROVE  IInv'
<1> USE DEF IInv, StreamGrows, groupVars
<1>0. Len(stream) \in Nat /\ Len(stream') \in Nat
  BY DEF TypeOK
<1>1. TypeOK'
  BY <1>0 DEF TypeOK
<1>2. HandsFull' /\ HeldByOne' /\ UnbornIsEmpty'
  BY DEF HandsFull, HeldByOne, UnbornIsEmpty
<1>3. LossIsPending'
  BY <1>0 DEF LossIsPending, TypeOK
<1> QED
  BY <1>1, <1>2, <1>3

\* The group's state after XGROUP CREATE, and the consumer goes on or ends.
LEMMA XGroupCreateKeeps ==
  ASSUME IInv, StreamGrows, XGroupCreate, UNCHANGED handled,
         NEW c \in Consumers, NEW pc \in {"read", "ended"}, Goto(c, pc, 0)
  PROVE  IInv'
<1> USE DEF IInv, StreamGrows, groupVars
<1>0. /\ Len(stream) \in Nat /\ Len(stream') \in Nat
      /\ \A d \in Consumers : reader[d].cur \in Nat
  BY DEF TypeOK
<1>1. CASE created /\ UNCHANGED groupVars
  <2>1. TypeOK'
    BY <1>0, <1>1 DEF TypeOK, Goto, ReaderPc
  <2>2. HandsFull' /\ HeldByOne' /\ UnbornIsEmpty'
    BY <1>1 DEF HandsFull, HeldByOne, UnbornIsEmpty, Goto, TypeOK
  <2>3. LossIsPending'
    BY <1>0, <1>1 DEF LossIsPending, TypeOK
  <2> QED
    BY <2>1, <2>2, <2>3
<1>2. CASE /\ ~created
           /\ created' = TRUE
           /\ born' = Len(stream)
           /\ last' = Len(stream)
           /\ UNCHANGED pel
  <2>1. pel = {} /\ handled = {}
    BY <1>2 DEF UnbornIsEmpty, TypeOK
  <2>2. \A d \in Consumers : reader[d].cur = 0
    BY <1>0, <2>1 DEF HeldByOne
  <2>3. TypeOK'
    BY <1>0, <1>2, <2>1, <2>2 DEF TypeOK, Goto, ReaderPc
  <2>4. HandsFull' /\ HeldByOne' /\ UnbornIsEmpty'
    BY <1>2, <2>2 DEF HandsFull, HeldByOne, UnbornIsEmpty, Goto, TypeOK
  <2>5. LossIsPending'
    BY <1>0, <1>2 DEF LossIsPending
  <2> QED
    BY <2>3, <2>4, <2>5
<1> QED
  BY <1>1, <1>2 DEF XGroupCreate

\* After XREADGROUP the new entry is in one consumer's hands, to handle or
\* already handled, or in nobody's.
LEMMA XReadGroupKeeps ==
  ASSUME IInv, StreamGrows, XReadGroup, created,
         NEW n, n = NextId,
         \/ reader' = reader /\ handled' = handled
         \/ /\ handled' = handled
            /\ \E c \in Consumers : Goto(c, "handle", n) \/ Goto(c, "ended", 0)
         \/ /\ handled' = handled \union {n}
            /\ \E c \in Consumers : Goto(c, "ack", n)
  PROVE  IInv'
<1> USE DEF IInv, StreamGrows
<1>0. /\ Len(stream) \in Nat /\ Len(stream') \in Nat
      /\ n \in Nat \ {0} /\ n > last /\ n <= Len(stream) /\ n > trimmed
      /\ \A i \in last+1..n : i = n \/ i <= trimmed
      /\ last \in Nat /\ born \in Nat /\ trimmed \in Nat /\ born <= last
      /\ \A d \in Consumers : reader[d].cur \in Nat /\ reader[d].cur <= last
      /\ \A i \in pel \union handled : i \in Nat /\ i <= last
  BY DEF TypeOK, NextId, XReadGroup
<1>1. last' = n /\ pel' = pel \union {n} /\ created' = created /\ born' = born
  BY DEF XReadGroup
<1>2. handled \subseteq handled' /\ handled' \subseteq handled \union {n}
  OBVIOUS
<1>a. \/ reader' = reader
      \/ \E c \in Consumers : \/ Goto(c, "ended", 0)
                              \/ Goto(c, "handle", n) /\ handled' = handled
                              \/ Goto(c, "ack", n) /\ n \in handled'
  OBVIOUS
<1>3. TypeOK'
  <2>1. reader' \in [Consumers -> [pc : ReaderPc, cur : 0..n]]
    <3>0. 0..last \subseteq 0..n /\ n \in 0..n /\ 0 \in 0..n
      BY <1>0
    <3>1. reader \in [Consumers -> [pc : ReaderPc, cur : 0..n]]
      BY <3>0 DEF TypeOK
    <3>2. ASSUME NEW c \in Consumers, NEW pc \in ReaderPc, NEW m \in 0..n,
                 Goto(c, pc, m)
          PROVE  reader' \in [Consumers -> [pc : ReaderPc, cur : 0..n]]
      BY <3>1, <3>2 DEF Goto
    <3> QED
      BY <1>a, <3>0, <3>1, <3>2 DEF ReaderPc
  <2>2. handled' \subseteq born+1..n /\ pel' \subseteq born+1..n
    BY <1>0, <1>1, <1>2 DEF TypeOK
  <2> QED
    BY <1>0, <1>1, <2>1, <2>2 DEF TypeOK
<1>4. HandsFull' /\ HeldByOne' /\ UnbornIsEmpty'
  <2>1. CASE reader' = reader
    <3>1. HandsFull' /\ UnbornIsEmpty'
      BY <1>0, <1>1, <1>2, <2>1 DEF HandsFull, UnbornIsEmpty
    <3>2. HeldByOne'
      BY <1>0, <1>1, <1>2, <2>1 DEF HeldByOne
    <3> QED
      BY <3>1, <3>2
  <2>2. ASSUME NEW c \in Consumers, NEW pc, NEW m, Goto(c, pc, m),
               \/ pc = "ended" /\ m = 0
               \/ pc = "handle" /\ m = n /\ handled' = handled
               \/ pc = "ack" /\ m = n /\ n \in handled'
        PROVE  HandsFull' /\ HeldByOne' /\ UnbornIsEmpty'
    <3>0. /\ reader'[c] = [pc |-> pc, cur |-> m]
          /\ \A d \in Consumers \ {c} : reader'[d] = reader[d]
      BY <2>2 DEF Goto, TypeOK
    <3>1. HandsFull' /\ UnbornIsEmpty'
      BY <1>0, <1>1, <1>2, <2>2, <3>0 DEF HandsFull, UnbornIsEmpty
    <3>2. ASSUME NEW d \in Consumers, d # c, reader'[d].cur # 0
          PROVE  /\ reader'[c].cur # reader'[d].cur
                 /\ \A a \in Consumers \ {c, d} : reader'[a].cur # reader'[d].cur
                 /\ reader'[d].pc = "handle" => reader'[d].cur \notin handled'
                 /\ reader'[d].cur \in pel'
      <4>1. reader[d].cur \in pel /\ reader'[d] = reader[d] /\ reader[d].cur # n
        BY <1>0, <3>0, <3>2 DEF HeldByOne
      <4>2. m \in {0, n}
        BY <2>2
      <4> QED
        BY <1>1, <1>2, <3>0, <3>2, <4>1, <4>2 DEF HeldByOne
    <3>3. reader'[c].cur # 0 => /\ reader'[c].cur = n /\ n \in pel'
                                /\ reader'[c].pc = "handle" => n \notin handled'
      BY <1>0, <1>1, <2>2, <3>0
    <3>4. HeldByOne'
      <4>1. ASSUME NEW d \in Consumers, reader'[c].cur # 0, d # c
            PROVE  reader'[d].cur # reader'[c].cur
        <5>1. CASE reader'[d].cur = 0
          BY <4>1, <5>1
        <5>2. CASE reader'[d].cur # 0
          BY <3>2, <4>1, <5>2
        <5> QED
          BY <5>1, <5>2
      <4> QED
        BY <3>2, <3>3, <4>1 DEF HeldByOne
    <3> QED
      BY <3>1, <3>4
  <2> QED
    BY <1>a, <2>1, <2>2
<1>5. LossIsPending'
  <2>1. ASSUME NEW i \in born+1..n
        PROVE  i \in handled' \union pel' \/ i <= trimmed'
    <3>1. CASE i <= last
      BY <1>0, <1>1, <1>2, <3>1 DEF LossIsPending
    <3>2. CASE i > last
      BY <1>0, <1>1, <3>2
    <3> QED
      BY <1>0, <3>1, <3>2
  <2> QED
    BY <1>1, <2>1 DEF LossIsPending
<1> QED
  BY <1>3, <1>4, <1>5

\* Two ways to let go of an entry or to pass it on, the group as it was.
LEMMA GotoKeeps ==
  ASSUME IInv, StreamGrows, UNCHANGED groupVars,
         NEW c \in Consumers, NEW pc \in ReaderPc, NEW m, Goto(c, pc, m),
         \/ pc \in {"off", "create", "ended"} /\ m = 0 /\ UNCHANGED handled
         \/ /\ pc = "ack" /\ m = reader[c].cur /\ reader[c].pc = "handle"
            /\ handled' = handled \union {m}
  PROVE  IInv'
<1> USE DEF IInv, StreamGrows, groupVars
<1>0. /\ Len(stream) \in Nat /\ Len(stream') \in Nat
      /\ m \in 0..last
      /\ \A d \in Consumers : reader[d].cur \in Nat
  BY DEF TypeOK
<1>1. /\ reader'[c] = [pc |-> pc, cur |-> m]
      /\ \A d \in Consumers \ {c} : reader'[d] = reader[d]
  BY DEF Goto, TypeOK
<1>2. m # 0 => m \in pel /\ m \in born+1..last
  BY DEF HeldByOne, TypeOK
<1>3. handled \subseteq handled'
  OBVIOUS
<1>4. TypeOK'
  <2>1. reader' \in [Consumers -> [pc : ReaderPc, cur : 0..last]]
    BY <1>0 DEF TypeOK, Goto
  <2>2. handled' \subseteq born+1..last
    BY <1>2 DEF TypeOK, HandsFull
  <2> QED
    BY <1>0, <2>1, <2>2 DEF TypeOK
<1>5. HandsFull' /\ UnbornIsEmpty'
  BY <1>1, <1>3 DEF HandsFull, UnbornIsEmpty
<1>6. HeldByOne'
  BY <1>1, <1>3 DEF HeldByOne, HandsFull
<1>7. LossIsPending'
  BY <1>0, <1>3 DEF LossIsPending, TypeOK
<1> QED
  BY <1>4, <1>5, <1>6, <1>7

\* XACK takes away an entry that was handled and is in this consumer's hands.
LEMMA XAckKeeps ==
  ASSUME IInv, StreamGrows, UNCHANGED handled,
         NEW c \in Consumers, NEW pc \in {"read", "ended"},
         reader[c].pc = "ack", XAck(reader[c].cur), Goto(c, pc, 0)
  PROVE  IInv'
<1> USE DEF IInv, StreamGrows, XAck
<1>0. /\ Len(stream) \in Nat /\ Len(stream') \in Nat
      /\ \A d \in Consumers : reader[d].cur \in Nat
  BY DEF TypeOK
<1>1. /\ reader'[c] = [pc |-> pc, cur |-> 0]
      /\ \A d \in Consumers \ {c} : reader'[d] = reader[d]
  BY DEF Goto, TypeOK
<1>2. reader[c].cur \in handled /\ reader[c].cur # 0
  BY DEF HandsFull
<1>3. TypeOK'
  <2>1. reader' \in [Consumers -> [pc : ReaderPc, cur : 0..last]]
    BY <1>0 DEF TypeOK, Goto, ReaderPc
  <2>2. pel' \subseteq born+1..last
    BY DEF TypeOK
  <2> QED
    BY <1>0, <2>1, <2>2 DEF TypeOK
<1>4. HandsFull' /\ UnbornIsEmpty'
  BY <1>1 DEF HandsFull, UnbornIsEmpty
<1>5. HeldByOne'
  BY <1>1, <1>2 DEF HeldByOne
<1>6. LossIsPending'
  BY <1>0, <1>2 DEF LossIsPending, TypeOK
<1> QED
  BY <1>3, <1>4, <1>5, <1>6

-----------------------------------------------------------------------------

LEMMA InitIInv == ASSUME ECAssumption, Init PROVE IInv
<1> USE DEF Init
<1>1. TypeOK
  <2>1. stream \in Seq(Events) /\ Len(stream) = 0
    OBVIOUS
  <2>2. reader \in [Consumers -> [pc : ReaderPc, cur : 0..0]]
    BY DEF ReaderPc
  <2>3. trimmed \in 0..0 /\ born \in 0..0 /\ last \in 0..0
    OBVIOUS
  <2>4. faults \in 0..MaxFaults
    BY DEF ECAssumption
  <2>5. pel \subseteq born+1..last /\ handled \subseteq born+1..last
    OBVIOUS
  <2> QED
    BY <2>1, <2>2, <2>3, <2>4, <2>5 DEF TypeOK
<1>2. UnbornIsEmpty /\ HandsFull /\ HeldByOne
  BY DEF UnbornIsEmpty, HandsFull, HeldByOne
<1>3. LossIsPending
  BY DEF LossIsPending
<1> QED
  BY <1>1, <1>2, <1>3 DEF IInv

LEMMA NextIInv == ASSUME ECAssumption, IInv, [OpenNext]_vars PROVE IInv'
<1>0. ASSUME PublishSome \/ Quiet
      PROVE  StreamGrows
  BY <1>0, PublishType DEF IInv, StreamGrows
<1>1. ASSUME Fault, UNCHANGED <<stream, trimmed>>
      PROVE  StreamGrows
  BY <1>1 DEF Fault, StreamGrows, IInv, TypeOK, ECAssumption
<1>2. CASE UNCHANGED vars
  BY <1>0, <1>2, GrowingKeepsIInv DEF vars, groupVars, Quiet
<1>3. CASE Publish
  BY <1>0, <1>3, GrowingKeepsIInv DEF Publish
<1>4. ASSUME NEW c \in Consumers, Consume(c)
      PROVE  IInv'
  <2>1. StreamGrows
    BY <1>0, <1>4 DEF Consume, Quiet
  <2> QED
    BY <1>4, <2>1, GotoKeeps DEF Consume, ReaderPc
<1>5. ASSUME NEW c \in Consumers, CreateGroup(c)
      PROVE  IInv'
  <2>1. StreamGrows
    BY <1>0, <1>5 DEF CreateGroup, Quiet
  <2> QED
    BY <1>5, <2>1, XGroupCreateKeeps DEF CreateGroup
<1>6. ASSUME NEW c \in Consumers, reader[c].pc = "read"
      PROVE  created
  BY <1>6 DEF IInv, UnbornIsEmpty, TypeOK
<1>7. ASSUME NEW c \in Consumers, Deliver(c) \/ DeliverAndHandle(c)
      PROVE  IInv'
  <2>1. StreamGrows /\ created
    BY <1>0, <1>6, <1>7 DEF Deliver, DeliverAndHandle, Quiet
  <2> QED
    BY <1>7, <2>1, XReadGroupKeeps DEF Deliver, DeliverAndHandle
<1>8. ASSUME NEW c \in Consumers, LoseReply(c)
      PROVE  IInv'
  <2>1. StreamGrows /\ created
    BY <1>1, <1>6, <1>8 DEF LoseReply
  <2> QED
    BY <1>8, <2>1, XReadGroupKeeps DEF LoseReply
<1>9. ASSUME NEW c \in Consumers, HandlerDone(c)
      PROVE  IInv'
  <2>1. StreamGrows
    BY <1>0, <1>9 DEF HandlerDone
  <2> QED
    BY <1>9, <2>1, GotoKeeps DEF HandlerDone, Handled, ReaderPc
<1>10. ASSUME NEW c \in Consumers, Ack(c)
       PROVE  IInv'
  <2>1. StreamGrows
    BY <1>0, <1>10 DEF Ack, Quiet
  <2> QED
    BY <1>10, <2>1, XAckKeeps DEF Ack
<1>11. ASSUME NEW c \in Consumers, Abandon(c), StreamGrows
       PROVE  IInv'
  <2>1. CASE UNCHANGED groupVars
    BY <1>11, <2>1, GotoKeeps DEF Abandon, ReaderPc
  <2>2. CASE XGroupCreate
    BY <1>11, <2>2, XGroupCreateKeeps DEF Abandon
  <2>3. CASE reader[c].pc = "read" /\ XReadGroup
    BY <1>6, <1>11, <2>3, XReadGroupKeeps DEF Abandon
  <2>4. CASE reader[c].pc = "ack" /\ XAck(reader[c].cur)
    BY <1>11, <2>4, XAckKeeps DEF Abandon
  <2> QED
    BY <1>11, <2>1, <2>2, <2>3, <2>4 DEF Abandon
<1>12. ASSUME NEW c \in Consumers, RedisFails(c)
       PROVE  IInv'
  BY <1>1, <1>11, <1>12 DEF RedisFails
<1>13. ASSUME NEW c \in Consumers, Abandoned(c)
       PROVE  IInv'
  BY <1>0, <1>11, <1>13 DEF Abandoned
<1> QED
  BY <1>2, <1>3, <1>4, <1>5, <1>7, <1>8, <1>9, <1>10, <1>12, <1>13
     DEF OpenNext

\* Ids only grow, and what an id stands for never changes: what a loop read
\* about an entry before an await still holds after it.
LEMMA IdsAreStable ==
  ASSUME ECAssumption, IInv, [OpenNext]_vars
  PROVE  /\ last <= last' /\ last \in Nat /\ last' \in Nat
         /\ Len(stream) \in Nat /\ Len(stream') \in Nat
         /\ Len(stream) <= Len(stream')
         /\ \A i \in 1..Len(stream) : stream'[i] = stream[i]
<1> USE DEF IInv
<1>1. ASSUME PublishSome \/ Quiet \/ UNCHANGED <<stream, trimmed>>
      PROVE  /\ Len(stream) \in Nat /\ Len(stream') \in Nat
             /\ Len(stream) <= Len(stream')
             /\ \A i \in 1..Len(stream) : stream'[i] = stream[i]
  <2>1. CASE PublishSome \/ Quiet
    BY <2>1, PublishType DEF TypeOK
  <2>2. CASE UNCHANGED <<stream, trimmed>>
    BY <2>2 DEF TypeOK
  <2> QED
    BY <1>1, <2>1, <2>2
<1>2. PublishSome \/ Quiet \/ UNCHANGED <<stream, trimmed>>
  BY DEF vars, Quiet, OpenNext, Publish, Consume, CreateGroup, Deliver,
     DeliverAndHandle, LoseReply, HandlerDone, Ack, RedisFails, Abandoned
<1>3. last \in Nat /\ last <= Len(stream)
  BY DEF TypeOK
<1>4. UNCHANGED groupVars \/ XGroupCreate \/ XReadGroup
        \/ \E c \in Consumers : XAck(reader[c].cur)
  BY DEF vars, OpenNext, Publish, Consume, CreateGroup, Deliver, Handled,
     DeliverAndHandle, LoseReply, HandlerDone, Ack, RedisFails, Abandoned,
     Abandon
<1>5. last <= last' /\ last' \in Nat
  BY <1>3, <1>4 DEF groupVars, XGroupCreate, XReadGroup, XAck, NextId, TypeOK
<1> QED
  BY <1>1, <1>2, <1>3, <1>5

\* The inductive invariant holds however long the stream grows.
THEOREM OpenInvariant == OpenSpec => []IInv
<1> USE ECAssumption
<1>1. Init => IInv
  BY InitIInv
<1>2. IInv /\ [OpenNext]_vars => IInv'
  BY NextIInv
<1> QED
  BY <1>1, <1>2, PTL DEF OpenSpec

\* Each invariant that the run of this module checks, for every instance:
\* at most one consumer holds an entry, whatever fails or restarts.
THEOREM HeldByOneAlways == OpenSpec => []HeldByOne
BY OpenInvariant, PTL DEF IInv

\* No entry the group has passed is lost without a trace in the pending list.
THEOREM LossIsPendingAlways == OpenSpec => []LossIsPending
BY OpenInvariant, PTL DEF IInv

\* Entries are handed out once and in the order of the stream.
THEOREM InStreamOrderAlways == OpenSpec => InStreamOrder
<1> DEFINE Ordered ==
      \A c \in Consumers :
        reader'[c].cur \notin {0, reader[c].cur} =>
          \A n \in handled \union pel : n < reader'[c].cur
<1>1. IInv /\ [OpenNext]_vars => [Ordered]_vars
  <2> SUFFICES ASSUME IInv, OpenNext PROVE Ordered
    OBVIOUS
  <2>0. \A n \in handled \union pel : n < NextId
    BY DEF NextId, IInv, TypeOK
  <2>1. ASSUME NEW c \in Consumers, NEW pc, NEW m, Goto(c, pc, m),
               m \in {0, reader[c].cur, NextId}
        PROVE  Ordered
    BY <2>0, <2>1 DEF Goto, IInv, TypeOK
  <2>2. ASSUME UNCHANGED reader
        PROVE  Ordered
    BY <2>2
  <2> QED
    BY <2>1, <2>2 DEF OpenNext, Publish, Consume, CreateGroup, Deliver,
       DeliverAndHandle, LoseReply, HandlerDone, Handled, Ack, RedisFails,
       Abandoned, Abandon
<1> QED
  BY <1>1, OpenInvariant, PTL DEF OpenSpec, InStreamOrder

-----------------------------------------------------------------------------

\* What is trimmed stays so, what was handled too; and a step adds at most the
\* next entry to those that were delivered and are accounted for.
LEMMA DeliveredGrow ==
  ASSUME ECAssumption, IInv, [OpenNext]_vars
  PROVE  /\ trimmed \in Nat /\ trimmed <= trimmed'
         /\ handled \subseteq handled'
         /\ handled' \union pel' \subseteq handled \union pel \union {NextId}
<1> USE DEF IInv
<1>1. PublishSome \/ Quiet \/ UNCHANGED <<stream, trimmed>>
  BY DEF vars, Quiet, OpenNext, Publish, Consume, CreateGroup, Deliver,
     DeliverAndHandle, LoseReply, HandlerDone, Ack, RedisFails, Abandoned
<1>2. trimmed \in Nat /\ trimmed <= trimmed'
  <2>1. CASE PublishSome \/ Quiet
    BY <2>1, PublishType DEF TypeOK
  <2>2. CASE UNCHANGED <<stream, trimmed>>
    BY <2>2 DEF TypeOK
  <2> QED
    BY <1>1, <2>1, <2>2
<1>3. UNCHANGED groupVars \/ XGroupCreate \/ XReadGroup
        \/ \E c \in Consumers : XAck(reader[c].cur)
  BY DEF vars, OpenNext, Publish, Consume, CreateGroup, Deliver, Handled,
     DeliverAndHandle, LoseReply, HandlerDone, Ack, RedisFails, Abandoned,
     Abandon
<1>4. pel' \subseteq pel \union {NextId}
  BY <1>3 DEF groupVars, XGroupCreate, XReadGroup, XAck
<1>5. \/ UNCHANGED handled
      \/ handled' = handled \union {NextId}
      \/ \E c \in Consumers : /\ reader[c].pc = "handle"
                              /\ handled' = handled \union {reader[c].cur}
  BY DEF vars, OpenNext, Publish, Consume, CreateGroup, Deliver, Handled,
     DeliverAndHandle, LoseReply, HandlerDone, Ack, RedisFails, Abandoned,
     Abandon
<1>6. \A c \in Consumers : reader[c].pc = "handle" => reader[c].cur \in pel
  BY DEF HandsFull, HeldByOne, TypeOK
<1>7. /\ handled \subseteq handled'
      /\ handled' \subseteq handled \union pel \union {NextId}
  BY <1>5, <1>6
<1> QED
  BY <1>2, <1>4, <1>7

\* Failures are counted and never forgotten.
LEMMA FaultsGrow ==
  ASSUME [OpenNext]_vars
  PROVE  UNCHANGED faults \/ faults' = faults + 1
<1>1. UNCHANGED faults \/ Fault \/ PublishSome
  BY DEF vars, Quiet, OpenNext, Publish, Consume, CreateGroup, Deliver,
     DeliverAndHandle, LoseReply, HandlerDone, Ack, RedisFails, Abandoned
<1> QED
  BY <1>1 DEF PublishSome, PublishOK, PublishRaises, PublishCancelled, Fault
=============================================================================
