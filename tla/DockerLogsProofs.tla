-------------------------- MODULE DockerLogsProofs --------------------------
(***************************************************************************)
(* For any number of responses and any failures of the Docker daemon: a    *)
(* client gets the lines in their order and without a gap, and all of them *)
(* if the response ends with "eof".                                        *)
(***************************************************************************)
EXTENDS DockerLogs, SequenceTheorems, TLAPS

Items == [type : {"log", "error", "eof"}, line : Nat]

Types ==
  /\ log \in Seq(BOOLEAN) /\ ended \in BOOLEAN
  /\ thread \in [Clients -> {"none", "get", "read", "hand", "finally", "over"}]
  /\ from \in [Clients -> Nat] /\ pos \in [Clients -> Nat]
  /\ scheduled \in [Clients -> Seq(Items)] /\ log_queue \in [Clients -> Seq(Items)]
  /\ response \in [Clients -> {"none", "open", "closed"}]
  /\ stop_event \in [Clients -> BOOLEAN]
  /\ shown \in [Clients -> Seq(Nat)]
  /\ finished \in [Clients -> BOOLEAN]

\* What is on its way from the thread to the generator, over both queues.
Flow(c) == log_queue[c] \o scheduled[c]
AllLogs(q, k) == \A i \in 1..k : q[i].type = "log"

\* The lines the thread has handed over.
Handed(c) == IF thread[c] = "hand" THEN pos[c] - 1 ELSE pos[c]

\* q is on its way to an open response whose generator has dealt with n lines: the
\* next ones without a gap, then an error or "eof"; "eof" comes first only if the
\* container has stopped and all its lines came before.
InFlow(c, q, n) ==
  /\ \A i \in DOMAIN q : AllLogs(q, i) => q[i].line = n + i /\ n + i <= pos[c]
  /\ \A i \in DOMAIN q : AllLogs(q, i - 1) /\ q[i].type = "eof" =>
                           ended /\ n + i - 1 = Len(log)
  /\ thread[c] \in {"get", "read", "hand"} => AllLogs(q, Len(q)) /\ n + Len(q) = Handed(c)
  /\ thread[c] = "finally" /\ AllLogs(q, Len(q)) => ended /\ n + Len(q) = Len(log)

\* The generator of c has dealt with n lines.
DealtWith(c, n) ==
  /\ SentUpTo(c, n)
  /\ response[c] = "open" => InFlow(c, Flow(c), n)
  /\ finished[c] => ended /\ n = Len(log)

InStep(c) ==
  /\ from[c] <= pos[c] /\ pos[c] <= Len(log)
  /\ thread[c] = "hand" => from[c] < pos[c]
  /\ thread[c] \in {"none", "get"} => /\ from[c] = 0 /\ pos[c] = 0
                                      /\ shown[c] = <<>> /\ Flow(c) = <<>>
  /\ response[c] = "none" <=> thread[c] = "none"
  /\ response[c] = "closed" <=> stop_event[c]
  /\ finished[c] => response[c] = "closed"
  /\ \E n \in from[c]..pos[c] : DealtWith(c, n)

\* The inductive invariant.
IInv == Types /\ \A c \in Clients : InStep(c)

\* The log is written at its end, and never once the container has stopped.
Grows ==
  /\ Len(log) <= Len(log')
  /\ \A i \in 1..Len(log) : log'[i] = log[i]
  /\ ended => ended' /\ log' = log

-----------------------------------------------------------------------------

LEMMA ItemTypes ==
  /\ Item("error", 0) \in Items /\ Item("eof", 0) \in Items
  /\ \A i \in Nat : Item("log", i) \in Items
  BY DEF Item, Items

\* An item that is handed over comes last.
LEMMA FlowScheduled ==
  ASSUME NEW q \in Seq(Items), NEW s \in Seq(Items), NEW e \in Items
  PROVE  q \o Append(s, e) = Append(q \o s, e)
<1>1. Append(s, e) = s \o <<e>> /\ Append(q \o s, e) = (q \o s) \o <<e>>
  BY AppendIsConcat, ConcatProperties
<1>2. <<e>> \in Seq(Items)
  OBVIOUS
<1> QED
  BY <1>1, <1>2, ConcatAssociative

\* From one queue to the other nothing changes.
LEMMA FlowPut ==
  ASSUME NEW q \in Seq(Items), NEW s \in Seq(Items), s # <<>>
  PROVE  Append(q, Head(s)) \o Tail(s) = q \o s
<1>1. Head(s) \in Items /\ Tail(s) \in Seq(Items) /\ <<Head(s)>> \in Seq(Items)
  BY HeadTailProperties
<1>2. Append(q, Head(s)) = q \o <<Head(s)>>
  BY <1>1, AppendIsConcat
<1>3. (q \o <<Head(s)>>) \o Tail(s) = q \o (<<Head(s)>> \o Tail(s))
  BY <1>1, ConcatAssociative
<1>4. <<Head(s)>> \o Tail(s) = s
  OBVIOUS
<1> QED
  BY <1>2, <1>3, <1>4

\* The generator takes the first.
LEMMA FlowTaken ==
  ASSUME NEW q \in Seq(Items), NEW s \in Seq(Items), q # <<>>
  PROVE  LET f == q \o s
         IN  /\ f \in Seq(Items) /\ f # <<>>
             /\ f[1] = Head(q)
             /\ Tail(q) \o s = Tail(f)
<1>1. /\ Len(q) \in Nat /\ Len(q) > 0 /\ Len(s) \in Nat
      /\ Tail(q) \in Seq(Items) /\ Len(Tail(q)) = Len(q) - 1
      /\ \A i \in 1..Len(q) - 1 : Tail(q)[i] = q[i + 1]
  BY LenProperties, HeadTailProperties
<1>2. PICK f : f = q \o s
  OBVIOUS
<1>3. /\ f \in Seq(Items) /\ Len(f) = Len(q) + Len(s)
      /\ \A i \in 1..Len(q) + Len(s) : f[i] = IF i <= Len(q) THEN q[i] ELSE s[i - Len(q)]
  BY <1>2, ConcatProperties
<1>4. f # <<>> /\ f[1] = Head(q)
  BY <1>1, <1>3
<1>5. PICK g : g = Tail(f)
  OBVIOUS
<1>6. /\ g \in Seq(Items) /\ Len(g) = Len(q) + Len(s) - 1
      /\ \A i \in 1..Len(q) + Len(s) - 1 : g[i] = f[i + 1]
  BY <1>1, <1>3, <1>4, <1>5, HeadTailProperties
<1>7. PICK t : t = Tail(q)
  OBVIOUS
<1>8. PICK h : h = t \o s
  OBVIOUS
<1>9. /\ h \in Seq(Items) /\ Len(h) = Len(q) - 1 + Len(s)
      /\ \A i \in 1..Len(q) - 1 + Len(s) : h[i] = IF i <= Len(q) - 1 THEN t[i] ELSE s[i - (Len(q) - 1)]
  BY <1>1, <1>7, <1>8, ConcatProperties
<1>10. ASSUME NEW i \in 1..Len(q) - 1 + Len(s) PROVE h[i] = g[i]
  <2>1. CASE i <= Len(q) - 1
    BY <2>1, <1>1, <1>3, <1>6, <1>7, <1>9
  <2>2. CASE i > Len(q) - 1
    <3>1. h[i] = s[i - (Len(q) - 1)]
      BY <2>2, <1>1, <1>9
    <3>2. i + 1 \in 1..Len(q) + Len(s) /\ i + 1 > Len(q) /\ i + 1 - Len(q) = i - (Len(q) - 1)
      BY <2>2, <1>1
    <3>3. f[i + 1] = s[i + 1 - Len(q)]
      BY <3>2, <1>1, <1>3
    <3> QED
      BY <3>1, <3>2, <3>3, <1>1, <1>6
  <2> QED
    BY <2>1, <2>2, <1>1
<1>11. Len(h) = Len(g)
  BY <1>1, <1>6, <1>9
<1>12. h = g
  BY <1>6, <1>9, <1>10, <1>11, SeqEqual
<1> QED
  BY <1>2, <1>3, <1>4, <1>5, <1>7, <1>8, <1>12

LEMMA FlowType == Types => \A c \in Clients : Flow(c) \in Seq(Items)
  BY ConcatProperties DEF Types, Flow

-----------------------------------------------------------------------------

LEMMA TypesInit == Init => Types
<1> SUFFICES ASSUME Init PROVE Types
  OBVIOUS
<1>1. <<>> \in Seq(BOOLEAN) /\ <<>> \in Seq(Items) /\ <<>> \in Seq(Nat)
  OBVIOUS
<1>2. /\ scheduled \in [Clients -> Seq(Items)] /\ log_queue \in [Clients -> Seq(Items)]
      /\ shown \in [Clients -> Seq(Nat)]
  BY <1>1, Zenon DEF Init
<1> QED
  BY <1>1, <1>2 DEF Init, Types

LEMMA TypesStep == Types /\ [Next]_vars => Types'
<1> SUFFICES ASSUME Types, [Next]_vars PROVE Types'
  OBVIOUS
<1> USE ItemTypes
<1>1. CASE WriteLine
  BY <1>1 DEF Types, WriteLine, threadVars, queueVars, responseVars
<1>2. CASE EndContainer
  BY <1>2 DEF Types, EndContainer, threadVars, queueVars, responseVars
<1>3. ASSUME NEW c \in Clients, Open(c) PROVE Types'
  BY <1>3 DEF Types, Open, threadVars, queueVars, responseVars
<1>4. ASSUME NEW c \in Clients, GetContainer(c) PROVE Types'
  BY <1>4 DEF Types, GetContainer, Goto, threadVars, queueVars, responseVars
<1>5. ASSUME NEW c \in Clients, ReadLine(c) PROVE Types'
  BY <1>5 DEF Types, ReadLine, Goto, threadVars, queueVars, responseVars
<1>6. ASSUME NEW c \in Clients, HandLine(c) PROVE Types'
  <2>1. Item("log", pos[c]) \in Items
    BY DEF Types
  <2> QED
    BY <1>6, <2>1 DEF Types, HandLine, Goto, Schedule, threadVars, queueVars, responseVars
<1>7. ASSUME NEW c \in Clients, EndOfStream(c) PROVE Types'
  BY <1>7 DEF Types, EndOfStream, Goto, threadVars, queueVars, responseVars
<1>8. ASSUME NEW c \in Clients, Finally(c) PROVE Types'
  BY <1>8 DEF Types, Finally, Goto, Schedule, threadVars, queueVars, responseVars
<1>9. ASSUME NEW c \in Clients, DockerFails(c) PROVE Types'
  BY <1>9 DEF Types, DockerFails, Goto, Schedule, threadVars, queueVars, responseVars
<1>10. ASSUME NEW c \in Clients, Put(c) PROVE Types'
  <2>1. Head(scheduled[c]) \in Items /\ Tail(scheduled[c]) \in Seq(Items)
    BY <1>10, HeadTailProperties DEF Types, Put
  <2> QED
    BY <1>10, <2>1 DEF Types, Put, threadVars, queueVars, responseVars
<1>11. ASSUME NEW c \in Clients, Serve(c) PROVE Types'
  <2>1. Head(log_queue[c]) \in Items /\ Tail(log_queue[c]) \in Seq(Items)
    BY <1>11, HeadTailProperties DEF Types, Serve
  <2>2. Head(log_queue[c]).line \in Nat
    BY <2>1 DEF Items
  <2>3. shown' \in [Clients -> Seq(Nat)]
    <3>1. \/ UNCHANGED shown
          \/ shown' = [shown EXCEPT ![c] = Append(@, Head(log_queue[c]).line)]
      BY <1>11 DEF Serve, responseVars
    <3>2. Append(shown[c], Head(log_queue[c]).line) \in Seq(Nat)
      BY <2>2, AppendProperties DEF Types
    <3> QED
      BY <3>1, <3>2 DEF Types
  <2>4. /\ response' \in [Clients -> {"none", "open", "closed"}]
        /\ stop_event' \in [Clients -> BOOLEAN]
        /\ finished' \in [Clients -> BOOLEAN]
    BY <1>11 DEF Types, Serve, Close, responseVars
  <2>5. log_queue' \in [Clients -> Seq(Items)]
    BY <1>11, <2>1 DEF Types, Serve
  <2> QED
    BY <1>11, <2>3, <2>4, <2>5 DEF Types, Serve, threadVars
<1>12. ASSUME NEW c \in Clients, Leave(c) PROVE Types'
  BY <1>12 DEF Types, Leave, Close, threadVars, queueVars
<1>13. CASE UNCHANGED vars
  BY <1>13 DEF Types, vars, threadVars, queueVars, responseVars
<1> QED
  BY <1>1, <1>2, <1>3, <1>4, <1>5, <1>6, <1>7, <1>8, <1>9, <1>10, <1>11, <1>12, <1>13
     DEF Next, Producer

\* What the container does is all that happens to the log.
LEMMA LogGrows == Types /\ [Next]_vars => Grows
<1> SUFFICES ASSUME Types, [Next]_vars PROVE Grows
  OBVIOUS
<1>1. CASE WriteLine
  <2>1. PICK p \in BOOLEAN : log' = Append(log, p)
    BY <1>1 DEF WriteLine
  <2>2. log \in Seq(BOOLEAN) /\ Len(log) \in Nat
    BY LenProperties DEF Types
  <2>3. Len(log') = Len(log) + 1 /\ \A i \in 1..Len(log) : log'[i] = log[i]
    BY <2>1, <2>2, AppendProperties
  <2> QED
    BY <1>1, <2>2, <2>3 DEF WriteLine, Grows
<1>2. CASE UNCHANGED log /\ (ended => ended')
  <2>1. Len(log) \in Nat
    BY LenProperties DEF Types
  <2> QED
    BY <1>2, <2>1 DEF Grows
<1>3. CASE EndContainer \/ UNCHANGED vars
  BY <1>3, <1>2 DEF EndContainer, vars
<1>4. ASSUME NEW c \in Clients,
             \/ Open(c) \/ Producer(c) \/ DockerFails(c)
             \/ Put(c) \/ Serve(c) \/ Leave(c)
      PROVE  UNCHANGED log /\ (ended => ended')
  BY <1>4 DEF Open, Producer, GetContainer, ReadLine, HandLine, EndOfStream, Finally,
              DockerFails, Put, Serve, Leave
<1> QED
  BY <1>1, <1>2, <1>3, <1>4 DEF Next

\* What was sent is not disturbed by what the container writes.
LEMMA SentStays ==
  ASSUME Types, Types', Grows, NEW c \in Clients, NEW n \in Nat, n <= Len(log),
         shown'[c] = shown[c], from'[c] = from[c], SentUpTo(c, n)
  PROVE  SentUpTo(c, n)'
<1>1. from[c] \in Nat /\ Len(log) \in Nat
  BY LenProperties DEF Types
<1>2. {i \in from[c] + 1..n : log[i]} = {i \in from[c] + 1..n : log'[i]}
  BY <1>1 DEF Grows
<1> QED
  BY <1>2 DEF SentUpTo

\* The same thread, the same flow and a log that only grows.
LEMMA FlowStays ==
  ASSUME Types, Types', Grows, NEW c \in Clients, NEW q, NEW n,
         thread'[c] = thread[c], pos'[c] = pos[c], InFlow(c, q, n)
  PROVE  InFlow(c, q, n)'
  BY DEF InFlow, AllLogs, Handed, Grows

\* A response on which nobody takes a step.
LEMMA Unaffected ==
  ASSUME Types, Types', Grows, NEW c \in Clients, InStep(c),
         thread'[c] = thread[c], from'[c] = from[c], pos'[c] = pos[c],
         scheduled'[c] = scheduled[c], log_queue'[c] = log_queue[c],
         response'[c] = response[c], stop_event'[c] = stop_event[c],
         shown'[c] = shown[c], finished'[c] = finished[c]
  PROVE  InStep(c)'
<1>1. PICK n \in from[c]..pos[c] : DealtWith(c, n)
  BY DEF InStep
<1>2. from[c] \in Nat /\ pos[c] \in Nat /\ Len(log) \in Nat /\ Len(log') \in Nat
  BY LenProperties DEF Types
<1>3. n \in Nat /\ n <= Len(log) /\ pos[c] <= Len(log')
  BY <1>2 DEF InStep, Grows
<1>4. SentUpTo(c, n)'
  BY <1>1, <1>3, SentStays DEF DealtWith
<1>5. PICK q : q = Flow(c)
  OBVIOUS
<1>6. Flow(c)' = q
  BY <1>5 DEF Flow
<1>7. response[c] = "open" => InFlow(c, q, n)'
  BY <1>1, <1>5, FlowStays DEF DealtWith
<1>8. finished[c] => ended' /\ n = Len(log')
  BY <1>1 DEF DealtWith, Grows
<1>9. DealtWith(c, n)'
  BY <1>4, <1>6, <1>7, <1>8 DEF DealtWith
<1> QED
  BY <1>2, <1>3, <1>5, <1>6, <1>9 DEF InStep

-----------------------------------------------------------------------------

\* Unless the client gets something, n stays.
LEMMA StillDealtWith ==
  ASSUME Types, Types', Grows, NEW c \in Clients, InStep(c),
         NEW n \in from[c]..pos[c], DealtWith(c, n),
         shown'[c] = shown[c], from'[c] = from[c], finished'[c] = finished[c],
         NEW q, Flow(c)' = q, response'[c] = "open" => InFlow(c, q, n)'
  PROVE  DealtWith(c, n)'
<1>1. n \in Nat /\ n <= Len(log)
  <2>1. from[c] \in Nat /\ pos[c] \in Nat /\ Len(log) \in Nat
    BY LenProperties DEF Types
  <2> QED
    BY <2>1 DEF InStep
<1>2. SentUpTo(c, n)'
  BY <1>1, SentStays DEF DealtWith
<1>3. finished'[c] => ended' /\ n = Len(log')
  BY DEF DealtWith, Grows
<1> QED
  BY <1>2, <1>3 DEF DealtWith

\* r is q with e at its end.
Added(q, e, r) ==
  /\ Len(q) \in Nat /\ Len(r) = Len(q) + 1
  /\ DOMAIN r = 1..Len(q) + 1 /\ DOMAIN q = 1..Len(q)
  /\ \A i \in 1..Len(q) : r[i] = q[i]
  /\ r[Len(q) + 1] = e
  /\ \A i \in 0..Len(q) : AllLogs(r, i) <=> AllLogs(q, i)
  /\ AllLogs(r, Len(r)) <=> AllLogs(q, Len(q)) /\ e.type = "log"

\* An item that is added leaves those before it.
LEMMA FlowAdded ==
  ASSUME NEW q \in Seq(Items), NEW e \in Items, NEW r, r = Append(q, e)
  PROVE  Added(q, e, r)
<1>1. /\ Len(q) \in Nat /\ Len(r) = Len(q) + 1 /\ r \in Seq(Items)
      /\ \A i \in 1..Len(q) : r[i] = q[i]
      /\ r[Len(q) + 1] = e
  BY LenProperties, AppendProperties
<1>2. DOMAIN r = 1..Len(q) + 1 /\ DOMAIN q = 1..Len(q)
  BY <1>1, LenProperties
<1>3. \A i \in 0..Len(q) : AllLogs(r, i) <=> AllLogs(q, i)
  BY <1>1 DEF AllLogs
<1>4. AllLogs(r, Len(r)) <=> AllLogs(q, Len(q)) /\ e.type = "log"
  BY <1>1 DEF AllLogs
<1> QED
  BY <1>1, <1>2, <1>3, <1>4 DEF Added

LEMMA OpenStep ==
  ASSUME Types, Types', Grows, NEW c \in Clients, InStep(c), Open(c)
  PROVE  InStep(c)'
<1>1. /\ thread[c] = "none" /\ from[c] = 0 /\ pos[c] = 0 /\ Flow(c) = <<>>
      /\ shown[c] = <<>> /\ ~finished[c] /\ stop_event[c] = FALSE
  BY DEF Open, InStep, Types
<1>2. /\ UNCHANGED <<log, ended, from, pos, scheduled, log_queue, stop_event, shown, finished>>
      /\ thread'[c] = "get" /\ response'[c] = "open"
  BY DEF Open, Types, queueVars
<1>3. Flow(c)' = <<>>
  BY <1>1, <1>2 DEF Flow
<1>4. DealtWith(c, 0)
  BY <1>1 DEF InStep
<1>5. InFlow(c, <<>>, 0)'
  BY <1>1, <1>2 DEF InFlow, AllLogs, Handed
<1>6. DealtWith(c, 0)'
  BY <1>1, <1>2, <1>3, <1>4, <1>5, StillDealtWith
<1> QED
  BY <1>1, <1>2, <1>3, <1>6 DEF InStep, Types

LEMMA GetContainerStep ==
  ASSUME Types, Types', Grows, NEW c \in Clients, InStep(c), GetContainer(c)
  PROVE  InStep(c)'
<1>1. /\ thread[c] = "get" /\ from[c] = 0 /\ pos[c] = 0 /\ Flow(c) = <<>>
      /\ shown[c] = <<>>
  BY DEF GetContainer, InStep
<1>2. /\ UNCHANGED <<log, ended, scheduled, log_queue, response, stop_event, shown, finished>>
      /\ thread'[c] = "read"
  BY DEF GetContainer, Goto, Types, queueVars, responseVars
<1>3. PICK n \in 0..Len(log) : from'[c] = n /\ pos'[c] = n
  BY DEF GetContainer, Types
<1>4. n \in Nat /\ Len(log) \in Nat /\ Len(<<>>) = 0
  BY LenProperties DEF Types
<1>5. Flow(c)' = <<>>
  BY <1>1, <1>2 DEF Flow
<1>6. DealtWith(c, 0)
  BY <1>1 DEF InStep
<1>7. InFlow(c, <<>>, n)'
  BY <1>2, <1>3, <1>4 DEF InFlow, AllLogs, Handed
<1>8. SentUpTo(c, n)'
  <2>1. ToSet(<<>>) = {}
    BY DEF ToSet
  <2> QED
    BY <1>1, <1>2, <1>3, <1>4, <2>1 DEF SentUpTo
<1>9. finished'[c] => ended' /\ n = Len(log')
  BY <1>2, <1>3, <1>4, <1>6 DEF DealtWith
<1>10. DealtWith(c, n)'
  BY <1>5, <1>7, <1>8, <1>9 DEF DealtWith
<1> QED
  BY <1>1, <1>2, <1>3, <1>4, <1>5, <1>10 DEF InStep, Types

LEMMA DockerFailsStep ==
  ASSUME Types, Types', Grows, NEW c \in Clients, InStep(c), DockerFails(c)
  PROVE  InStep(c)'
<1>1. /\ UNCHANGED <<log, ended, from, pos, log_queue, response, stop_event, shown, finished>>
      /\ thread[c] \in {"get", "read"} /\ thread'[c] = "finally"
      /\ scheduled'[c] = Append(scheduled[c], Item("error", 0))
  BY DEF DockerFails, Goto, Schedule, Types, responseVars
<1>2. PICK n \in from[c]..pos[c] : DealtWith(c, n)
  BY DEF InStep
<1>3. PICK q \in Seq(Items) : q = Flow(c)
  BY FlowType
<1>4. PICK r : r = Append(q, Item("error", 0))
  OBVIOUS
<1>5. Flow(c)' = r
  BY <1>1, <1>3, <1>4, FlowScheduled, ItemTypes DEF Flow, Types
<1>6. n \in Nat
  BY <1>2 DEF Types
<1>7. response[c] = "open" => InFlow(c, r, n)'
  <2> SUFFICES ASSUME InFlow(c, q, n) PROVE InFlow(c, r, n)'
    BY <1>2, <1>3 DEF DealtWith
  <2>0. Item("error", 0).type = "error"
    BY DEF Item
  <2>1. /\ Len(q) \in Nat /\ Len(r) = Len(q) + 1
        /\ DOMAIN r = 1..Len(q) + 1 /\ DOMAIN q = 1..Len(q)
        /\ \A i \in 1..Len(q) : r[i] = q[i]
        /\ r[Len(q) + 1] = Item("error", 0)
        /\ \A i \in 0..Len(q) : AllLogs(r, i) <=> AllLogs(q, i)
        /\ AllLogs(r, Len(r)) <=> AllLogs(q, Len(q)) /\ Item("error", 0).type = "log"
    <3>1. Added(q, Item("error", 0), r)
      BY <1>4, ItemTypes, FlowAdded
    <3> QED
      BY <3>1 DEF Added
  <2>2. ~AllLogs(r, Len(r))
    BY <2>0, <2>1
  <2>3. \A i \in DOMAIN r : AllLogs(r, i) => r[i].line = n + i /\ n + i <= pos[c]
    <3> SUFFICES ASSUME NEW i \in DOMAIN r, AllLogs(r, i)
                 PROVE  r[i].line = n + i /\ n + i <= pos[c]
      OBVIOUS
    <3>1. i \in DOMAIN q
      BY <2>1, <2>2
    <3> QED
      BY <2>1, <3>1 DEF InFlow
  <2>4. \A i \in DOMAIN r : AllLogs(r, i - 1) /\ r[i].type = "eof" =>
                              ended /\ n + i - 1 = Len(log)
    <3> SUFFICES ASSUME NEW i \in DOMAIN r, AllLogs(r, i - 1), r[i].type = "eof"
                 PROVE  ended /\ n + i - 1 = Len(log)
      OBVIOUS
    <3>1. i # Len(q) + 1
      BY <2>0, <2>1
    <3>2. i \in DOMAIN q /\ i - 1 \in 0..Len(q)
      BY <2>1, <3>1
    <3> QED
      BY <2>1, <3>2 DEF InFlow
  <2> QED
    BY <1>1, <2>2, <2>3, <2>4 DEF InFlow
<1>8. DealtWith(c, n)'
  BY <1>1, <1>2, <1>5, <1>7, StillDealtWith
<1> QED
  BY <1>1, <1>2, <1>8 DEF InStep

LEMMA ReadLineStep ==
  ASSUME Types, Types', Grows, NEW c \in Clients, InStep(c), ReadLine(c)
  PROVE  InStep(c)'
<1>1. /\ UNCHANGED <<log, ended, from, scheduled, log_queue, response, stop_event, shown, finished>>
      /\ thread[c] = "read" /\ pos[c] < Len(log) /\ pos'[c] = pos[c] + 1
      /\ thread'[c] = IF stop_event[c] THEN "finally" ELSE "hand"
  BY DEF ReadLine, Goto, Types, queueVars, responseVars
<1>2. PICK n \in from[c]..pos[c] : DealtWith(c, n)
  BY DEF InStep
<1>3. PICK q \in Seq(Items) : q = Flow(c)
  BY FlowType
<1>4. Flow(c)' = q
  BY <1>1, <1>3 DEF Flow
<1>5. /\ n \in Nat /\ pos[c] \in Nat /\ from[c] \in Nat /\ Len(log) \in Nat /\ Len(q) \in Nat
      /\ DOMAIN q = 1..Len(q)
  BY <1>2, LenProperties DEF Types
<1>6. response[c] = "open" => InFlow(c, q, n)'
  <2> SUFFICES ASSUME InFlow(c, q, n), response[c] = "open" PROVE InFlow(c, q, n)'
    BY <1>2, <1>3 DEF DealtWith
  <2>1. thread'[c] = "hand"
    BY <1>1 DEF InStep
  <2>2. Handed(c)' = Handed(c)
    BY <1>1, <1>5, <2>1 DEF Handed
  <2> QED
    BY <1>1, <1>5, <2>1, <2>2 DEF InFlow, AllLogs
<1>7. DealtWith(c, n)'
  BY <1>1, <1>2, <1>4, <1>6, StillDealtWith
<1> QED
  BY <1>1, <1>2, <1>5, <1>7 DEF InStep

LEMMA HandLineStep ==
  ASSUME Types, Types', Grows, NEW c \in Clients, InStep(c), HandLine(c)
  PROVE  InStep(c)'
<1>1. /\ UNCHANGED <<log, ended, from, pos, log_queue, response, stop_event, shown, finished>>
      /\ thread[c] = "hand" /\ thread'[c] = "read"
      /\ scheduled'[c] = Append(scheduled[c], Item("log", pos[c]))
  BY DEF HandLine, Goto, Schedule, Types, responseVars
<1>2. PICK n \in from[c]..pos[c] : DealtWith(c, n)
  BY DEF InStep
<1>3. PICK q \in Seq(Items) : q = Flow(c)
  BY FlowType
<1>4. PICK e \in Items : e = Item("log", pos[c])
  BY ItemTypes DEF Types
<1>5. PICK r : r = Append(q, e)
  OBVIOUS
<1>6. Flow(c)' = r
  BY <1>1, <1>3, <1>4, <1>5, FlowScheduled DEF Flow, Types
<1>7. n \in Nat /\ pos[c] \in Nat /\ from[c] \in Nat
  BY <1>2 DEF Types
<1>8. e.type = "log" /\ e.line = pos[c]
  BY <1>4 DEF Item
<1>9. response[c] = "open" => InFlow(c, r, n)'
  <2> SUFFICES ASSUME InFlow(c, q, n) PROVE InFlow(c, r, n)'
    BY <1>2, <1>3 DEF DealtWith
  <2>1. /\ Len(q) \in Nat /\ Len(r) = Len(q) + 1
        /\ DOMAIN r = 1..Len(q) + 1 /\ DOMAIN q = 1..Len(q)
        /\ \A i \in 1..Len(q) : r[i] = q[i]
        /\ r[Len(q) + 1] = e
        /\ \A i \in 0..Len(q) : AllLogs(r, i) <=> AllLogs(q, i)
        /\ AllLogs(r, Len(r)) <=> AllLogs(q, Len(q)) /\ e.type = "log"
    <3>1. Added(q, e, r)
      BY <1>5, FlowAdded
    <3> QED
      BY <3>1 DEF Added
  <2>2. AllLogs(q, Len(q)) /\ n + Len(q) = pos[c] - 1
    BY <1>1 DEF InFlow, Handed
  <2>3. \A i \in DOMAIN r : AllLogs(r, i) => r[i].line = n + i /\ n + i <= pos[c]
    <3> SUFFICES ASSUME NEW i \in DOMAIN r, AllLogs(r, i)
                 PROVE  r[i].line = n + i /\ n + i <= pos[c]
      OBVIOUS
    <3>1. CASE i \in DOMAIN q
      BY <2>1, <3>1 DEF InFlow
    <3>2. CASE i = Len(q) + 1
      BY <1>7, <1>8, <2>1, <2>2, <3>2
    <3> QED
      BY <2>1, <3>1, <3>2
  <2>4. \A i \in DOMAIN r : AllLogs(r, i - 1) /\ r[i].type = "eof" =>
                              ended /\ n + i - 1 = Len(log)
    <3> SUFFICES ASSUME NEW i \in DOMAIN r, AllLogs(r, i - 1), r[i].type = "eof"
                 PROVE  ended /\ n + i - 1 = Len(log)
      OBVIOUS
    <3>1. i # Len(q) + 1
      BY <1>8, <2>1
    <3>2. i \in DOMAIN q /\ i - 1 \in 0..Len(q)
      BY <2>1, <3>1
    <3> QED
      BY <2>1, <3>2 DEF InFlow
  <2>5. AllLogs(r, Len(r)) /\ n + Len(r) = pos[c]
    BY <1>7, <1>8, <2>1, <2>2
  <2> QED
    BY <1>1, <2>3, <2>4, <2>5 DEF InFlow, Handed
<1>10. DealtWith(c, n)'
  BY <1>1, <1>2, <1>6, <1>9, StillDealtWith
<1> QED
  BY <1>1, <1>2, <1>10 DEF InStep

LEMMA EndOfStreamStep ==
  ASSUME Types, Types', Grows, NEW c \in Clients, InStep(c), EndOfStream(c)
  PROVE  InStep(c)'
<1>1. /\ UNCHANGED <<log, ended, from, pos, scheduled, log_queue, response, stop_event, shown, finished>>
      /\ thread[c] = "read" /\ thread'[c] = "finally" /\ ended /\ pos[c] = Len(log)
  BY DEF EndOfStream, Goto, Types, queueVars, responseVars
<1>2. PICK n \in from[c]..pos[c] : DealtWith(c, n)
  BY DEF InStep
<1>3. PICK q : q = Flow(c)
  OBVIOUS
<1>4. Flow(c)' = q
  BY <1>1, <1>3 DEF Flow
<1>5. response[c] = "open" => InFlow(c, q, n)'
  BY <1>1, <1>2, <1>3 DEF DealtWith, InFlow, AllLogs, Handed
<1>6. DealtWith(c, n)'
  BY <1>1, <1>2, <1>4, <1>5, StillDealtWith
<1> QED
  BY <1>1, <1>2, <1>6 DEF InStep

LEMMA FinallyStep ==
  ASSUME Types, Types', Grows, NEW c \in Clients, InStep(c), Finally(c)
  PROVE  InStep(c)'
<1>1. /\ UNCHANGED <<log, ended, from, pos, log_queue, response, stop_event, shown, finished>>
      /\ thread[c] = "finally" /\ thread'[c] = "over"
      /\ scheduled'[c] = Append(scheduled[c], Item("eof", 0))
  BY DEF Finally, Goto, Schedule, Types, responseVars
<1>2. PICK n \in from[c]..pos[c] : DealtWith(c, n)
  BY DEF InStep
<1>3. PICK q \in Seq(Items) : q = Flow(c)
  BY FlowType
<1>4. PICK e \in Items : e = Item("eof", 0)
  BY ItemTypes
<1>5. PICK r : r = Append(q, e)
  OBVIOUS
<1>6. Flow(c)' = r
  BY <1>1, <1>3, <1>4, <1>5, FlowScheduled DEF Flow, Types
<1>7. n \in Nat
  BY <1>2 DEF Types
<1>8. e.type = "eof"
  BY <1>4 DEF Item
<1>9. response[c] = "open" => InFlow(c, r, n)'
  <2> SUFFICES ASSUME InFlow(c, q, n) PROVE InFlow(c, r, n)'
    BY <1>2, <1>3 DEF DealtWith
  <2>1. /\ Len(q) \in Nat /\ Len(r) = Len(q) + 1
        /\ DOMAIN r = 1..Len(q) + 1 /\ DOMAIN q = 1..Len(q)
        /\ \A i \in 1..Len(q) : r[i] = q[i]
        /\ r[Len(q) + 1] = e
        /\ \A i \in 0..Len(q) : AllLogs(r, i) <=> AllLogs(q, i)
        /\ AllLogs(r, Len(r)) <=> AllLogs(q, Len(q)) /\ e.type = "log"
    <3>1. Added(q, e, r)
      BY <1>5, FlowAdded
    <3> QED
      BY <3>1 DEF Added
  <2>2. ~AllLogs(r, Len(r))
    BY <1>8, <2>1
  <2>3. \A i \in DOMAIN r : AllLogs(r, i) => r[i].line = n + i /\ n + i <= pos[c]
    <3> SUFFICES ASSUME NEW i \in DOMAIN r, AllLogs(r, i)
                 PROVE  r[i].line = n + i /\ n + i <= pos[c]
      OBVIOUS
    <3>1. i \in DOMAIN q
      BY <2>1, <2>2
    <3> QED
      BY <2>1, <3>1 DEF InFlow
  <2>4. \A i \in DOMAIN r : AllLogs(r, i - 1) /\ r[i].type = "eof" =>
                              ended /\ n + i - 1 = Len(log)
    <3> SUFFICES ASSUME NEW i \in DOMAIN r, AllLogs(r, i - 1), r[i].type = "eof"
                 PROVE  ended /\ n + i - 1 = Len(log)
      OBVIOUS
    <3>1. CASE i \in DOMAIN q
      <4>1. i - 1 \in 0..Len(q)
        BY <2>1, <3>1
      <4> QED
        BY <2>1, <3>1, <4>1 DEF InFlow
    <3>2. CASE i = Len(q) + 1
      <4>1. i - 1 = Len(q) /\ Len(q) \in 0..Len(q)
        BY <2>1, <3>2
      <4>2. AllLogs(q, Len(q))
        BY <2>1, <4>1
      <4>3. ended /\ n + Len(q) = Len(log)
        BY <1>1, <4>2 DEF InFlow
      <4> QED
        BY <1>7, <2>1, <3>2, <4>3
    <3> QED
      BY <2>1, <3>1, <3>2
  <2> QED
    BY <1>1, <2>2, <2>3, <2>4 DEF InFlow
<1>10. DealtWith(c, n)'
  BY <1>1, <1>2, <1>6, <1>9, StillDealtWith
<1> QED
  BY <1>1, <1>2, <1>10 DEF InStep

LEMMA PutStep ==
  ASSUME Types, Types', Grows, NEW c \in Clients, InStep(c), Put(c)
  PROVE  InStep(c)'
<1>1. /\ UNCHANGED <<log, ended, thread, from, pos, response, stop_event, shown, finished>>
      /\ scheduled[c] # <<>>
      /\ log_queue'[c] = Append(log_queue[c], Head(scheduled[c]))
      /\ scheduled'[c] = Tail(scheduled[c])
  BY DEF Put, Types, threadVars, responseVars
<1>2. PICK n \in from[c]..pos[c] : DealtWith(c, n)
  BY DEF InStep
<1>3. PICK q : q = Flow(c)
  OBVIOUS
<1>4. Flow(c)' = q
  BY <1>1, <1>3, FlowPut DEF Flow, Types
<1>5. response[c] = "open" => InFlow(c, q, n)'
  BY <1>1, <1>2, <1>3, FlowStays DEF DealtWith
<1>6. DealtWith(c, n)'
  BY <1>1, <1>2, <1>4, <1>5, StillDealtWith
<1> QED
  BY <1>1, <1>2, <1>3, <1>4, <1>6 DEF InStep

LEMMA LeaveStep ==
  ASSUME Types, Types', Grows, NEW c \in Clients, InStep(c), Leave(c)
  PROVE  InStep(c)'
<1>1. /\ UNCHANGED <<log, ended, thread, from, pos, scheduled, log_queue, shown, finished>>
      /\ response[c] = "open" /\ response'[c] = "closed" /\ stop_event'[c] = TRUE
  BY DEF Leave, Close, Types, threadVars, queueVars
<1>2. PICK n \in from[c]..pos[c] : DealtWith(c, n)
  BY DEF InStep
<1>3. PICK q : q = Flow(c)
  OBVIOUS
<1>4. Flow(c)' = q
  BY <1>1, <1>3 DEF Flow
<1>5. DealtWith(c, n)'
  BY <1>1, <1>2, <1>4, StillDealtWith
<1> QED
  BY <1>1, <1>2, <1>3, <1>4, <1>5 DEF InStep

\* The generator takes the first item of the flow.
LEMMA ServeStep ==
  ASSUME Types, Types', Grows, NEW c \in Clients, InStep(c), Serve(c)
  PROVE  InStep(c)'
<1>1. /\ UNCHANGED <<log, ended, thread, from, pos, scheduled>>
      /\ response[c] = "open" /\ log_queue[c] # <<>>
      /\ log_queue'[c] = Tail(log_queue[c])
  BY DEF Serve, Types, threadVars
<1>2. PICK n \in from[c]..pos[c] : DealtWith(c, n)
  BY DEF InStep
<1>3. PICK q : q = Flow(c)
  OBVIOUS
<1>4. PICK e : e = Head(log_queue[c])
  OBVIOUS
<1>5. q \in Seq(Items) /\ q # <<>> /\ q[1] = e /\ Flow(c)' = Tail(q)
  <2>1. log_queue[c] \in Seq(Items) /\ scheduled[c] \in Seq(Items)
    BY DEF Types
  <2> QED
    BY <1>1, <1>3, <1>4, <2>1, FlowTaken DEF Flow
<1>6. PICK r : r = Tail(q)
  OBVIOUS
<1>7. /\ Len(q) \in Nat /\ Len(q) >= 1 /\ DOMAIN q = 1..Len(q)
      /\ r \in Seq(Items) /\ Len(r) = Len(q) - 1 /\ DOMAIN r = 1..Len(q) - 1
      /\ \A i \in 1..Len(q) - 1 : r[i] = q[i + 1]
  BY <1>5, <1>6, LenProperties, HeadTailProperties
<1>8. /\ n \in Nat /\ pos[c] \in Nat /\ from[c] \in Nat /\ Len(log) \in Nat
      /\ thread[c] \notin {"none", "get"} /\ from[c] <= n /\ n <= pos[c] /\ pos[c] <= Len(log)
  BY <1>2, <1>3, <1>5, LenProperties DEF Types, InStep
<1>9. SentUpTo(c, n) /\ InFlow(c, q, n)
  BY <1>1, <1>2, <1>3 DEF DealtWith
<1>10. ASSUME e.type = "log"
       PROVE  /\ e.line = n + 1 /\ n + 1 <= pos[c]
              /\ InFlow(c, r, n + 1)
  <2>1. AllLogs(q, 1)
    BY <1>5, <1>10 DEF AllLogs
  <2>2. e.line = n + 1 /\ n + 1 <= pos[c]
    BY <1>5, <1>7, <1>9, <2>1 DEF InFlow
  <2>3. \A i \in 0..Len(q) - 1 : AllLogs(r, i) <=> AllLogs(q, i + 1)
    <3> SUFFICES ASSUME NEW i \in 0..Len(q) - 1 PROVE AllLogs(r, i) <=> AllLogs(q, i + 1)
      OBVIOUS
    <3>1. AllLogs(q, i + 1) => AllLogs(r, i)
      BY <1>7 DEF AllLogs
    <3>2. ASSUME AllLogs(r, i), NEW j \in 1..i + 1 PROVE q[j].type = "log"
      <4>1. CASE j = 1
        BY <1>5, <1>10, <4>1
      <4>2. CASE j # 1
        <5>1. j - 1 \in 1..i /\ j - 1 \in 1..Len(q) - 1 /\ (j - 1) + 1 = j
          BY <1>7, <4>2
        <5>2. r[j - 1].type = "log" /\ r[j - 1] = q[j]
          BY <1>7, <3>2, <5>1 DEF AllLogs
        <5> QED
          BY <5>2
      <4> QED
        BY <4>1, <4>2
    <3> QED
      BY <3>1, <3>2 DEF AllLogs
  <2>4. \A i \in DOMAIN r : AllLogs(r, i) => r[i].line = n + 1 + i /\ n + 1 + i <= pos[c]
    <3> SUFFICES ASSUME NEW i \in DOMAIN r, AllLogs(r, i)
                 PROVE  r[i].line = n + 1 + i /\ n + 1 + i <= pos[c]
      OBVIOUS
    <3>1. i \in 0..Len(q) - 1 /\ i + 1 \in DOMAIN q /\ r[i] = q[i + 1]
      BY <1>7
    <3>2. q[i + 1].line = n + (i + 1) /\ n + (i + 1) <= pos[c]
      BY <1>9, <2>3, <3>1 DEF InFlow
    <3> QED
      BY <1>8, <3>1, <3>2
  <2>5. \A i \in DOMAIN r : AllLogs(r, i - 1) /\ r[i].type = "eof" =>
                              ended /\ n + 1 + i - 1 = Len(log)
    <3> SUFFICES ASSUME NEW i \in DOMAIN r, AllLogs(r, i - 1), r[i].type = "eof"
                 PROVE  ended /\ n + 1 + i - 1 = Len(log)
      OBVIOUS
    <3>1. /\ i - 1 \in 0..Len(q) - 1 /\ (i - 1) + 1 = (i + 1) - 1
          /\ i + 1 \in DOMAIN q /\ r[i] = q[i + 1]
      BY <1>7
    <3>2. AllLogs(q, (i + 1) - 1)
      BY <2>3, <3>1
    <3>3. ended /\ n + (i + 1) - 1 = Len(log)
      BY <1>9, <3>1, <3>2 DEF InFlow
    <3> QED
      BY <1>7, <1>8, <3>3
  <2>6. AllLogs(r, Len(r)) <=> AllLogs(q, Len(q))
    <3>1. Len(r) \in 0..Len(q) - 1 /\ Len(r) + 1 = Len(q)
      BY <1>7
    <3> QED
      BY <2>3, <3>1
  <2>7. n + 1 + Len(r) = n + Len(q)
    BY <1>7, <1>8
  <2> QED
    BY <1>9, <2>2, <2>4, <2>5, <2>6, <2>7 DEF InFlow
<1>11. CASE e.type = "log"
  <2>1. /\ UNCHANGED <<response, stop_event, finished>>
        /\ \/ log[e.line] /\ shown' = [shown EXCEPT ![c] = Append(@, e.line)]
           \/ ~log[e.line] /\ UNCHANGED shown
    BY <1>4, <1>11 DEF Serve, responseVars
  <2>2. e.line = n + 1 /\ n + 1 <= pos[c] /\ InFlow(c, r, n + 1)
    BY <1>10, <1>11
  <2>3. PICK m : m = n + 1
    OBVIOUS
  <2>4. InFlow(c, r, m)'
    BY <1>1, <2>2, <2>3 DEF InFlow, AllLogs, Handed
  <2>5. SentUpTo(c, m)'
    <3>1. {i \in from[c] + 1..m : log[i]} =
            {i \in from[c] + 1..n : log[i]} \union {i \in {m} : log[i]}
      BY <1>8, <2>3
    <3>2. CASE ~log[e.line]
      BY <1>1, <1>9, <2>1, <2>2, <2>3, <3>1, <3>2 DEF SentUpTo
    <3>3. CASE log[e.line]
      <4>1. shown[c] \in Seq(Nat) /\ shown'[c] = Append(shown[c], m)
        BY <2>1, <2>2, <2>3, <3>3 DEF Types
      <4>2. PICK s \in Seq(Nat) : s = shown[c]
        BY <4>1
      <4>3. PICK t : t = Append(s, m)
        OBVIOUS
      <4>4. /\ Len(s) \in Nat /\ DOMAIN s = 1..Len(s) /\ DOMAIN t = 1..Len(s) + 1
            /\ \A i \in 1..Len(s) : t[i] = s[i]
            /\ t[Len(s) + 1] = m
        BY <1>8, <2>3, <4>2, <4>3, LenProperties, AppendProperties
      <4>5. /\ ToSet(s) = {i \in from[c] + 1..n : log[i]}
            /\ \A i, j \in DOMAIN s : i < j => s[i] < s[j]
        BY <1>9, <4>2 DEF SentUpTo
      <4>6. ToSet(t) = ToSet(s) \union {m}
        BY <4>4 DEF ToSet
      <4>7. ToSet(t) = {i \in from[c] + 1..m : log[i]}
        BY <2>2, <2>3, <3>1, <3>3, <4>5, <4>6
      <4>8. \A i \in DOMAIN s : s[i] \in Nat /\ s[i] < m
        <5> SUFFICES ASSUME NEW i \in DOMAIN s PROVE s[i] \in Nat /\ s[i] < m
          OBVIOUS
        <5>1. s[i] \in from[c] + 1..n
          BY <4>5 DEF ToSet
        <5> QED
          BY <1>8, <2>3, <5>1
      <4>9. \A i, j \in DOMAIN t : i < j => t[i] < t[j]
        <5> SUFFICES ASSUME NEW i \in DOMAIN t, NEW j \in DOMAIN t, i < j PROVE t[i] < t[j]
          OBVIOUS
        <5>1. i \in DOMAIN s /\ t[i] = s[i]
          BY <4>4
        <5>2. CASE j \in DOMAIN s
          <6>1. t[j] = s[j]
            BY <4>4, <5>2
          <6> QED
            BY <4>5, <5>1, <5>2, <6>1
        <5>3. CASE j = Len(s) + 1
          BY <4>4, <4>8, <5>1, <5>3
        <5> QED
          BY <4>4, <5>2, <5>3
      <4> QED
        BY <1>1, <4>1, <4>2, <4>3, <4>7, <4>9 DEF SentUpTo
    <3> QED
      BY <3>2, <3>3
  <2>6. ~finished'[c]
    BY <1>1, <2>1 DEF InStep
  <2>7. DealtWith(c, m)'
    BY <1>5, <1>6, <2>4, <2>5, <2>6 DEF DealtWith
  <2>8. m \in from[c]..pos[c]
    BY <1>8, <2>2, <2>3
  <2> QED
    BY <1>1, <1>8, <2>1, <2>6, <2>7, <2>8 DEF InStep
<1>12. CASE e.type \in {"error", "eof"}
  <2>1. /\ response'[c] = "closed" /\ stop_event'[c] = TRUE
        /\ finished'[c] = (e.type = "eof") /\ UNCHANGED shown
    BY <1>4, <1>12 DEF Serve, Close, Types, responseVars
  <2>2. SentUpTo(c, n)'
    BY <1>1, <1>9, <2>1 DEF SentUpTo
  <2>3. e.type = "eof" => ended /\ n = Len(log)
    <3> SUFFICES ASSUME e.type = "eof" PROVE ended /\ n = Len(log)
      OBVIOUS
    <3>1. 1 \in DOMAIN q /\ 1 - 1 = 0 /\ AllLogs(q, 0)
      BY <1>7 DEF AllLogs
    <3>2. ended /\ n + 1 - 1 = Len(log)
      BY <1>5, <1>9, <3>1 DEF InFlow
    <3> QED
      BY <1>8, <3>2
  <2>4. DealtWith(c, n)'
    BY <1>1, <2>1, <2>2, <2>3 DEF DealtWith
  <2> QED
    BY <1>1, <1>2, <1>8, <2>1, <2>4 DEF InStep
<1> QED
  <2>1. e \in Items
    BY <1>5, <1>7
  <2> QED
    BY <1>11, <1>12, <2>1 DEF Items

-----------------------------------------------------------------------------

Act(c) ==
  \/ Open(c) \/ Producer(c) \/ DockerFails(c)
  \/ Put(c) \/ Serve(c) \/ Leave(c)

LEMMA ActStep ==
  ASSUME Types, Types', Grows, NEW c \in Clients, InStep(c), Act(c)
  PROVE  InStep(c)'
  BY OpenStep, GetContainerStep, ReadLineStep, HandLineStep, EndOfStreamStep, FinallyStep,
     DockerFailsStep, PutStep, ServeStep, LeaveStep DEF Act, Producer

\* The responses share nothing but the container.
LEMMA OthersStep ==
  ASSUME Types, Types', Grows, NEW c \in Clients, NEW d \in Clients, d # c, InStep(d), Act(c)
  PROVE  InStep(d)'
<1>1. /\ thread'[d] = thread[d] /\ from'[d] = from[d] /\ pos'[d] = pos[d]
  BY DEF Types, Act, Open, Producer, GetContainer, ReadLine, HandLine, EndOfStream, Finally,
         DockerFails, Put, Serve, Leave, Goto, threadVars
<1>2. scheduled'[d] = scheduled[d] /\ log_queue'[d] = log_queue[d]
  BY DEF Types, Act, Open, Producer, GetContainer, ReadLine, HandLine, EndOfStream, Finally,
         DockerFails, Put, Serve, Leave, Schedule, queueVars
<1>3. /\ response'[d] = response[d] /\ stop_event'[d] = stop_event[d]
      /\ shown'[d] = shown[d] /\ finished'[d] = finished[d]
  <2>1. CASE Serve(c)
    <3>1. /\ UNCHANGED response \/ response' = [response EXCEPT ![c] = "closed"]
          /\ UNCHANGED stop_event \/ stop_event' = [stop_event EXCEPT ![c] = TRUE]
          /\ UNCHANGED shown \/ \E s : shown' = [shown EXCEPT ![c] = s]
          /\ UNCHANGED finished \/ \E f : finished' = [finished EXCEPT ![c] = f]
      BY <2>1 DEF Serve, Close, responseVars
    <3> QED
      BY <3>1 DEF Types
  <2>2. CASE Open(c) \/ Leave(c)
    BY <2>2 DEF Types, Open, Leave, Close
  <2>3. CASE Producer(c) \/ DockerFails(c) \/ Put(c)
    BY <2>3 DEF Producer, GetContainer, ReadLine, HandLine, EndOfStream, Finally, DockerFails,
                Put, responseVars
  <2> QED
    BY <2>1, <2>2, <2>3 DEF Act
<1> QED
  BY <1>1, <1>2, <1>3, Unaffected

LEMMA InitHolds == Init => IInv
<1> SUFFICES ASSUME Init, NEW c \in Clients PROVE InStep(c)
  BY TypesInit DEF IInv
<1>1. /\ thread[c] = "none" /\ from[c] = 0 /\ pos[c] = 0 /\ Len(log) = 0
      /\ shown[c] = <<>> /\ scheduled[c] = <<>> /\ log_queue[c] = <<>>
      /\ response[c] = "none" /\ ~stop_event[c] /\ ~finished[c]
  BY DEF Init
<1>2. Flow(c) = <<>>
  BY <1>1 DEF Flow
<1>3. SentUpTo(c, 0)
  <2>1. ToSet(<<>>) = {}
    BY DEF ToSet
  <2> QED
    BY <1>1, <2>1 DEF SentUpTo
<1> QED
  BY <1>1, <1>2, <1>3 DEF InStep, DealtWith

LEMMA StepHolds == IInv /\ [Next]_vars => IInv'
<1> SUFFICES ASSUME IInv, [Next]_vars PROVE IInv'
  OBVIOUS
<1>1. Types /\ Types' /\ Grows
  BY TypesStep, LogGrows DEF IInv
<1>2. CASE WriteLine \/ EndContainer \/ UNCHANGED vars
  <2> SUFFICES ASSUME NEW c \in Clients PROVE InStep(c)'
    BY <1>1 DEF IInv
  <2> QED
    BY <1>1, <1>2, Unaffected
       DEF IInv, WriteLine, EndContainer, vars, threadVars, queueVars, responseVars
<1>3. ASSUME NEW c \in Clients, Act(c) PROVE IInv'
  <2> SUFFICES ASSUME NEW d \in Clients PROVE InStep(d)'
    BY <1>1 DEF IInv
  <2> QED
    BY <1>1, <1>3, ActStep, OthersStep DEF IInv
<1> QED
  BY <1>2, <1>3 DEF Next, Act

LEMMA IInvImpliesProperty == IInv => LinesInOrder
<1> SUFFICES ASSUME IInv, NEW c \in Clients
             PROVE  /\ \E n \in from[c]..Len(log) : SentUpTo(c, n)
                    /\ finished[c] => SentUpTo(c, Len(log))
  BY DEF LinesInOrder
<1>1. PICK n \in from[c]..pos[c] : DealtWith(c, n)
  BY DEF IInv, InStep
<1>2. from[c] \in Nat /\ pos[c] \in Nat /\ Len(log) \in Nat /\ pos[c] <= Len(log)
  BY LenProperties DEF IInv, Types, InStep
<1> QED
  BY <1>1, <1>2 DEF DealtWith

\* routes/events.py, the docker-logs stream: whatever the container writes, the
\* daemon fails at and the clients do, a client has the lines from where its stream
\* starts in their order and without a gap but for those that cannot be parsed, and
\* all of them if the response ended with "eof".
THEOREM LinesInOrderAlways == Spec => []LinesInOrder
<1>1. Init => IInv
  BY InitHolds
<1>2. IInv /\ [Next]_vars => IInv'
  BY StepHolds
<1>3. IInv => LinesInOrder
  BY IInvImpliesProperty
<1> QED
  BY <1>1, <1>2, <1>3, PTL DEF Spec
=============================================================================
