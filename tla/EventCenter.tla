---------------------------- MODULE EventCenter ----------------------------
(***************************************************************************)
(* events/event_center.py: the Redis Stream every part of the system       *)
(* publishes to, and ONE consumer group reading it.  Another group has its *)
(* own cursor and its own pending list and shares nothing but the stream,  *)
(* so each component that consumes instantiates this module for its group. *)
(*                                                                         *)
(* An entry's id is its position in `stream', which keeps every entry ever *)
(* added; the first `trimmed' of them are gone from Redis.  A consumer is  *)
(* a place in the program that calls consume(): each call makes up a new   *)
(* consumer name (line 137), but names matter only to a command that       *)
(* claims another consumer's pending entries, and the code has none.       *)
(***************************************************************************)
EXTENDS Naturals, Sequences, FiniteSets

CONSTANTS
  Consumers,   \* the loops that call consume(group)
  Events,      \* what can be published
  MaxLen,      \* XADD's MAXLEN: 10000 in the code
  MaxEvents,   \* bound on the stream's length when this module is run alone
  MaxFaults    \* bound: how many Redis commands fail or lose their reply

ASSUME ECAssumption ==
  /\ MaxLen \in Nat \ {0}
  /\ MaxEvents \in Nat
  /\ MaxFaults \in Nat

VARIABLES
  stream,    \* every entry XADD ever appended
  trimmed,   \* how many of the oldest entries MAXLEN has removed
  created,   \* the consumer group exists
  born,      \* the stream's length when the group was created
  last,      \* the group's last-delivered id
  pel,       \* the group's pending entries list: delivered, not acknowledged
  reader,    \* per consumer: where consume() is, and the entry it holds
  handled,   \* history: ids whose handler ran to its end
  faults     \* Redis failures so far

groupVars == <<created, born, last, pel>>
vars == <<stream, trimmed, groupVars, reader, handled, faults>>

\* "off": consume() not called; "create": awaiting XGROUP CREATE; "read":
\* awaiting XREADGROUP; "handle": the entry is yielded and the loop body is
\* suspended in an await; "ack": awaiting XACK; "ended": the generator is over.
ReaderPc == {"off", "create", "read", "handle", "ack", "ended"}

TypeOK ==
  /\ stream \in Seq(Events)
  /\ trimmed \in 0..Len(stream)
  /\ created \in BOOLEAN
  /\ born \in 0..Len(stream)
  /\ last \in born..Len(stream)
  /\ pel \subseteq born+1..last
  /\ reader \in [Consumers -> [pc : ReaderPc, cur : 0..last]]
  /\ handled \subseteq born+1..last
  /\ faults \in 0..MaxFaults

Init ==
  /\ stream = <<>>
  /\ trimmed = 0
  /\ created = FALSE
  /\ born = 0
  /\ last = 0
  /\ pel = {}
  /\ reader = [c \in Consumers |-> [pc |-> "off", cur |-> 0]]
  /\ handled = {}
  /\ faults = 0

(***************************************************************************)
(* Redis                                                                   *)
(***************************************************************************)

\* redis-py sends MAXLEN with "~": Redis removes old entries when it likes,
\* and never leaves fewer than MaxLen.
Trim(s) == {trimmed} \union {n \in trimmed..Len(s) : Len(s) - n >= MaxLen}

\* k copies of e are appended.  The client retries a command whose reply timed
\* out (retry_on_timeout, line 49) and XADD is not idempotent, so one call of
\* publish_event appends its event at most twice.
XAdd(e, k) ==
  /\ stream' = stream \o [i \in 1..k |-> e]
  /\ trimmed' \in Trim(stream')

Fault == faults < MaxFaults /\ faults' = faults + 1

\* Variant to be refuted: pending entries that no loop holds come back first, as
\* if a restarted consumer claimed them.
NextIdReclaims ==
  LET orphans == pel \ {reader[c].cur : c \in Consumers}
  IN  IF orphans # {} THEN CHOOSE n \in orphans : \A m \in orphans : n <= m
      ELSE (IF last < trimmed THEN trimmed ELSE last) + 1

\* The id XREADGROUP ">" would deliver to whoever asks next.
NextId == (IF last < trimmed THEN trimmed ELSE last) + 1

Goto(c, pc, cur) == reader' = [reader EXCEPT ![c] = [pc |-> pc, cur |-> cur]]

(***************************************************************************)
(* publish_event                                                           *)
(***************************************************************************)

\* publish_event returns.
PublishOK(e) ==
  \/ XAdd(e, 1) /\ UNCHANGED faults
  \/ Fault /\ XAdd(e, 2)

\* publish_event raises: the command may have been executed all the same.
PublishRaises(e) == Fault /\ \E k \in 0..2 : XAdd(e, k)

\* The caller is cancelled in the await: the command was sent or it was not.
PublishCancelled(e) == (\E k \in 0..1 : XAdd(e, k)) /\ UNCHANGED faults

PublishSome ==
  \E e \in Events : PublishOK(e) \/ PublishRaises(e) \/ PublishCancelled(e)

Quiet == UNCHANGED <<stream, trimmed, faults>>

\* Somebody publishes, one of this group's consumers or anybody else.
Publish == PublishSome /\ UNCHANGED <<groupVars, reader, handled>>

(***************************************************************************)
(* consume                                                                 *)
(***************************************************************************)

\* consume() is called; a later call of the same loop starts from scratch.
Consume(c) ==
  /\ reader[c].pc \in {"off", "ended"}
  /\ Goto(c, "create", 0)
  /\ UNCHANGED <<stream, trimmed, groupVars, handled, faults>>

\* Variant to be refuted: the group is created at "0" instead of "$".
XGroupCreateAtZero ==
  \/ created /\ UNCHANGED groupVars
  \/ /\ ~created
     /\ created' = TRUE
     /\ born' = Len(stream)
     /\ last' = 0
     /\ UNCHANGED pel

\* Variant to be refuted: BUSYGROUP is an error like any other.
XGroupCreateBusy ==
  /\ ~created
  /\ created' = TRUE
  /\ born' = Len(stream)
  /\ last' = Len(stream)
  /\ UNCHANGED pel

\* XGROUP CREATE ... $ MKSTREAM: a new group begins after everything that is
\* already in the stream; BUSYGROUP (the group exists) is not an error.
XGroupCreate ==
  \/ created /\ UNCHANGED groupVars
  \/ /\ ~created
     /\ created' = TRUE
     /\ born' = Len(stream)
     /\ last' = Len(stream)
     /\ UNCHANGED pel

\* XREADGROUP with ">" moves the group's cursor and puts the entry in the
\* pending list, in Redis, before the consumer sees it.
XReadGroup ==
  /\ NextId <= Len(stream)
  /\ last' = NextId
  /\ pel' = pel \union {NextId}
  /\ UNCHANGED <<created, born>>

XAck(n) ==
  /\ pel' = pel \ {n}
  /\ UNCHANGED <<created, born, last>>

CreateGroup(c) ==
  /\ reader[c].pc = "create"
  /\ XGroupCreate
  /\ Goto(c, "read", 0)
  /\ UNCHANGED <<stream, trimmed, handled, faults>>

\* Variant to be refuted: XREADGROUP with NOACK.
DeliverNoAck(c) ==
  /\ reader[c].pc = "read"
  /\ NextId <= Len(stream)
  /\ last' = NextId
  /\ Goto(c, "handle", NextId)
  /\ UNCHANGED <<stream, trimmed, created, born, pel, handled, faults>>

\* The entry is yielded and the loop body suspends.
Deliver(c) ==
  /\ reader[c].pc = "read"
  /\ XReadGroup
  /\ Goto(c, "handle", NextId)
  /\ UNCHANGED <<stream, trimmed, handled, faults>>

\* The entry is yielded and the loop body ends without suspending.
DeliverAndHandle(c) ==
  /\ reader[c].pc = "read"
  /\ XReadGroup
  /\ Goto(c, "ack", NextId)
  /\ handled' = handled \union {NextId}
  /\ UNCHANGED <<stream, trimmed, faults>>

\* The suspended loop body ends, the generator is resumed.
Handled(c) ==
  /\ reader[c].pc = "handle"
  /\ Goto(c, "ack", reader[c].cur)
  /\ handled' = handled \union {reader[c].cur}
  /\ UNCHANGED groupVars

\* The loop body may have been waiting for a publish of its own.
HandlerDone(c) == Handled(c) /\ (Quiet \/ PublishSome)

Ack(c) ==
  /\ reader[c].pc = "ack"
  /\ XAck(reader[c].cur)
  /\ Goto(c, "read", 0)
  /\ UNCHANGED <<stream, trimmed, handled, faults>>

\* XREADGROUP's reply is lost and the client sends the command again: the
\* entry was delivered to nobody.
LoseReply(c) ==
  /\ reader[c].pc = "read"
  /\ XReadGroup
  /\ Fault
  /\ UNCHANGED <<stream, trimmed, reader, handled>>

\* Variant to be refuted: consume() acknowledges in a finally clause.
AbandonAcks(c) ==
  /\ reader[c].pc # "off"
  /\ XAck(reader[c].cur)
  /\ Goto(c, "ended", 0)
  /\ UNCHANGED handled

\* The loop is over: a command of its own raised (lines 181-183), its task was
\* cancelled, the loop body raised (then the generator is never resumed) or its
\* process died.  The command under way may have been executed, and nobody
\* takes over the entry the loop holds.
Abandon(c) ==
  /\ reader[c].pc # "off"
  /\ \/ UNCHANGED groupVars
     \/ reader[c].pc = "create" /\ XGroupCreate
     \/ reader[c].pc = "read" /\ XReadGroup
     \/ reader[c].pc = "ack" /\ XAck(reader[c].cur)
  /\ Goto(c, "ended", 0)
  /\ UNCHANGED handled

Abandoned(c) == Abandon(c) /\ (Quiet \/ PublishSome)

RedisFails(c) ==
  /\ reader[c].pc \in {"create", "read", "ack"}
  /\ Abandon(c)
  /\ Fault
  /\ UNCHANGED <<stream, trimmed>>

OpenNext ==
  \/ Publish
  \/ \E c \in Consumers :
       \/ Consume(c)
       \/ CreateGroup(c)
       \/ Deliver(c)
       \/ DeliverAndHandle(c)
       \/ LoseReply(c)
       \/ HandlerDone(c)
       \/ Ack(c)
       \/ RedisFails(c)
       \/ Abandoned(c)

\* The stream grows without bound...
OpenSpec == Init /\ [][OpenNext]_vars

\* ... or, to be checked alone, up to MaxEvents entries.
Next == OpenNext /\ Len(stream') <= MaxEvents

Spec == Init /\ [][Next]_vars

(***************************************************************************)
(* What the event center promises                                          *)
(***************************************************************************)

\* An entry is in the hands of one consumer at most, whatever dies, restarts
\* or times out: no handler of the group ever works on another one's entry,
\* nor on one that was handled before.
HeldByOne ==
  \A c \in Consumers :
    reader[c].cur # 0 =>
      /\ \A d \in Consumers \ {c} : reader[d].cur # reader[c].cur
      /\ reader[c].pc = "handle" => reader[c].cur \notin handled
      /\ reader[c].cur \in pel

\* An entry the group is past was handled, or is still in the pending list for
\* an operator to find, or was trimmed from the stream: XACK follows the
\* handler, so no failure makes a loss invisible.
LossIsPending ==
  \A n \in born+1..last : n \in handled \union pel \/ n <= trimmed

\* Entries are handed out in the order of the stream, each once, across
\* consumers and across restarts: what a consumer gets is newer than all that
\* the group has handled or left pending.
InStreamOrder ==
  [][\A c \in Consumers :
       reader'[c].cur \notin {0, reader[c].cur} =>
         \A n \in handled \union pel : n < reader'[c].cur]_vars

=============================================================================
