------------------------------ MODULE Mailbox ------------------------------
(***************************************************************************)
(* What the sender of a message may count on, whatever the workers, the    *)
(* stream and the queues between them do: a message waits, then one worker *)
(* runs it, at most once, and then it is over; it may also be dropped      *)
(* while it waits.  One worker runs the messages of one thread one at a    *)
(* time and in the order they were sent.  Any number of messages may end   *)
(* or be dropped in one step (a STOP, a crash), and one may start in it.   *)
(***************************************************************************)
EXTENDS Naturals

CONSTANTS Workers, Threads

VARIABLES
  sent,     \* message id -> its thread, for every message sent so far
  waiting,  \* ids that may still be run
  running,  \* [msg, worker]: runs in progress
  over      \* [msg, worker]: runs that ended, in whichever way

vars == <<sent, waiting, running, over>>

Init ==
  /\ DOMAIN sent = {}
  /\ waiting = {}
  /\ running = {}
  /\ over = {}

\* New messages come after all the old ones, and no old one changes.
Send ==
  /\ DOMAIN sent \subseteq DOMAIN sent'
  /\ \A n \in DOMAIN sent : sent'[n] = sent[n]
  /\ \A n \in DOMAIN sent' \ DOMAIN sent, m \in DOMAIN sent : m < n

\* A message that is no longer waiting never waits again.
Drop == waiting' \subseteq waiting \union (DOMAIN sent' \ DOMAIN sent)

\* A run starts on a message that waited, never on two of a thread at once,
\* and never on a message sent before one the worker has run on the thread.
Start ==
  \A r \in running' \ running :
    /\ r.msg \in waiting \union (DOMAIN sent' \ DOMAIN sent)
    /\ r.msg \notin waiting'
    /\ \A p \in (running' \union over') \ {r} :
         /\ p.msg # r.msg
         /\ p.worker = r.worker /\ sent'[p.msg] = sent'[r.msg] =>
              p.msg < r.msg /\ p \in over'

\* A run ends once and stays so.
End ==
  /\ over \subseteq over'
  /\ over' \subseteq over \union running
  /\ running \subseteq running' \union over'
  /\ running' \intersect over' = {}

Next == Send /\ Drop /\ Start /\ End

Spec == Init /\ [][Next]_vars

=============================================================================
