--------------------------- MODULE MessageChannel ---------------------------
(***************************************************************************)
(* What a netchan promises its user, without packets or fragments: the     *)
(* messages handed to it leave in the order they were handed over, and     *)
(* those that arrive are whole, in that order, each at most once.  Any of  *)
(* them may be lost, and the ones still waiting may be given up together.  *)
(***************************************************************************)
EXTENDS Naturals, Sequences

CONSTANT Content  \* what a message may carry

VARIABLES waiting,    \* messages accepted and not yet put on the wire
          sent,       \* messages put on the wire, in order
          last,       \* index in sent of the newest message that arrived
          delivered   \* contents handed to the receiver, in order

vars == <<waiting, sent, last, delivered>>

Init == /\ waiting = <<>>
        /\ sent = <<>>
        /\ last = 0
        /\ delivered = <<>>

\* The user hands a message over; it goes straight out when nothing waits.
Submit(c) == /\ \/ waiting' = Append(waiting, c) /\ UNCHANGED sent
                \/ waiting = <<>> /\ sent' = Append(sent, c) /\ UNCHANGED waiting
             /\ UNCHANGED <<last, delivered>>

\* The oldest waiting message goes out.
Release == /\ waiting # <<>>
           /\ sent' = Append(sent, Head(waiting))
           /\ waiting' = Tail(waiting)
           /\ UNCHANGED <<last, delivered>>

\* The sender gives up everything that waits.
Abandon == /\ waiting' = <<>>
           /\ UNCHANGED <<sent, last, delivered>>

\* A message newer than every one that arrived before it arrives, whole.
Deliver(i) == /\ i > last
              /\ delivered' = Append(delivered, sent[i])
              /\ last' = i
              /\ UNCHANGED <<waiting, sent>>

Next == \/ \E c \in Content : Submit(c)
        \/ Release
        \/ Abandon
        \/ \E i \in 1 .. Len(sent) : Deliver(i)

Spec == Init /\ [][Next]_vars
=============================================================================
