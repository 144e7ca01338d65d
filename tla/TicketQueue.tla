---------------------------- MODULE TicketQueue -----------------------------
(***************************************************************************)
(* What CLockFreeQueue promises its callers.  An Enqueue appends its value *)
(* and then publishes it.  A Dequeue first reserves one published element, *)
(* or is refused; once it has a reservation it takes the first element of  *)
(* the queue and never comes back without one, which is what SendPost      *)
(* relies on when it ignores the result of Dequeue (CNetServer.cpp:472).   *)
(*                                                                         *)
(* The queue is weaker than an atomic one in one respect: a Dequeue may    *)
(* be refused although an element is there while another Dequeue is being  *)
(* refused, because both have _size decremented.                           *)
(***************************************************************************)
EXTENDS Integers, Sequences

CONSTANTS Threads, Values

VARIABLES content,      \* the queue, its first element first
          tickets,      \* published elements that nobody has reserved
          op            \* what each thread is doing

vars == <<content, tickets, op>>

Idle == [kind |-> "idle"]
Enqueues(v) == [kind |-> "enqueue", val |-> v]
Publishes == [kind |-> "publish"]
Refused == [kind |-> "refused"]
Reserved == [kind |-> "reserved"]
Took(v) == [kind |-> "took", val |-> v]

Init == /\ content = << >>
        /\ tickets = 0
        /\ op = [t \in Threads |-> Idle]

Become(t, from, to) == op[t] = from /\ op' = [op EXCEPT ![t] = to]

Enqueue(t) ==
    /\ \E v \in Values : Become(t, Idle, Enqueues(v))
    /\ UNCHANGED <<content, tickets>>

Link(t) ==
    /\ \E v \in Values : /\ Become(t, Enqueues(v), Publishes)
                         /\ content' = Append(content, v)
    /\ UNCHANGED tickets

Publish(t) ==
    /\ Become(t, Publishes, Idle)
    /\ tickets' = tickets + 1
    /\ UNCHANGED content

(* Dequeue is called: its first step reserves an element or is refused *)
Reserve(t) ==
    /\ Become(t, Idle, Reserved)
    /\ tickets > 0
    /\ tickets' = tickets - 1
    /\ UNCHANGED content

Refuse(t) ==
    /\ Become(t, Idle, Refused)
    /\ tickets = 0 \/ \E u \in Threads \ {t} : op[u] = Refused
    /\ UNCHANGED <<content, tickets>>

Take(t) ==
    /\ content # << >>
    /\ Become(t, Reserved, Took(Head(content)))
    /\ content' = Tail(content)
    /\ UNCHANGED tickets

Return(t) ==
    /\ Become(t, Refused, Idle) \/ \E v \in Values : Become(t, Took(v), Idle)
    /\ UNCHANGED <<content, tickets>>

Next == \E t \in Threads :
            \/ Enqueue(t) \/ Link(t) \/ Publish(t)
            \/ Reserve(t) \/ Refuse(t) \/ Take(t) \/ Return(t)

Spec == Init /\ [][Next]_vars
=============================================================================
