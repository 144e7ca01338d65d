---------------------------- MODULE AtomicStack -----------------------------
(***************************************************************************)
(* What CLockFreeStack promises its callers: every Push and Pop takes      *)
(* effect at one moment between its call and its return, on a stack that   *)
(* is last in, first out.  Pop returns false only if the stack was empty   *)
(* at such a moment.                                                       *)
(***************************************************************************)
EXTENDS Sequences

CONSTANTS Threads, Values,
          Empty         \* what Pop answers when there is nothing to take

VARIABLES content,      \* the stack, its top first
          op            \* what each thread is doing, and what its Pop took

vars == <<content, op>>

Idle == [kind |-> "idle"]
Pushes(v) == [kind |-> "push", val |-> v]
Pops == [kind |-> "pop"]
Popped(r) == [kind |-> "popped", val |-> r]

Init == /\ content = << >>
        /\ op = [t \in Threads |-> Idle]

Become(t, o) == op' = [op EXCEPT ![t] = o]

Call(t) ==
    /\ op[t] = Idle
    /\ Become(t, Pops) \/ \E v \in Values : Become(t, Pushes(v))
    /\ UNCHANGED content

(* Push has no result: its effect and its return are one *)
Push(t) ==
    /\ \E v \in Values : op[t] = Pushes(v) /\ content' = <<v>> \o content
    /\ Become(t, Idle)

Pop(t) ==
    /\ op[t] = Pops
    /\ \/ content # << >> /\ Become(t, Popped(Head(content)))
                          /\ content' = Tail(content)
       \/ content = << >> /\ Become(t, Popped(Empty)) /\ UNCHANGED content

Return(t) ==
    /\ \E r \in Values \cup {Empty} : op[t] = Popped(r)
    /\ Become(t, Idle)
    /\ UNCHANGED content

Next == \E t \in Threads : Call(t) \/ Push(t) \/ Pop(t) \/ Return(t)

Spec == Init /\ [][Next]_vars
=============================================================================
