---------------------------- MODULE SessionTable ----------------------------
(***************************************************************************)
(* What CNetServer promises to the class that derives from it, stated on   *)
(* the callbacks alone (CNetServer.h:48-51): a session identifier is new   *)
(* when OnClientJoin announces it and names an index no other session has; *)
(* OnRecv is called for announced sessions only, by one thread at a time   *)
(* per session, and never overlaps or follows OnClientLeave.               *)
(***************************************************************************)
EXTENDS Integers

CONSTANTS Handlers,     \* the threads that call OnRecv
          Indexes,      \* the indexes an identifier may carry
          CntMax,       \* the value after which the counter wraps
          NoSession     \* a handler that is not in OnRecv

VARIABLES cnt,          \* the counter of accepted connections
          pending,      \* a connection is accepted and not yet announced
          sessions,     \* the announced identifiers
          handling      \* the session each handler is in OnRecv for

vars == <<cnt, pending, sessions, handling>>

Init == /\ cnt = 0
        /\ pending = FALSE
        /\ sessions = {}
        /\ handling = [h \in Handlers |-> NoSession]

(* a connection is accepted while some index is left *)
Accept ==
    /\ ~pending
    /\ \E i \in Indexes : \A j \in sessions : j.idx # i
    /\ pending' = TRUE
    /\ cnt' = IF cnt + 1 > CntMax THEN 1 ELSE cnt + 1
    /\ UNCHANGED <<sessions, handling>>

(* OnClientJoin, once per accepted connection *)
Join(i) ==
    /\ pending
    /\ \A j \in sessions : j.idx # i
    /\ pending' = FALSE
    /\ sessions' = sessions \cup {[cnt |-> cnt, idx |-> i]}
    /\ UNCHANGED <<cnt, handling>>

(* a worker enters and leaves the receive logic that calls OnRecv *)
Begin(h, j) ==
    /\ handling[h] = NoSession
    /\ j \in sessions
    /\ \A g \in Handlers : handling[g] # j
    /\ handling' = [handling EXCEPT ![h] = j]
    /\ UNCHANGED <<cnt, pending, sessions>>

End(h) ==
    /\ handling[h] # NoSession
    /\ handling' = [handling EXCEPT ![h] = NoSession]
    /\ UNCHANGED <<cnt, pending, sessions>>

(* OnClientLeave *)
Leave(j) ==
    /\ j \in sessions
    /\ \A h \in Handlers : handling[h] # j
    /\ sessions' = sessions \ {j}
    /\ UNCHANGED <<cnt, pending, handling>>

Next == \/ Accept
        \/ \E i \in Indexes : Join(i)
        \/ \E j \in sessions : Leave(j)
        \/ \E h \in Handlers : End(h) \/ \E j \in sessions : Begin(h, j)

Spec == Init /\ [][Next]_vars
=============================================================================
