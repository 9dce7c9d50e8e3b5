------------------------------ MODULE EventDelivery ----------------------------
(***************************************************************************)
(* What the consumer of the events promises: an event is settled once, as  *)
(* handled when each of its contracts has got a download task, or dropped  *)
(* after an attempt that failed.  Tasks may be sent more than once.        *)
(***************************************************************************)
CONSTANTS
    Event,
    Contract,
    Wanted(_)      \* the contracts of an event that need a task

VARIABLES
    fate,          \* of each event: "unpublished", "pending", "handled", "dropped"
    tasks,         \* the pairs of an event and a contract a task was sent for
    failed         \* the events with an attempt that failed

vars == <<fate, tasks, failed>>

Init ==
    /\ fate = [e \in Event |-> "unpublished"]
    /\ tasks = {}
    /\ failed = {}

Publish(e) ==
    /\ fate[e] = "unpublished"
    /\ fate' = [fate EXCEPT ![e] = "pending"]
    /\ UNCHANGED <<tasks, failed>>

SendTask(e, c) ==
    /\ fate[e] # "unpublished"
    /\ c \in Wanted(e)
    /\ tasks' = tasks \union {<<e, c>>}
    /\ UNCHANGED <<fate, failed>>

Fail(e) ==
    /\ fate[e] # "unpublished"
    /\ failed' = failed \union {e}
    /\ UNCHANGED <<fate, tasks>>

Handle(e) ==
    /\ fate[e] = "pending"
    /\ \A c \in Wanted(e) : <<e, c>> \in tasks
    /\ fate' = [fate EXCEPT ![e] = "handled"]
    /\ UNCHANGED <<tasks, failed>>

Drop(e) ==
    /\ fate[e] = "pending"
    /\ e \in failed
    /\ fate' = [fate EXCEPT ![e] = "dropped"]
    /\ UNCHANGED <<tasks, failed>>

Next ==
    \E e \in Event :
        \/ Publish(e)
        \/ \E c \in Contract : SendTask(e, c)
        \/ Fail(e)
        \/ Handle(e)
        \/ Drop(e)

Spec == Init /\ [][Next]_vars
==============================================================================
