--------------------------------- MODULE Events --------------------------------
(***************************************************************************)
(* The consumer of events together with the Safe contracts: the check of a *)
(* chain by a handler reads and fills the cache of SafeContractsService,   *)
(* its creation task goes to the workers, and a metadata task it sends for *)
(* a Safe deployment may insert the row of the deployment first.           *)
(***************************************************************************)
EXTENDS EventQueue, SafeContracts

CONSTANT
    ChainOf        \* the chainId of each event

(* The addresses of the deployments are the numbers of SafeContracts. *)
ASSUME ChainOfAssumption == ChainOf \in [Event -> Chain]

vars == <<queueVars, safeVars>>

TypeOK == QueueTypeOK /\ SafeTypeOK

Init == QueueInit /\ SafeInit

ProcessCheck(h) ==
    \E exists \in BOOLEAN :
        /\ CheckChain(h, exists)
        /\ SafeContractsExist(ChainOf[event[h]], exists)

ProcessCreate(h) ==
    /\ SendCreate(h)
    /\ CreateSent(ChainOf[event[h]])

HandlerStep(h) ==
    \/ ProcessCheck(h)
    \/ ProcessCreate(h)
    \/ LocalStep(h) /\ UNCHANGED safeVars

RestartWeb == StopWeb /\ ForgetCache

QueueOnly ==
    \/ \E e \in Event : Publish(e)
    \/ Connect
    \/ FailConnect
    \/ LoseConnection
    \/ \E h \in Handler : (\E e \in Event : Deliver(h, e)) \/ Raise(h)

(* get_contract_metadata_task for a contract that is a Safe deployment. *)
Download(e, d) ==
    /\ <<e, d>> \in sent
    /\ DownloadCreates(ChainOf[e], d)

Next ==
    \/ QueueOnly /\ UNCHANGED safeVars
    \/ \E h \in Handler : HandlerStep(h)
    \/ RestartWeb
    \/ WorkerNext /\ UNCHANGED queueVars
    \/ \E e \in Event, d \in Deployment : Download(e, d) /\ UNCHANGED queueVars

Spec == Init /\ [][Next]_vars

(* The event loop runs its callbacks, RabbitMQ delivers, a process that is  *)
(* down is started again, workers go on and take waiting messages, periodiq *)
(* sends the hourly task, and Redis expires keys.  Events, faults and       *)
(* downloads are not owed.                                                  *)
Fairness ==
    /\ \A h \in Handler : WF_vars(HandlerStep(h))
    /\ \A e \in Event : WF_vars((\E h \in Handler : Deliver(h, e)) /\ UNCHANGED safeVars)
    /\ WF_vars(Connect /\ UNCHANGED safeVars)
    /\ \A t \in Creator : WF_vars(CreatorStep(t) /\ UNCHANGED queueVars)
    /\ \A ch \in Chain :
        /\ WF_vars((\E t \in Creator : AcquireLock(t, ch) \/ FindLock(t, ch)) /\ UNCHANGED queueVars)
        /\ WF_vars(ExpireDeadLock(ch) /\ UNCHANGED queueVars)
    /\ WF_vars(UpdateNext /\ UNCHANGED queueVars)

FairSpec == Spec /\ Fairness

-----------------------------------------------------------------------------
(* Properties. *)

(* CreationsOwed: between the check of a chain, the send of its creation,   *)
(* the executions that meet each other's keys, fail and die, and the ack of *)
(* the event, the creation of a chain is never lost: an acknowledged event, *)
(* which nobody checks again, leaves a complete chain, a waiting message or *)
(* a running execution.  The exceptions are those of ChainsComplete.        *)
CreationsOwed ==
    \A e \in Event : Kind[e] = "call" /\ broker[e] = "acked" => Owed(ChainOf[e])

(* NothingForgotten: in every state the system still holds what it has to   *)
(* do: each event that RabbitMQ waits for has a callback that will answer,  *)
(* each chain of an acknowledged event its contracts or their creation.     *)
NothingForgotten == EventsHeld /\ CreationsOwed

(* What CreationsOwed rests on: a handler past the check and the send. *)
OwedInv ==
    /\ CreationsOwed
    /\ \A h \in Handler :
        hpc[h] = "send" /\ Kind[event[h]] = "call" => Owed(ChainOf[event[h]])

(* ChainsComplete: in the long run, a chain with an acknowledged event has  *)
(* all its Safe contracts, although events are not checked again and        *)
(* creations fail and die.  Exceptions: the last message of the chain was   *)
(* taken by an execution that met the key of a dead one, which ends as if   *)
(* another were creating (until the next event of the chain); and rows an   *)
(* administrator deleted.                                                   *)
ChainsComplete ==
    <>[](\A e \in Event :
            LET ch == ChainOf[e] IN
            Kind[e] = "call" /\ broker[e] = "acked" =>
                \/ ExistsSafeContracts(ch)
                \/ ch \in dropped
                \/ \E d \in Deployment : <<ch, d>> \in deleted)

(* InfoArrives: a deployment row gets its display name and its trust, also  *)
(* if a download created it before create_safe_contracts came by, which     *)
(* leaves an existing row alone.                                            *)
InfoArrives ==
    \A ch \in Chain, d \in Deployment :
        <<ch, d>> \in rows ~> <<ch, d>> \in named \/ <<ch, d>> \in deleted
==============================================================================
