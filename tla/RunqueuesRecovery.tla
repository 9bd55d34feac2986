--------------------------- MODULE RunqueuesRecovery ---------------------------
(***************************************************************************)
(* The workers of RedisWorker as runqueues starts them (_activate_worker): *)
(* each is the worker of one runqueues process, which creates it only when *)
(* ahas_pending finds something to dispatch.  A process that dies is       *)
(* replaced by another one, with a worker ID of its own.                   *)
(***************************************************************************)
EXTENDS RedisWorker

VARIABLE active     \* the workers that their processes have created

qvars == <<allvars, active>>

QInit == WInit /\ active = {}

\* QueueProviderRedis.ahas_pending: claims are not looked at.
HasPending == pending # <<>> \/ delayed # <<>> \/ scheduled # <<>>

ActivateWorker(w) ==
    /\ w \notin active /\ HasPending
    /\ active' = active \cup {w}
    /\ UNCHANGED allvars

Worker(w) ==
    /\ w \in active
    /\ Step(w) \/ RenewClaim(w) \/ Die(w)
    /\ UNCHANGED active

Outside == Environment /\ UNCHANGED active

QNext ==
    \/ \E w \in Workers : ActivateWorker(w) \/ Worker(w)
    \/ Outside

\* The processes are scheduled, time passes, and a worker that polls recovers.
QSpec ==
    /\ QInit /\ [][QNext]_qvars
    /\ \A w \in Workers :
          /\ WF_qvars(ActivateWorker(w))
          /\ WF_qvars(w \in active /\ Step(w) /\ UNCHANGED active)
          /\ SF_qvars(w \in active /\ NextRecover(w) /\ UNCHANGED active)
    /\ WF_qvars(Tick /\ UNCHANGED <<wvars, active>>)

-------------------------------------------------------------------------------
\* The entry of a worker that died is pending again in the end, or was finished
\* after all (openspec/specs/redis-claim-leases, "Recover expired claims").
CrashIsRecovered ==
    \A e \in Entries :
        (e \in DOMAIN claims /\ claims[e].deadline <= now)
            ~> (e \notin DOMAIN claims \/ claims[e].deadline > now)

===============================================================================
