----------------------------- MODULE SyncLease -----------------------------
(* src/matrix/sync.rs over the lease of src/matrix/store/crypto_account.rs:  *)
(* the replicas of one Matrix account, each in run_sync, of which one at a   *)
(* time is to hold the lease "miryad.matrix.sync" and to hand the messages   *)
(* of the server to the handler of the application.  Time is what remains of *)
(* the lease, in ticks of any length; the delays between two attempts are    *)
(* left out, as are the invitations and the filter of should_deliver.        *)
EXTENDS Deliveries

CONSTANT LeaseTicks     \* lease_ms

ASSUME LeaseAssumption == LeaseTicks \in Nat \ {0}

VARIABLES
    loop,       \* what run_sync is doing on each replica
    holder,     \* the row of matrix_leases: who holds the lease
    left,       \* and the ticks until it expires
    posted,     \* messages the server has, in the order of their numbers
    unread,     \* messages after the sync position of each replica
    batch,      \* messages of the last sync response, not yet delivered
    current,    \* the message whose handler the loop awaits
    late        \* history: sync responses taken since another replica took the lease

leaseVars == <<loop, holder, left, posted, unread, batch, current, late>>

(* "down": no run_sync.  "waiting": for the lease.  "initial": in            *)
(* initial_sync.  "polling": a sync request is out.  "delivering": the       *)
(* handlers of a response run.  "backoff": after an error worth a retry.     *)
LoopPhases == {"down", "waiting", "initial", "polling", "delivering", "backoff"}

(* The replicas whose position counts: initial_sync moves the others'. *)
Follows(r) == loop[r] \in {"polling", "delivering", "backoff"}

LeaseTypeOK ==
    /\ loop \in [Replicas -> LoopPhases]
    /\ holder \in Replicas \cup {None}
    /\ left \in 0 .. LeaseTicks
    /\ posted \in 0 .. MaxMessages
    /\ unread \in [Replicas -> SUBSET Messages]
    /\ batch \in [Replicas -> SUBSET Messages]
    /\ current \in [Replicas -> Messages \cup {None}]
    /\ late \in [Replicas -> Nat]
    /\ \A r \in Replicas :
        /\ current[r] # None \/ batch[r] # {} => loop[r] = "delivering"
        /\ unread[r] \cup batch[r] \subseteq 1 .. posted

LeaseInit ==
    /\ loop = [r \in Replicas |-> "down"]
    /\ holder = None
    /\ left = 0
    /\ posted = 0
    /\ unread = [r \in Replicas |-> {}]
    /\ batch = [r \in Replicas |-> {}]
    /\ current = [r \in Replicas |-> None]
    /\ late = [r \in Replicas |-> 0]

-----------------------------------------------------------------------------
(* try_take_leased_lock *)

(* Faulty: the row is not asked who holds it, or whether it has expired. *)
TakeableAlways(r) == TRUE

TakeableUnexpired(r) == holder \in {None, r}

(* No row, a row of this holder, or a row that has expired. *)
Takeable(r) == holder \in {None, r} \/ left = 0

Take(r) ==
    /\ holder' = r
    /\ left' = LeaseTicks
    /\ late' = [late EXCEPT ![r] = 0]

(* Back to waiting, the position is that of the next initial sync. *)
LosesLease(r) ==
    /\ loop' = [loop EXCEPT ![r] = "waiting"]
    /\ unread' = [unread EXCEPT ![r] = {}]
    /\ late' = [late EXCEPT ![r] = 0]
    /\ UNCHANGED <<holder, left>>

(* The two ways out of a renewal: the lease is kept, or run_sync goes back   *)
(* to waiting for it.                                                        *)
RenewThen(r, phase) ==
    \/ /\ Takeable(r)
       /\ Take(r)
       /\ loop' = [loop EXCEPT ![r] = phase]
       /\ UNCHANGED unread
    \/ /\ ~Takeable(r)
       /\ LosesLease(r)
-----------------------------------------------------------------------------
(* run_sync, refused while a loop of this process runs (sync_started). *)
Starts(r) ==
    /\ loop[r] = "down"
    /\ loop' = [loop EXCEPT ![r] = "waiting"]
    /\ UNCHANGED <<holder, left, posted, unread, batch, current, late>>

(* drive, step 1. *)
TakesLease(r) ==
    /\ loop[r] = "waiting"
    /\ Takeable(r)
    /\ Take(r)
    /\ loop' = [loop EXCEPT ![r] = "initial"]
    /\ UNCHANGED <<posted, unread, batch, current>>

(* initial_sync: the position moves to the end and nothing is delivered.     *)
(* After an error worth a retry, drive starts again.                         *)
InitialSync(r) ==
    /\ loop[r] = "initial"
    /\ loop' \in {[loop EXCEPT ![r] = "polling"], [loop EXCEPT ![r] = "waiting"]}
    /\ UNCHANGED <<holder, left, posted, unread, batch, current, late>>

(* A sync response: what came after the position, the handlers called with   *)
(* one message after the other.                                              *)
PollAnswers(r) ==
    /\ loop[r] = "polling"
    /\ loop' = [loop EXCEPT ![r] = "delivering"]
    /\ batch' = [batch EXCEPT ![r] = unread[r]]
    /\ unread' = [unread EXCEPT ![r] = {}]
    /\ late' = [late EXCEPT ![r] = IF holder = r THEN @ ELSE @ + 1]
    /\ UNCHANGED <<holder, left, posted, current>>

PollFails(r) ==
    /\ loop[r] = "polling"
    /\ loop' = [loop EXCEPT ![r] = "backoff"]
    /\ UNCHANGED <<holder, left, posted, unread, batch, current, late>>

(* sync_while_leased after back_off. *)
Retries(r) ==
    /\ loop[r] = "backoff"
    /\ RenewThen(r, "polling")
    /\ UNCHANGED <<posted, batch, current>>

(* deliver: the handler runs in a task of its own, which the loop awaits. *)
Delivers(r) ==
    /\ loop[r] = "delivering"
    /\ current[r] = None
    /\ \E m \in batch[r] :
        /\ \A n \in batch[r] : m <= n
        /\ current' = [current EXCEPT ![r] = m]
        /\ batch' = [batch EXCEPT ![r] = @ \ {m}]
    /\ UNCHANGED <<loop, holder, left, posted, unread, late>>

(* The handler returns when it likes. *)
Returns(r) ==
    /\ current[r] # None
    /\ current' = [current EXCEPT ![r] = None]
    /\ UNCHANGED <<loop, holder, left, posted, unread, batch, late>>

(* Faulty: the callback goes on whatever the renewal answers. *)
RenewsAnyway(r) ==
    /\ loop[r] = "delivering"
    /\ batch[r] = {} /\ current[r] = None
    /\ loop' = [loop EXCEPT ![r] = "polling"]
    /\ IF Takeable(r) THEN Take(r) ELSE UNCHANGED <<holder, left, late>>
    /\ UNCHANGED <<posted, unread, batch, current>>

(* The callback of sync_with_callback, once the handlers have returned; a    *)
(* failure of the store counts as a lost lease.                              *)
Renews(r) ==
    /\ loop[r] = "delivering"
    /\ batch[r] = {} /\ current[r] = None
    /\ \/ RenewThen(r, "polling")
       \/ LosesLease(r)
    /\ UNCHANGED <<posted, batch, current>>

(* Faulty: the handler of a loop that has stopped is still awaited. *)
LeavesBusy(r) ==
    /\ loop[r] # "down"
    /\ loop' = [loop EXCEPT ![r] = "down"]
    /\ batch' = [batch EXCEPT ![r] = {}]
    /\ unread' = [unread EXCEPT ![r] = {}]
    /\ late' = [late EXCEPT ![r] = 0]
    /\ UNCHANGED <<posted, current>>

(* What a process that leaves run_sync forgets; its position is not kept. *)
Leaves(r) ==
    /\ loop[r] # "down"
    /\ loop' = [loop EXCEPT ![r] = "down"]
    /\ batch' = [batch EXCEPT ![r] = {}]
    /\ current' = [current EXCEPT ![r] = None]
    /\ unread' = [unread EXCEPT ![r] = {}]
    /\ late' = [late EXCEPT ![r] = 0]
    /\ UNCHANGED posted

(* Shutdown, or an error not worth a retry: release_lease takes the lease    *)
(* for one millisecond, less than a tick; it may fail.                       *)
Stops(r) ==
    /\ Leaves(r)
    /\ \/ Takeable(r) /\ holder' = r /\ left' = 0
       \/ UNCHANGED <<holder, left>>

(* The process dies. *)
Crashes(r) ==
    /\ Leaves(r)
    /\ UNCHANGED <<holder, left>>

(* The server gets a message. *)
GetsMessage ==
    /\ posted < MaxMessages
    /\ posted' = posted + 1
    /\ unread' = [r \in Replicas |->
                    IF Follows(r) THEN unread[r] \cup {posted + 1} ELSE unread[r]]
    /\ UNCHANGED <<loop, holder, left, batch, current, late>>

LeaseTick ==
    /\ left' = IF left > 0 THEN left - 1 ELSE 0
    /\ UNCHANGED <<loop, holder, posted, unread, batch, current, late>>

LoopStep(r) ==
    \/ TakesLease(r) \/ InitialSync(r)
    \/ PollAnswers(r) \/ PollFails(r) \/ Retries(r)
    \/ Delivers(r) \/ Renews(r)

LeaseNext ==
    \/ \E r \in Replicas :
        LoopStep(r) \/ Returns(r) \/ Starts(r) \/ Stops(r) \/ Crashes(r)
    \/ GetsMessage
    \/ LeaseTick

(* Time passes, and a process that is up goes on; a handler may never end.   *)
LeaseFairness ==
    /\ WF_leaseVars(LeaseTick)
    /\ \A r \in Replicas : WF_leaseVars(LoopStep(r))

-----------------------------------------------------------------------------
(* A lease passes to another replica only once it has expired                *)
(* (crypto_account.rs try_take_leased_lock).                                 *)
LeaseKept == [][holder # None /\ left > 0 => holder' = holder]_leaseVars

(* A replica that lost its lease takes one more sync response at most, then  *)
(* stops (sync.rs sync_while_leased, drive).                                 *)
OneLateResponse == \A r \in Replicas : late[r] <= 1

(* A replica that waits for the lease gets it unless another goes on syncing, *)
(* even when the loop of the holder is held by a handler that never returns  *)
(* (sync.rs drive, deliver; crypto_account.rs try_take_leased_lock).         *)
WaiterLeads ==
    \A r \in Replicas :
        loop[r] = "waiting" ~>
            \/ loop[r] # "waiting"
            \/ \E q \in Replicas \ {r} : loop[q] \in {"initial", "polling", "backoff"}
=============================================================================
