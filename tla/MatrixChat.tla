----------------------------- MODULE MatrixChat -----------------------------
(* Both halves of the Matrix side: the sync loops that share the lease of an *)
(* account, and the handlers those loops call.  Each stands for the other in *)
(* its own module - a handler may return at any time or never, an event may  *)
(* be delivered anywhere and again - so that a behaviour of this module is   *)
(* one of the two components', the one that `focus` names.                   *)
EXTENDS SyncLease, ChatBridge

VARIABLE focus      \* the component that runs

chatVars == <<focus, leaseVars, bridgeVars>>

Init ==
    /\ focus \in {"sync", "bridge"}
    /\ LeaseInit
    /\ BridgeInit

SyncRuns ==
    /\ focus = "sync"
    /\ LeaseNext
    /\ UNCHANGED <<focus, bridgeVars>>

BridgeRuns ==
    /\ focus = "bridge"
    /\ BridgeNext
    /\ UNCHANGED <<focus, leaseVars>>

Next == SyncRuns \/ BridgeRuns

Spec == Init /\ [][Next]_chatVars

FairSpec == Spec /\ LeaseFairness

(* The loops and the handlers are well typed (matrix/sync.rs,                *)
(* lymaille/chat/bridge.rs).                                                 *)
ChatTypeOK == LeaseTypeOK /\ BridgeTypeOK
=============================================================================
