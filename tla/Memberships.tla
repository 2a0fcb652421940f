----------------------------- MODULE Memberships -----------------------------
(* src/users/membership.rs: each login replaces the groups of the account by *)
(* those of its OIDC claim, in one transaction that reads the memberships,   *)
(* deletes the stale ones and inserts the missing ones.  Two logins of one   *)
(* account may overlap; logins of two accounts touch different rows, so one  *)
(* account is modelled.  The get-or-create of a group or an account, settled *)
(* by a unique constraint, is left out.                                      *)
EXTENDS Handlers

CONSTANT Groups     \* the groups a claim may name

VARIABLES
    memberOf,       \* miryad_group_memberships: the groups of the account
    loginPc,        \* what each login is about to do
    claim,          \* the groups its claim names
    seen,           \* the groups the transaction has read
    doomed,         \* the rows it will delete that are still there
    anyClaimed,     \* history: groups named by some login committed since it read
    allClaimed,     \* history: groups named by every login committed since it read
    allowed, owed   \* history: what the account may, and must, be a member of

loginVars == <<loginPc, claim, seen, doomed, anyClaimed, allClaimed>>
memberVars == <<memberOf, loginVars, allowed, owed>>

Reconciling(c) == loginPc[c] = "reconcile"

MemberTypeOK ==
    /\ memberOf \in SUBSET Groups
    /\ loginPc \in [Calls -> {"idle", "reconcile"}]
    /\ claim \in [Calls -> SUBSET Groups]
    /\ seen \in [Calls -> SUBSET Groups]
    /\ doomed \in [Calls -> SUBSET Groups]
    /\ anyClaimed \in [Calls -> SUBSET Groups]
    /\ allClaimed \in [Calls -> SUBSET Groups]
    /\ allowed \in SUBSET Groups
    /\ owed \in SUBSET Groups

MemberInit ==
    /\ memberOf = {}
    /\ loginPc = [c \in Calls |-> "idle"]
    /\ claim = [c \in Calls |-> {}]
    /\ seen = [c \in Calls |-> {}]
    /\ doomed = [c \in Calls |-> {}]
    /\ anyClaimed = [c \in Calls |-> {}]
    /\ allClaimed = [c \in Calls |-> {}]
    /\ allowed = {}
    /\ owed = {}

-----------------------------------------------------------------------------
(* Variant: the groups of the claim are added, the stale ones stay. *)
LoginAdds(c, names) ==
    /\ loginPc[c] = "idle"
    /\ loginPc' = [loginPc EXCEPT ![c] = "reconcile"]
    /\ claim' = [claim EXCEPT ![c] = names]
    /\ seen' = [seen EXCEPT ![c] = memberOf]
    /\ doomed' = [doomed EXCEPT ![c] = {}]
    /\ anyClaimed' = [anyClaimed EXCEPT ![c] = {}]
    /\ allClaimed' = [allClaimed EXCEPT ![c] = Groups]
    /\ UNCHANGED <<memberOf, allowed, owed>>

(* handler_callback, then the reads of reconcile_group_memberships.          *)
LoginReads(c, names) ==
    /\ loginPc[c] = "idle"
    /\ loginPc' = [loginPc EXCEPT ![c] = "reconcile"]
    /\ claim' = [claim EXCEPT ![c] = names]
    /\ seen' = [seen EXCEPT ![c] = memberOf]
    /\ doomed' = [doomed EXCEPT ![c] = memberOf \ names]
    /\ anyClaimed' = [anyClaimed EXCEPT ![c] = {}]
    /\ allClaimed' = [allClaimed EXCEPT ![c] = Groups]
    /\ UNCHANGED <<memberOf, allowed, owed>>

(* Rows are deleted by their id: a membership deleted and inserted again by  *)
(* another login is another row, which this transaction will not delete.     *)
Loses(c) == [d \in Calls |->
    IF d = c THEN {} ELSE doomed[d] \ doomed[c]]

LoginEnds(c) ==
    /\ loginPc' = [loginPc EXCEPT ![c] = "idle"]
    /\ claim' = [claim EXCEPT ![c] = {}]
    /\ seen' = [seen EXCEPT ![c] = {}]

(* The deletes, the inserts (ON CONFLICT DO NOTHING) and the commit.  They   *)
(* are one step: a transaction waits for the one that holds its rows.        *)
LoginCommits(c) ==
    /\ Reconciling(c)
    /\ memberOf' = (memberOf \ doomed[c]) \cup (claim[c] \ seen[c])
    /\ doomed' = Loses(c)
    /\ anyClaimed' = [d \in Calls |->
          IF d # c /\ Reconciling(d) THEN anyClaimed[d] \cup claim[c] ELSE {}]
    /\ allClaimed' = [d \in Calls |->
          IF d # c /\ Reconciling(d) THEN allClaimed[d] \cap claim[c] ELSE {}]
    /\ allowed' = claim[c] \cup anyClaimed[c]
    /\ owed' = claim[c] \cap allClaimed[c]
    /\ LoginEnds(c)

(* A database error, or a client that goes away: the transaction is rolled   *)
(* back.                                                                     *)
LoginFails(c) ==
    /\ Reconciling(c)
    /\ doomed' = [doomed EXCEPT ![c] = {}]
    /\ anyClaimed' = [anyClaimed EXCEPT ![c] = {}]
    /\ allClaimed' = [allClaimed EXCEPT ![c] = {}]
    /\ LoginEnds(c)
    /\ UNCHANGED <<memberOf, allowed, owed>>

MemberNext == \E c \in Calls :
    \/ \E names \in SUBSET Groups : LoginReads(c, names)
    \/ LoginCommits(c)
    \/ LoginFails(c)

-----------------------------------------------------------------------------
(* sync_group_memberships is a complete reconciliation, all or nothing: the  *)
(* account is a member of no group but those of the login that committed     *)
(* last and of the logins committed while it ran, and of every group they    *)
(* all named.  After a login that overlapped no other, its memberships are   *)
(* exactly its claim.                                                        *)
GroupsFromClaims == owed \subseteq memberOf /\ memberOf \subseteq allowed
=============================================================================
