------------------------------ MODULE Resources ------------------------------
(* The REST and MCP calls on the rows of one resource, src/rest/core.rs, and *)
(* who may make them, src/rbac.rs.  A call reads the memberships of its      *)
(* caller, then the row, then writes, with neither lock nor transaction: the *)
(* memberships and the row may change in between.  Memberships change as any *)
(* login may change them (Memberships); what a row holds besides its owner,  *)
(* and the listing of rows, are left out.                                    *)
EXTENDS Handlers, Naturals

CONSTANTS
    Subjects,       \* callers
    Declarations,   \* the policies resources may declare, [read, write]
    MaxIds          \* bound: rows ever inserted

Policies == {"public", "owner", "admin", "group"}

ASSUME DeclarationsAssumption == Declarations \subseteq [read: Policies, write: Policies]
ASSUME SubjectsAssumption == None \notin Subjects
ASSUME MaxIdsAssumption == MaxIds \in Nat \ {0}

RowIds == 1 .. MaxIds
Roles == {"none", "team", "admin"}
Ops == {"get", "create", "update", "delete"}
CrudAnswers == {"idle", "done", "not_found"}
CrudPhases == CrudAnswers \cup {"admin", "member", "find", "weigh", "recheck", "write"}

VARIABLES
    policy,         \* MiryadResource::read_policy and write_policy, None until declared
    owned,          \* the resource declares an owner_column
    role,           \* a caller's group: "admin", the one of the policy, or neither
    record,         \* the owner of each row (who inserted it, if not owned), None when there is no row
    lastId,         \* ids drawn so far
    crudPc,         \* what each call is about to do, or its outcome
    caller, op, target,     \* the call
    existing,       \* the owner in the row it has read
    entitled        \* history: the calls whose caller was, at some instant since, entitled

crudCallVars == <<crudPc, caller, op, target, existing>>
resourceVars ==
    <<policy, owned, role, record, lastId, crudCallVars, entitled>>

Busy(c) == crudPc[c] \notin CrudAnswers
PolicyOf(o) == IF o = "get" THEN policy.read ELSE policy.write

ResourceTypeOK ==
    /\ policy \in Declarations \cup {None}
    /\ owned \in BOOLEAN
    /\ role \in [Subjects -> Roles]
    /\ record \in [RowIds -> Subjects \cup {None}]
    /\ lastId \in 0 .. MaxIds
    /\ crudPc \in [Calls -> CrudPhases]
    /\ caller \in [Calls -> Subjects \cup {None}]
    /\ op \in [Calls -> Ops]
    /\ target \in [Calls -> 0 .. MaxIds]
    /\ existing \in [Calls -> Subjects \cup {None}]
    /\ entitled \in SUBSET Calls
    /\ \A c \in Calls : Busy(c) <=> caller[c] # None

ResourceInit ==
    /\ policy = None
    /\ owned = FALSE
    /\ role = [u \in Subjects |-> "none"]
    /\ record = [i \in RowIds |-> None]
    /\ lastId = 0
    /\ crudPc = [c \in Calls |-> "idle"]
    /\ caller = [c \in Calls |-> None]
    /\ op = [c \in Calls |-> "get"]
    /\ target = [c \in Calls |-> 0]
    /\ existing = [c \in Calls |-> None]
    /\ entitled = {}

(* What access-control means, whoever looks at it and whenever: the admin    *)
(* group always may, and an OwnerOnly resource without an owner column is    *)
(* for them alone.                                                           *)
Entitled(u, o, i) ==
    \/ PolicyOf(o) = "public"
    \/ role[u] = "admin"
    \/ PolicyOf(o) = "group" /\ role[u] = "team"
    \/ PolicyOf(o) = "owner" /\ owned /\ (o = "create" \/ record[i] = u)

EntitledNow(c) == Busy(c) /\ Entitled(caller[c], op[c], target[c])

Witness == entitled' =
    {c \in Calls : EntitledNow(c)' \/ (c \in entitled /\ Busy(c)')}

-----------------------------------------------------------------------------
Goes(c, phase) ==
    /\ crudPc' = [crudPc EXCEPT ![c] = phase]
    /\ UNCHANGED <<caller, op, target>>

AnswersWith(c, outcome) ==
    /\ crudPc' = [crudPc EXCEPT ![c] = outcome]
    /\ caller' = [caller EXCEPT ![c] = None]
    /\ op' = [op EXCEPT ![c] = "get"]
    /\ target' = [target EXCEPT ![c] = 0]
    /\ existing' = [existing EXCEPT ![c] = None]

(* Forbidden, the error of a hook or of the database.                        *)
Refuses(c) == AnswersWith(c, "idle")

AdmittedPhase(o) == IF o = "create" THEN "write" ELSE "find"
SameRows == UNCHANGED <<role, record, lastId>>
Admits(c) == Goes(c, AdmittedPhase(op[c])) /\ UNCHANGED existing

(* The application declares its resource, before it serves.                   *)
Declare ==
    /\ policy = None
    /\ policy' \in Declarations
    /\ owned' \in BOOLEAN
    /\ SameRows
    /\ UNCHANGED crudCallVars

(* resolve_user, then can_create or static_verdict up to its first query.    *)
Begin(c, u, o, i) ==
    /\ policy # None
    /\ ~Busy(c)
    /\ caller' = [caller EXCEPT ![c] = u]
    /\ op' = [op EXCEPT ![c] = o]
    /\ target' = [target EXCEPT ![c] = IF o = "create" THEN 0 ELSE i]
    /\ crudPc' = [crudPc EXCEPT ![c] =
          IF PolicyOf(o) = "public" \/ (PolicyOf(o) = "owner" /\ owned /\ o = "create")
          THEN AdmittedPhase(o) ELSE "admin"]
    /\ UNCHANGED existing
    /\ SameRows

(* is_admin; without it the policy decides.                                  *)
AsksAdmin(c) ==
    /\ crudPc[c] = "admin"
    /\ LET decides == PolicyOf(op[c]) IN
       IF role[caller[c]] = "admin" THEN Admits(c) ELSE
       CASE decides = "group" -> Goes(c, "member") /\ UNCHANGED existing
         [] decides = "owner" /\ op[c] # "create" -> Goes(c, "weigh") /\ UNCHANGED existing
         [] OTHER -> Refuses(c)
    /\ SameRows

(* is_member. *)
AsksMember(c) ==
    /\ crudPc[c] = "member"
    /\ IF role[caller[c]] = "team" THEN Admits(c) ELSE Refuses(c)
    /\ SameRows

(* find_by_id, after a verdict that needs no row. *)
Find(c) ==
    /\ crudPc[c] = "find"
    /\ \/ record[target[c]] = None /\ AnswersWith(c, "not_found")
       \/ record[target[c]] # None /\ op[c] = "get" /\ AnswersWith(c, "done")
       \/ /\ record[target[c]] # None /\ op[c] # "get"
          /\ existing' = [existing EXCEPT ![c] = record[target[c]]]
          /\ Goes(c, "write")
    /\ SameRows

(* Variant: the row exists, which is taken for a right to it. *)
WeighBlindly(c) ==
    /\ crudPc[c] = "weigh"
    /\ \/ record[target[c]] = None /\ AnswersWith(c, "not_found")
       \/ /\ record[target[c]] # None
          /\ existing' = [existing EXCEPT ![c] = record[target[c]]]
          /\ Goes(c, "write")
    /\ SameRows

(* find_by_id, when the verdict depends on the row. *)
Weigh(c) ==
    /\ crudPc[c] = "weigh"
    /\ \/ record[target[c]] = None /\ AnswersWith(c, "not_found")
       \/ /\ record[target[c]] # None
          /\ existing' = [existing EXCEPT ![c] = record[target[c]]]
          /\ Goes(c, "recheck")
    /\ SameRows

(* can_read or can_write on the row in hand: is_admin again, then its owner. *)
MayTouch(c) == role[caller[c]] = "admin" \/ (owned /\ existing[c] = caller[c])

Recheck(c) ==
    /\ crudPc[c] = "recheck"
    /\ \/ ~MayTouch(c) /\ Refuses(c)
       \/ MayTouch(c) /\ op[c] = "get" /\ AnswersWith(c, "done")
       \/ MayTouch(c) /\ op[c] # "get" /\ Goes(c, "write") /\ UNCHANGED existing
    /\ SameRows

Writing(c, o) == crudPc[c] = "write" /\ op[c] = o

(* The row of create is the caller's, whatever the body says. *)
Insert(c) ==
    /\ Writing(c, "create")
    /\ lastId < MaxIds
    /\ lastId' = lastId + 1
    /\ record' = [record EXCEPT ![lastId + 1] = caller[c]]
    /\ AnswersWith(c, "done")
    /\ UNCHANGED role

(* Variant: the owner is injected as in create. *)
SaveAsCaller(c) ==
    /\ Writing(c, "update")
    /\ IF record[target[c]] = None
       THEN AnswersWith(c, "not_found") /\ UNCHANGED record
       ELSE /\ record' = [record EXCEPT ![target[c]] = IF owned THEN caller[c] ELSE @]
            /\ AnswersWith(c, "done")
    /\ UNCHANGED <<role, lastId>>

(* UPDATE of every column by id, with the owner of the row that was read: a  *)
(* row deleted since is not found.                                           *)
Save(c) ==
    /\ Writing(c, "update")
    /\ IF record[target[c]] = None
       THEN AnswersWith(c, "not_found") /\ UNCHANGED record
       ELSE /\ record' = [record EXCEPT ![target[c]] = IF owned THEN existing[c] ELSE @]
            /\ AnswersWith(c, "done")
    /\ UNCHANGED <<role, lastId>>

Remove(c) ==
    /\ Writing(c, "delete")
    /\ record' = [record EXCEPT ![target[c]] = None]
    /\ AnswersWith(c, IF record[target[c]] = None THEN "not_found" ELSE "done")
    /\ UNCHANGED <<role, lastId>>

(* A hook refuses, a query fails, the client goes away. *)
CrudFails(c) ==
    /\ Busy(c)
    /\ Refuses(c)
    /\ SameRows

(* A login changes the memberships; one who is both passes as the one or the *)
(* other, whichever is looked at.                                            *)
RoleChanges(u, r) ==
    /\ role' = [role EXCEPT ![u] = r]
    /\ UNCHANGED <<record, lastId, crudCallVars>>

CrudStep(c) ==
    \/ \E u \in Subjects, o \in Ops, i \in RowIds : Begin(c, u, o, i)
    \/ AsksAdmin(c) \/ AsksMember(c)
    \/ Find(c) \/ Weigh(c) \/ Recheck(c)
    \/ Insert(c) \/ Save(c) \/ Remove(c)
    \/ CrudFails(c)

Serves ==
    /\ \/ \E c \in Calls : CrudStep(c)
       \/ \E u \in Subjects, r \in Roles : RoleChanges(u, r)
    /\ UNCHANGED <<policy, owned>>

ResourceNext == (Declare \/ Serves) /\ Witness

-----------------------------------------------------------------------------
(* Memberships may change while a call runs, but it succeeds only for a      *)
(* caller who was entitled at some instant of the call, and so does it tell  *)
(* that a row does not exist, except under OwnerOnly (core.rs get, update,   *)
(* delete: nobody else learns whether the row exists).                       *)
AnswerOfAnEntitled ==
    \A c \in Calls :
        /\ Busy(c) /\ crudPc'[c] = "done" => c \in entitled
        /\ Busy(c) /\ crudPc'[c] = "not_found" /\ PolicyOf(op[c]) # "owner" => c \in entitled

AnswersEarned == [][AnswerOfAnEntitled]_resourceVars

(* A row is born to the caller that creates it, keeps its owner through the  *)
(* updates of others, and once deleted is never written back by an update    *)
(* that had read it (core.rs create, update, delete).                        *)
RowKeepsItsOwner ==
    \A i \in RowIds :
        \/ record'[i] \in {record[i], None}
        \/ i = lastId + 1 /\ \E c \in Calls : Writing(c, "create") /\ record'[i] = caller[c]

RowsKeepTheirOwner == [][RowKeepsItsOwner]_resourceVars
=============================================================================
