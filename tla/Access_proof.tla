---------------------------- MODULE Access_proof ----------------------------
(* Proofs about the memberships, the resources and the API tokens of Stores: *)
(* for any number of logins, calls, groups, callers, rows and tokens, and    *)
(* any declared policies.                                                    *)
EXTENDS Stores, TLAPS

-----------------------------------------------------------------------------
(* Memberships.  While a login reconciles, what it has read and not been     *)
(* told of since still stands, and what came since was claimed since.        *)
Reconciled(c) ==
    /\ memberOf \subseteq seen[c] \cup anyClaimed[c]
    /\ (memberOf \cap seen[c]) \ claim[c] \subseteq doomed[c] \cup anyClaimed[c]
    /\ seen[c] \cap allClaimed[c] \subseteq memberOf
    /\ doomed[c] \subseteq seen[c] \ claim[c]

LoginSound ==
    /\ MemberTypeOK
    /\ \A c \in Calls : Reconciling(c) => Reconciled(c)
    /\ GroupsFromClaims

(* A new account is in no group. *)
LEMMA LoginInit == Init => LoginSound
BY DEF Init, MemberInit, LoginSound, MemberTypeOK, Reconciling, GroupsFromClaims

(* A commit takes away nothing it claims, and leaves what others claimed.    *)
LEMMA CommitKeeps ==
    ASSUME LoginSound, NEW c \in Calls, LoginCommits(c)
    PROVE  LoginSound'
<1>t. MemberTypeOK /\ Reconciling(c) /\ Reconciled(c)
  BY DEF LoginSound, LoginCommits
<1>1. MemberTypeOK'
  BY <1>t DEF LoginCommits, LoginEnds, Loses, MemberTypeOK
<1>2. GroupsFromClaims'
  BY <1>t DEF LoginCommits, GroupsFromClaims, Reconciled
<1>3. ASSUME NEW d \in Calls, Reconciling(d)'
      PROVE  Reconciled(d)'
  <2>1. d # c /\ Reconciling(d) /\ Reconciled(d)
    BY <1>3, <1>t DEF LoginCommits, LoginEnds, Reconciling, MemberTypeOK, LoginSound
  <2>2. /\ memberOf' = (memberOf \ doomed[c]) \cup (claim[c] \ seen[c])
        /\ doomed'[d] = doomed[d] \ doomed[c]
        /\ anyClaimed'[d] = anyClaimed[d] \cup claim[c]
        /\ allClaimed'[d] = allClaimed[d] \cap claim[c]
        /\ seen'[d] = seen[d] /\ claim'[d] = claim[d]
    BY <2>1, <1>t DEF LoginCommits, LoginEnds, Loses, MemberTypeOK
  <2> QED BY <2>1, <2>2, <1>t DEF Reconciled
<1> QED BY <1>1, <1>2, <1>3 DEF LoginSound

(* Every step of a login keeps that. *)
LEMMA LoginNext ==
    ASSUME LoginSound, MemberNext
    PROVE  LoginSound'
<1>1. ASSUME NEW c \in Calls, NEW names \in SUBSET Groups, LoginReads(c, names)
      PROVE  LoginSound'
  <2>1. MemberTypeOK' /\ GroupsFromClaims'
    BY <1>1 DEF LoginReads, LoginSound, MemberTypeOK, GroupsFromClaims
  <2>2. ASSUME NEW d \in Calls, Reconciling(d)'
        PROVE  Reconciled(d)'
    BY <1>1, <2>2 DEF LoginReads, LoginSound, MemberTypeOK, Reconciling, Reconciled
  <2> QED BY <2>1, <2>2 DEF LoginSound
<1>2. ASSUME NEW c \in Calls, LoginFails(c)
      PROVE  LoginSound'
  <2>1. MemberTypeOK' /\ GroupsFromClaims'
    BY <1>2 DEF LoginFails, LoginEnds, LoginSound, MemberTypeOK, GroupsFromClaims
  <2>2. ASSUME NEW d \in Calls, Reconciling(d)'
        PROVE  Reconciled(d)'
    BY <1>2, <2>2 DEF LoginFails, LoginEnds, LoginSound, MemberTypeOK, Reconciling, Reconciled
  <2> QED BY <2>1, <2>2 DEF LoginSound
<1> QED BY <1>1, <1>2, CommitKeeps DEF MemberNext

(* The other components leave the memberships alone. *)
LEMMA LoginKept == LoginSound /\ [Next]_storesVars => LoginSound'
<1> SUFFICES ASSUME LoginSound, [Next]_storesVars
             PROVE  LoginSound'
  OBVIOUS
<1>1. CASE UNCHANGED memberVars
  BY <1>1 DEF memberVars, loginVars, LoginSound, MemberTypeOK, Reconciling, Reconciled,
              GroupsFromClaims
<1>2. CASE LoginsRun
  BY <1>2, LoginNext DEF LoginsRun
<1> QED BY <1>1, <1>2
       DEF Next, DraftsRun, BatchRuns, LinksRun, RowsRun, TokensRun, MatrixRuns, storesVars, accessVars

(* The account is a member of the groups its logins claimed, and of no other *)
(* (membership.rs sync_group_memberships, reconcile_group_memberships).      *)
THEOREM GroupsFromClaimsAlways == Spec => []GroupsFromClaims
<1>1. Spec => []LoginSound
  BY LoginInit, LoginKept, PTL DEF Spec
<1>2. LoginSound => GroupsFromClaims
  BY DEF LoginSound
<1> QED BY <1>1, <1>2, PTL

-----------------------------------------------------------------------------
(* Resources.  A call that was let through was entitled at some instant; the *)
(* row it holds is as it read it, or gone.                                   *)
Admitted(c) == crudPc[c] \in {"find", "write"}
ByOwner(c) == crudPc[c] \in {"weigh", "recheck"}

CallSound(c) ==
    /\ Busy(c) => policy # None
    /\ Busy(c) /\ op[c] # "create" => target[c] \in RowIds
    /\ existing[c] # None => Busy(c)
    /\ existing[c] # None =>
          target[c] \in 1 .. lastId /\ record[target[c]] \in {existing[c], None}
    /\ EntitledNow(c) => c \in entitled
    /\ Admitted(c) => c \in entitled
    /\ crudPc[c] = "find" => op[c] # "create"
    /\ ByOwner(c) => PolicyOf(op[c]) = "owner" /\ op[c] # "create"
    /\ crudPc[c] = "member" => PolicyOf(op[c]) = "group"
    /\ crudPc[c] = "recheck" =>
          existing[c] # None /\ (owned /\ existing[c] = caller[c] => c \in entitled)
    /\ Writing(c, "update") => existing[c] # None

CrudSound ==
    /\ ResourceTypeOK
    /\ \A i \in RowIds : i > lastId => record[i] = None
    /\ \A c \in Calls : CallSound(c)

(* Before the first call there is no row. *)
LEMMA CrudInit == Init => CrudSound
<1> SUFFICES ASSUME ResourceInit
             PROVE  CrudSound
  BY DEF Init
<1>1. \A c \in Calls : ~Busy(c)
  BY DEF ResourceInit, Busy, CrudAnswers
<1>2. ResourceTypeOK
  <2>1. "idle" \in CrudPhases /\ "get" \in Ops /\ "none" \in Roles /\ 0 \in 0 .. MaxIds
    BY MaxIdsAssumption DEF CrudPhases, CrudAnswers, Ops, Roles
  <2> QED BY <1>1, <2>1 DEF ResourceInit, ResourceTypeOK
<1>3. \A c \in Calls : CallSound(c)
  BY <1>1 DEF ResourceInit, CallSound, EntitledNow, Admitted, ByOwner, Writing
<1> QED BY <1>2, <1>3 DEF CrudSound, ResourceInit

(* What the steps of others may do to the rows: bring a new one, take one    *)
(* away.                                                                     *)
RowsEvolve ==
    /\ lastId' \in 0 .. MaxIds /\ lastId' >= lastId
    /\ record' \in [RowIds -> Subjects \cup {None}]
    /\ \A i \in 1 .. lastId : record'[i] \in {record[i], None}
    /\ \A i \in RowIds : i > lastId' => record'[i] = None

CallUnchanged(e) ==
    /\ crudPc'[e] = crudPc[e] /\ caller'[e] = caller[e] /\ op'[e] = op[e]
    /\ target'[e] = target[e] /\ existing'[e] = existing[e]

(* The witness remembers who was entitled. *)
LEMMA Remembers ==
    ASSUME Witness, NEW e \in Calls, EntitledNow(e)' \/ (e \in entitled /\ Busy(e)')
    PROVE  e \in entitled'
BY DEF Witness

(* A call that does not act stays sound. *)
LEMMA OthersKeep ==
    ASSUME CrudSound, NEW e \in Calls, CallUnchanged(e), RowsEvolve, Witness,
           UNCHANGED <<policy, owned>>
    PROVE  CallSound(e)'
<1>1. CallSound(e) /\ ResourceTypeOK
  BY DEF CrudSound
<1>2. Busy(e)' <=> Busy(e)
  BY DEF Busy, CallUnchanged
<1>3. e \in entitled /\ Busy(e) => e \in entitled'
  BY <1>2, Remembers
<1>4. EntitledNow(e)' => e \in entitled'
  BY Remembers
<1>5. Admitted(e) \/ crudPc[e] = "recheck" => Busy(e)
  BY DEF Admitted, Busy, CrudAnswers
<1>6. existing'[e] # None =>
         target'[e] \in 1 .. lastId' /\ record'[target'[e]] \in {existing'[e], None}
  BY <1>1 DEF CallSound, CallUnchanged, RowsEvolve, ResourceTypeOK
<1> QED BY <1>1, <1>2, <1>3, <1>4, <1>5, <1>6
        DEF CallSound, CallUnchanged, Admitted, ByOwner, Writing, PolicyOf

(* Nothing but what a call does to itself decides whether it is sound.       *)
Frame == Witness /\ UNCHANGED <<policy, owned>>

LEMMA ActingKeeps ==
    ASSUME CrudSound, NEW c \in Calls, Frame, RowsEvolve, ResourceTypeOK',
           \A e \in Calls \ {c} : CallUnchanged(e), CallSound(c)'
    PROVE  CrudSound'
<1>1. \A e \in Calls \ {c} : CallSound(e)'
  BY OthersKeep DEF Frame
<1> QED BY <1>1 DEF CrudSound, RowsEvolve

(* A call that ends is idle. *)
LEMMA CallEndKeeps ==
    ASSUME CrudSound, NEW c \in Calls, Frame, RowsEvolve, UNCHANGED role,
           NEW outcome \in CrudAnswers, AnswersWith(c, outcome)
    PROVE  CrudSound'
<1>t. ResourceTypeOK
  BY DEF CrudSound
<1>1. ~Busy(c)'
  BY <1>t DEF AnswersWith, Busy, ResourceTypeOK
<1>2. \A e \in Calls \ {c} : CallUnchanged(e)
  BY <1>t DEF AnswersWith, CallUnchanged, ResourceTypeOK
<1>3. CallSound(c)'
  <2>1. existing'[c] = None
    BY <1>t DEF AnswersWith, ResourceTypeOK
  <2> QED BY <1>1, <2>1 DEF CallSound, EntitledNow, Admitted, ByOwner, Writing, Busy, CrudAnswers
<1>4. ResourceTypeOK'
  <2>1. \A e \in Calls : Busy(e)' <=> caller'[e] # None
    BY <1>1, <1>2, <1>t DEF AnswersWith, Busy, CallUnchanged, ResourceTypeOK
  <2>2. /\ crudPc' \in [Calls -> CrudPhases] /\ op' \in [Calls -> Ops]
        /\ caller' \in [Calls -> Subjects \cup {None}]
        /\ existing' \in [Calls -> Subjects \cup {None}]
        /\ target' \in [Calls -> 0 .. MaxIds]
    BY <1>t, MaxIdsAssumption DEF AnswersWith, ResourceTypeOK, CrudPhases, Ops
  <2>3. entitled' \in SUBSET Calls
    BY DEF Frame, Witness
  <2> QED BY <1>t, <2>1, <2>2, <2>3 DEF ResourceTypeOK, Frame, RowsEvolve
<1> QED BY <1>1, <1>2, <1>3, <1>4, ActingKeeps

(* The rows do not move. *)
LEMMA SameRowsEvolve ==
    ASSUME CrudSound, SameRows
    PROVE  RowsEvolve /\ UNCHANGED role
BY MaxIdsAssumption DEF CrudSound, SameRows, RowsEvolve, ResourceTypeOK, RowIds

(* A call that goes on is sound if its new phase is deserved.                *)
LEMMA GoesKeeps ==
    ASSUME CrudSound, NEW c \in Calls, Frame, SameRows, Busy(c),
           NEW phase \in CrudPhases \ CrudAnswers, Goes(c, phase),
           \/ UNCHANGED existing
           \/ /\ record[target[c]] # None /\ op[c] # "create"
              /\ existing' = [existing EXCEPT ![c] = record[target[c]]],
           phase \in {"find", "write"} => c \in entitled \/ EntitledNow(c)',
           phase = "find" => op[c] # "create",
           phase \in {"weigh", "recheck"} => PolicyOf(op[c]) = "owner" /\ op[c] # "create",
           phase = "member" => PolicyOf(op[c]) = "group",
           phase = "recheck" => existing'[c] = record[target[c]] /\ existing'[c] # None,
           phase = "write" /\ op[c] = "update" => existing'[c] # None
    PROVE  CrudSound'
<1>t. ResourceTypeOK /\ CallSound(c)
  BY DEF CrudSound
<1>e. RowsEvolve /\ UNCHANGED role
  BY SameRowsEvolve
<1>1. crudPc'[c] = phase /\ Busy(c)'
  BY <1>t DEF Goes, Busy, ResourceTypeOK
<1>2. \A e \in Calls \ {c} : CallUnchanged(e)
  BY <1>t DEF Goes, CallUnchanged, ResourceTypeOK
<1>3. UNCHANGED <<policy, owned, record, lastId, caller, op, target>>
  BY DEF Goes, SameRows, Frame
<1>4. existing'[c] # None => target[c] \in 1 .. lastId /\ record[target[c]] \in {existing'[c], None}
  <2>1. CASE UNCHANGED existing
    BY <2>1, <1>t DEF CallSound
  <2>2. CASE /\ record[target[c]] # None /\ op[c] # "create"
             /\ existing' = [existing EXCEPT ![c] = record[target[c]]]
    <3>1. target[c] \in RowIds
      BY <2>2, <1>t DEF CallSound
    <3>2. ~(target[c] > lastId)
      BY <2>2, <3>1 DEF CrudSound
    <3> QED BY <2>2, <3>1, <3>2, <1>t, MaxIdsAssumption DEF RowIds, ResourceTypeOK
  <2> QED BY <2>1, <2>2
<1>5. c \in entitled \/ EntitledNow(c)' => c \in entitled'
  BY <1>1, Remembers DEF Frame
<1>6. phase = "recheck" /\ owned /\ existing'[c] = caller[c] => c \in entitled'
  <2> SUFFICES ASSUME phase = "recheck", owned, existing'[c] = caller[c]
               PROVE  EntitledNow(c)'
    BY <1>5
  <2>1. PolicyOf(op[c])' = "owner" /\ record'[target'[c]] = caller'[c] /\ owned'
    BY <1>3 DEF PolicyOf
  <2> QED BY <2>1, <1>1, <1>3 DEF EntitledNow, Entitled, PolicyOf
<1>7. CallSound(c)'
  <2>1. EntitledNow(c)' => c \in entitled'
    BY <1>5
  <2> QED BY <1>1, <1>3, <1>4, <1>5, <1>6, <2>1, <1>t
          DEF CallSound, Admitted, ByOwner, Writing, PolicyOf
<1>8. ResourceTypeOK'
  <2>1. \A e \in Calls : Busy(e)' <=> caller'[e] # None
    BY <1>1, <1>2, <1>3, <1>t DEF Busy, CallUnchanged, ResourceTypeOK
  <2>2. crudPc' \in [Calls -> CrudPhases] /\ existing' \in [Calls -> Subjects \cup {None}]
    <3>1. CASE UNCHANGED existing
      BY <3>1, <1>t DEF Goes, ResourceTypeOK
    <3>2. CASE /\ record[target[c]] # None /\ op[c] # "create"
               /\ existing' = [existing EXCEPT ![c] = record[target[c]]]
      <4>1. target[c] \in RowIds
        BY <3>2, <1>t DEF CallSound
      <4> QED BY <3>2, <4>1, <1>t DEF Goes, ResourceTypeOK
    <3> QED BY <3>1, <3>2
  <2>3. entitled' \in SUBSET Calls
    BY DEF Frame, Witness
  <2> QED BY <1>t, <1>3, <1>e, <2>1, <2>2, <2>3 DEF ResourceTypeOK, Frame
<1> QED BY <1>2, <1>7, <1>8, <1>e, ActingKeeps

(* What each step must do: keep the calls sound, the rows with their owners, *)
(* and answer only the entitled.                                             *)
Kept == CrudSound' /\ RowKeepsItsOwner /\ AnswerOfAnEntitled

(* The rows do not move: their owners neither. *)
LEMMA SameRowsOwners == SameRows => RowKeepsItsOwner
BY DEF SameRows, RowKeepsItsOwner

(* A call that goes on answers nobody. *)
LEMMA GoesAnswers ==
    ASSUME CrudSound, NEW c \in Calls, NEW phase \in CrudPhases \ CrudAnswers, Goes(c, phase)
    PROVE  AnswerOfAnEntitled
BY DEF CrudSound, ResourceTypeOK, Goes, AnswerOfAnEntitled, Busy, CrudAnswers

(* A call that answers must be entitled to. *)
LEMMA EndAnswers ==
    ASSUME CrudSound, NEW c \in Calls, NEW outcome \in CrudAnswers, AnswersWith(c, outcome),
           \/ outcome = "idle" \/ c \in entitled
           \/ outcome = "not_found" /\ PolicyOf(op[c]) = "owner"
    PROVE  AnswerOfAnEntitled
BY DEF CrudSound, ResourceTypeOK, AnswersWith, AnswerOfAnEntitled, Busy, CrudAnswers

(* A call ends with its rows untouched. *)
LEMMA EndKeeps ==
    ASSUME CrudSound, NEW c \in Calls, Frame, SameRows, NEW outcome \in CrudAnswers,
           AnswersWith(c, outcome),
           \/ outcome = "idle" \/ c \in entitled
           \/ outcome = "not_found" /\ PolicyOf(op[c]) = "owner"
    PROVE  Kept
<1>1. CrudSound'
  BY SameRowsEvolve, CallEndKeeps
<1> QED BY <1>1, SameRowsOwners, EndAnswers DEF Kept

(* The verdict of the policy, before any row is read. *)
LEMMA VerdictKeeps ==
    ASSUME CrudSound, NEW c \in Calls, Frame, AsksAdmin(c) \/ AsksMember(c)
    PROVE  Kept
<1>t. ResourceTypeOK /\ CallSound(c)
  BY DEF CrudSound
<1>b. Busy(c) /\ op[c] \in Ops /\ SameRows
  BY <1>t DEF AsksAdmin, AsksMember, Busy, CrudAnswers, ResourceTypeOK
<1>1. ASSUME Admits(c), \/ role[caller[c]] = "admin"
                        \/ PolicyOf(op[c]) = "group" /\ role[caller[c]] = "team"
      PROVE  Kept
  <2>1. EntitledNow(c)
    BY <1>1, <1>b DEF EntitledNow, Entitled
  <2>2. c \in entitled
    BY <2>1, <1>t DEF CallSound
  <2>3. AdmittedPhase(op[c]) \in CrudPhases \ CrudAnswers
    BY DEF AdmittedPhase, CrudPhases, CrudAnswers
  <2>4. CrudSound'
    BY <1>1, <1>b, <2>2, <2>3, GoesKeeps DEF Admits, AdmittedPhase
  <2> QED BY <1>1, <1>b, <2>3, <2>4, SameRowsOwners, GoesAnswers DEF Admits, Kept
<1>2. CASE Refuses(c)
  BY <1>2, <1>b, EndKeeps DEF Refuses, CrudAnswers
<1>3. CASE PolicyOf(op[c]) = "group" /\ Goes(c, "member") /\ UNCHANGED existing
  <2>1. "member" \in CrudPhases \ CrudAnswers
    BY DEF CrudPhases, CrudAnswers
  <2>2. CrudSound'
    BY <1>3, <1>b, <2>1, GoesKeeps
  <2> QED BY <1>3, <1>b, <2>1, <2>2, SameRowsOwners, GoesAnswers DEF Kept
<1>4. CASE PolicyOf(op[c]) = "owner" /\ op[c] # "create" /\ Goes(c, "weigh") /\ UNCHANGED existing
  <2>1. "weigh" \in CrudPhases \ CrudAnswers
    BY DEF CrudPhases, CrudAnswers
  <2>2. CrudSound'
    BY <1>4, <1>b, <2>1, GoesKeeps
  <2> QED BY <1>4, <1>b, <2>1, <2>2, SameRowsOwners, GoesAnswers DEF Kept
<1>5. CASE AsksAdmin(c)
  BY <1>5, <1>1, <1>2, <1>3, <1>4 DEF AsksAdmin
<1>6. CASE AsksMember(c)
  <2>1. PolicyOf(op[c]) = "group"
    BY <1>6, <1>t DEF AsksMember, CallSound
  <2> QED BY <1>6, <2>1, <1>1, <1>2 DEF AsksMember
<1> QED BY <1>5, <1>6

(* The row is read, and weighed when the policy is its owner. *)
LEMMA ReadKeeps ==
    ASSUME CrudSound, NEW c \in Calls, Frame, Find(c) \/ Weigh(c) \/ Recheck(c)
    PROVE  Kept
<1>t. ResourceTypeOK /\ CallSound(c)
  BY DEF CrudSound
<1>b. Busy(c) /\ SameRows
  BY DEF Find, Weigh, Recheck, Busy, CrudAnswers
<1>p. {"write", "recheck"} \subseteq CrudPhases \ CrudAnswers /\ CrudAnswers = {"idle", "done", "not_found"}
  BY DEF CrudPhases, CrudAnswers
<1>r. target[c] \in RowIds /\ record[target[c]] # None =>
         [existing EXCEPT ![c] = record[target[c]]][c] = record[target[c]]
  BY <1>t DEF ResourceTypeOK
<1>1. CASE Find(c)
  <2>1. c \in entitled /\ op[c] # "create" /\ target[c] \in RowIds
    BY <1>1, <1>b, <1>t DEF Find, CallSound, Admitted
  <2>2. ASSUME NEW outcome \in CrudAnswers, AnswersWith(c, outcome)
        PROVE  Kept
    BY <2>1, <2>2, <1>b, EndKeeps
  <2>3. CASE record[target[c]] # None /\ existing' = [existing EXCEPT ![c] = record[target[c]]]
             /\ Goes(c, "write")
    <3>1. CrudSound'
      BY <2>1, <2>3, <1>b, <1>p, <1>r, GoesKeeps
    <3> QED BY <2>3, <3>1, <1>b, <1>p, SameRowsOwners, GoesAnswers DEF Kept
  <2> QED BY <2>2, <2>3, <1>1, <1>p DEF Find
<1>2. CASE Weigh(c)
  <2>1. PolicyOf(op[c]) = "owner" /\ op[c] # "create" /\ target[c] \in RowIds
    BY <1>2, <1>b, <1>t DEF Weigh, CallSound, ByOwner
  <2>2. CASE AnswersWith(c, "not_found")
    BY <2>1, <2>2, <1>b, <1>p, EndKeeps
  <2>3. CASE record[target[c]] # None /\ existing' = [existing EXCEPT ![c] = record[target[c]]]
             /\ Goes(c, "recheck")
    <3>1. CrudSound'
      BY <2>1, <2>3, <1>b, <1>p, <1>r, GoesKeeps
    <3> QED BY <2>3, <3>1, <1>b, <1>p, SameRowsOwners, GoesAnswers DEF Kept
  <2> QED BY <2>2, <2>3, <1>2 DEF Weigh
<1>3. CASE Recheck(c)
  <2>1. op[c] # "create" /\ existing[c] # None
    BY <1>3, <1>t DEF Recheck, CallSound, ByOwner
  <2>2. MayTouch(c) => c \in entitled
    <3>1. role[caller[c]] = "admin" => EntitledNow(c)
      BY <1>b DEF EntitledNow, Entitled
    <3> QED BY <3>1, <1>3, <1>t DEF Recheck, MayTouch, CallSound
  <2>3. CASE Refuses(c)
    BY <2>3, <1>b, <1>p, EndKeeps DEF Refuses
  <2>4. CASE MayTouch(c) /\ AnswersWith(c, "done")
    BY <2>2, <2>4, <1>b, <1>p, EndKeeps
  <2>5. CASE MayTouch(c) /\ Goes(c, "write") /\ UNCHANGED existing
    <3>1. CrudSound'
      BY <2>1, <2>2, <2>5, <1>b, <1>p, GoesKeeps
    <3> QED BY <2>5, <3>1, <1>b, <1>p, SameRowsOwners, GoesAnswers DEF Kept
  <2> QED BY <2>3, <2>4, <2>5, <1>3 DEF Recheck
<1> QED BY <1>1, <1>2, <1>3

(* The row is inserted, updated or deleted. *)
LEMMA WriteKeeps ==
    ASSUME CrudSound, NEW c \in Calls, Frame, Insert(c) \/ Save(c) \/ Remove(c)
    PROVE  Kept
<1> USE MaxIdsAssumption
<1>t. ResourceTypeOK /\ CallSound(c)
  BY DEF CrudSound
<1>b. Busy(c) /\ c \in entitled
  BY <1>t DEF Insert, Save, Remove, Writing, Busy, CrudAnswers, CallSound, Admitted
<1>p. CrudAnswers = {"idle", "done", "not_found"}
  BY DEF CrudAnswers
<1>1. CASE Insert(c)
  <2>1. caller[c] \in Subjects /\ lastId + 1 \in RowIds
    BY <1>1, <1>b, <1>t DEF Insert, ResourceTypeOK, RowIds
  <2>2. RowsEvolve
    <3>1. lastId' = lastId + 1 /\ lastId \in Nat /\ lastId' \in 0 .. MaxIds
      BY <1>1, <2>1, <1>t DEF Insert, ResourceTypeOK, RowIds
    <3>2. record' = [record EXCEPT ![lastId + 1] = caller[c]]
      BY <1>1 DEF Insert
    <3>3. record' \in [RowIds -> Subjects \cup {None}]
      BY <3>2, <2>1, <1>t DEF ResourceTypeOK
    <3>4. \A i \in 1 .. lastId : record'[i] = record[i]
      BY <3>1, <3>2, <1>t DEF ResourceTypeOK, RowIds
    <3>5. \A i \in RowIds : i > lastId' => record'[i] = None
      BY <3>1, <3>2, <1>t DEF CrudSound, ResourceTypeOK, RowIds
    <3> QED BY <3>1, <3>3, <3>4, <3>5 DEF RowsEvolve
  <2>3. RowKeepsItsOwner
    BY <1>1, <2>1, <1>t DEF Insert, RowKeepsItsOwner, ResourceTypeOK
  <2>4. CrudSound' /\ AnswerOfAnEntitled
    BY <1>1, <1>b, <1>p, <2>2, CallEndKeeps, EndAnswers DEF Insert
  <2> QED BY <2>3, <2>4 DEF Kept
<1>2. ASSUME UNCHANGED <<role, lastId>>, NEW outcome \in CrudAnswers, AnswersWith(c, outcome),
             \/ UNCHANGED record
             \/ record' = [record EXCEPT ![target[c]] = None]
      PROVE  Kept
  <2>1. RowsEvolve /\ RowKeepsItsOwner
    <3>1. record' \in [RowIds -> Subjects \cup {None}]
      BY <1>2, <1>t DEF ResourceTypeOK
    <3>2. \A i \in RowIds : record'[i] \in {record[i], None}
      BY <1>2, <1>t DEF ResourceTypeOK
    <3>3. \A i \in 1 .. lastId : i \in RowIds
      BY <1>t DEF ResourceTypeOK, RowIds
    <3> QED BY <3>1, <3>2, <3>3, <1>2, <1>t
            DEF RowsEvolve, RowKeepsItsOwner, CrudSound, ResourceTypeOK
  <2>2. CrudSound' /\ AnswerOfAnEntitled
    BY <1>2, <1>b, <2>1, CallEndKeeps, EndAnswers
  <2> QED BY <2>1, <2>2 DEF Kept
<1>3. CASE Save(c)
  <2>1. CASE record[target[c]] = None
    BY <2>1, <1>2, <1>3, <1>p DEF Save
  <2>2. CASE record[target[c]] # None
    <3>1. record[target[c]] = existing[c]
      BY <2>2, <1>3, <1>t DEF Save, CallSound
    <3>2. UNCHANGED record
      <4>1. record' = [record EXCEPT ![target[c]] = record[target[c]]]
        <5>1. CASE owned
          BY <5>1, <2>2, <3>1, <1>3 DEF Save
        <5>2. CASE ~owned
          BY <5>2, <2>2, <1>3 DEF Save
        <5> QED BY <5>1, <5>2
      <4>2. [record EXCEPT ![target[c]] = record[target[c]]] = record
        BY <1>t DEF ResourceTypeOK
      <4> QED BY <4>1, <4>2
    <3> QED BY <2>2, <3>2, <1>2, <1>3, <1>p DEF Save
  <2> QED BY <2>1, <2>2
<1>4. CASE Remove(c)
  BY <1>2, <1>4, <1>p DEF Remove
<1> QED BY <1>1, <1>3, <1>4

(* A call begins: a public resource, or one whose creator becomes the owner, *)
(* needs no more.                                                            *)
LEMMA BeginKeeps ==
    ASSUME CrudSound, NEW c \in Calls, Frame, NEW u \in Subjects, NEW o \in Ops,
           NEW i \in RowIds, Begin(c, u, o, i)
    PROVE  Kept
<1> USE SubjectsAssumption, MaxIdsAssumption
<1>t. ResourceTypeOK /\ CallSound(c) /\ SameRows /\ UNCHANGED <<policy, owned, record, role, lastId>>
  BY DEF CrudSound, Begin, SameRows, Frame
<1>1. /\ crudPc'[c] \in {AdmittedPhase(o), "admin"}
      /\ caller'[c] = u /\ op'[c] = o /\ target'[c] = (IF o = "create" THEN 0 ELSE i)
      /\ crudPc'[c] = AdmittedPhase(o) /\ crudPc'[c] # "admin" =>
            PolicyOf(o) = "public" \/ (PolicyOf(o) = "owner" /\ owned /\ o = "create")
  BY <1>t DEF Begin, ResourceTypeOK
<1>2. Busy(c)' /\ crudPc'[c] \in {"write", "find", "admin"}
      /\ (crudPc'[c] = "find" => o # "create") /\ (crudPc'[c] = "write" => o = "create")
  BY <1>1 DEF Busy, CrudAnswers, AdmittedPhase
<1>3. \A e \in Calls \ {c} : CallUnchanged(e)
  BY <1>t DEF Begin, CallUnchanged, ResourceTypeOK
<1>4. existing'[c] = None
  <2>1. ~Busy(c) /\ caller[c] = None
    BY <1>t DEF Begin, ResourceTypeOK
  <2> QED BY <2>1, <1>t DEF Begin, CallSound
<1>5. EntitledNow(c)' => c \in entitled'
  BY Remembers DEF Frame
<1>6. crudPc'[c] # "admin" => EntitledNow(c)'
  <2> SUFFICES ASSUME crudPc'[c] # "admin"
               PROVE  EntitledNow(c)'
    OBVIOUS
  <2>1. PolicyOf(op[c])' = PolicyOf(o)
    BY <1>1, <1>t DEF PolicyOf
  <2> QED BY <2>1, <1>1, <1>2, <1>t DEF EntitledNow, Entitled, PolicyOf
<1>7. CallSound(c)'
  <2>1. policy' # None
    BY <1>t DEF Begin
  <2>2. op'[c] # "create" => target'[c] \in RowIds
    BY <1>1
  <2> QED BY <2>1, <2>2, <1>1, <1>2, <1>4, <1>5, <1>6
          DEF CallSound, Admitted, ByOwner, Writing
<1>8. ResourceTypeOK'
  <2>1. \A e \in Calls : Busy(e)' <=> caller'[e] # None
    BY <1>1, <1>2, <1>3, <1>t DEF Busy, CallUnchanged, ResourceTypeOK
  <2>2. "admin" \in CrudPhases /\ AdmittedPhase(o) \in CrudPhases
    BY DEF CrudPhases, AdmittedPhase
  <2>3. crudPc' \in [Calls -> CrudPhases]
    BY <2>2, <1>t DEF Begin, ResourceTypeOK
  <2>4. /\ caller' \in [Calls -> Subjects \cup {None}] /\ op' \in [Calls -> Ops]
        /\ target' \in [Calls -> 0 .. MaxIds] /\ existing' \in [Calls -> Subjects \cup {None}]
    BY <1>t DEF Begin, ResourceTypeOK, RowIds
  <2>5. entitled' \in SUBSET Calls
    BY DEF Frame, Witness
  <2> QED BY <2>1, <2>3, <2>4, <2>5, <1>t DEF ResourceTypeOK
<1>9. CrudSound'
  BY <1>t, <1>3, <1>7, <1>8, SameRowsEvolve, ActingKeeps
<1>10. AnswerOfAnEntitled
  BY <1>t, <1>1, <1>3 DEF Begin, CallUnchanged, AnswerOfAnEntitled, Busy, CrudAnswers
<1> QED BY <1>t, <1>9, <1>10, SameRowsOwners DEF Kept

(* Nothing but a call answers. *)
LEMMA QuietAnswers ==
    UNCHANGED crudPc => AnswerOfAnEntitled
BY DEF AnswerOfAnEntitled, Busy, CrudAnswers

(* Who is entitled may change at any moment; the calls remember.             *)
LEMMA RoleKeeps ==
    ASSUME CrudSound, Frame, NEW u \in Subjects, NEW r \in Roles, RoleChanges(u, r)
    PROVE  Kept
<1>t. ResourceTypeOK
  BY DEF CrudSound
<1>1. RowsEvolve /\ RowKeepsItsOwner
  BY <1>t, MaxIdsAssumption
     DEF RoleChanges, RowsEvolve, RowKeepsItsOwner, CrudSound, ResourceTypeOK, RowIds
<1>2. \A e \in Calls : CallSound(e)'
  <2>1. \A e \in Calls : CallUnchanged(e)
    BY DEF RoleChanges, crudCallVars, CallUnchanged
  <2> QED BY <2>1, <1>1, OthersKeep DEF Frame
<1>3. ResourceTypeOK'
  <2>1. entitled' \in SUBSET Calls
    BY DEF Frame, Witness
  <2>2. role' \in [Subjects -> Roles]
    BY <1>t DEF RoleChanges, ResourceTypeOK
  <2> QED BY <2>1, <2>2, <1>t DEF RoleChanges, crudCallVars, ResourceTypeOK, Busy, Frame
<1> QED BY <1>1, <1>2, <1>3, QuietAnswers
        DEF Kept, CrudSound, RoleChanges, crudCallVars, RowsEvolve

(* A resource is declared before any call. *)
LEMMA DeclareKeeps ==
    ASSUME CrudSound, Declare, Witness
    PROVE  Kept
<1>t. ResourceTypeOK /\ \A e \in Calls : CallSound(e) /\ ~Busy(e)
  BY DEF CrudSound, CallSound, Declare
<1>u. UNCHANGED <<role, record, lastId, crudPc, caller, op, target, existing>>
  BY DEF Declare, SameRows, crudCallVars
<1>1. \A e \in Calls : ~Busy(e)'
  BY <1>t, <1>u DEF Busy
<1>2. \A e \in Calls : CallSound(e)'
  BY <1>t, <1>u, <1>1 DEF CallSound, EntitledNow, Admitted, ByOwner, Writing, Busy, CrudAnswers
<1>3. entitled' \in SUBSET Calls
  BY DEF Witness
<1>4. ResourceTypeOK'
  BY <1>t, <1>u, <1>1, <1>3 DEF Declare, ResourceTypeOK, Busy
<1> QED BY <1>u, <1>2, <1>4, QuietAnswers, SameRowsOwners DEF Kept, CrudSound, SameRows

(* Every step of the resources. *)
LEMMA CrudNext ==
    ASSUME CrudSound, ResourceNext
    PROVE  Kept
<1>1. CASE Declare
  BY <1>1, DeclareKeeps DEF ResourceNext
<1>2. CASE Serves
  <2>f. Frame
    BY <1>2 DEF Serves, ResourceNext, Frame
  <2>1. ASSUME NEW c \in Calls, CrudStep(c)
        PROVE  Kept
    <3>1. CASE CrudFails(c)
      BY <3>1, <2>f, EndKeeps DEF CrudFails, Refuses, CrudAnswers
    <3> QED BY <3>1, <2>1, <2>f, BeginKeeps, VerdictKeeps, ReadKeeps, WriteKeeps DEF CrudStep
  <2> QED BY <2>1, <2>f, <1>2, RoleKeeps DEF Serves
<1> QED BY <1>1, <1>2 DEF ResourceNext

(* The other components leave the rows and their calls alone. *)
LEMMA CrudKept ==
    CrudSound /\ [Next]_storesVars =>
        CrudSound' /\ [RowKeepsItsOwner]_resourceVars /\ [AnswerOfAnEntitled]_resourceVars
<1> SUFFICES ASSUME CrudSound, [Next]_storesVars
             PROVE  /\ CrudSound'
                    /\ [RowKeepsItsOwner]_resourceVars
                    /\ [AnswerOfAnEntitled]_resourceVars
  OBVIOUS
<1>1. CASE UNCHANGED resourceVars
  BY <1>1 DEF resourceVars, crudCallVars, CrudSound, ResourceTypeOK, CallSound, Busy, EntitledNow,
              Entitled, PolicyOf, Admitted, ByOwner, Writing
<1>2. CASE RowsRun
  BY <1>2, CrudNext DEF RowsRun, Kept
<1> QED BY <1>1, <1>2
       DEF Next, DraftsRun, BatchRuns, LinksRun, LoginsRun, TokensRun, MatrixRuns, storesVars, accessVars

(* Each call that is let through, and each that learns a row is missing, had *)
(* at some instant the right to (core.rs get, create, update, delete; rbac.rs*)
(* can_create, static_verdict, evaluate).                                    *)
THEOREM AnswersEarnedAlways == Spec => AnswersEarned
<1>1. Spec => []CrudSound
  BY CrudInit, CrudKept, PTL DEF Spec
<1> QED BY <1>1, CrudKept, PTL DEF Spec, AnswersEarned

(* No update moves a row to another owner or brings a deleted one back       *)
(* (core.rs create, update, delete).                                         *)
THEOREM RowsKeepTheirOwnerAlways == Spec => RowsKeepTheirOwner
<1>1. Spec => []CrudSound
  BY CrudInit, CrudKept, PTL DEF Spec
<1> QED BY <1>1, CrudKept, PTL DEF Spec, RowsKeepTheirOwner

-----------------------------------------------------------------------------
(* Tokens.  A call that is about to write works for the holder of the row it *)
(* has read, which is as it was or gone: ids are never drawn twice.          *)
Acting(c) == tokenPc[c] \in {"stamp", "revoke"}

HeldToken(c) ==
    Acting(c) =>
        /\ tokenId[c] \in 1 .. lastToken
        /\ Live(tokenId[c]) => token[tokenId[c]].subject = bearer[c]

OneHolder ==
    \A i, j \in TokenIds :
        i # j /\ Live(i) /\ Live(j) /\ token[i].given # None => token[i].given # token[j].given

TokenSound ==
    /\ TokenTypeOK
    /\ \A i \in TokenIds : i > lastToken => token[i] = None
    /\ \A c \in Calls : HeldToken(c)
    /\ OneHolder

(* There is no token yet. *)
LEMMA TokenStart == Init => TokenSound
<1> SUFFICES ASSUME TokenInit
             PROVE  TokenSound
  BY DEF Init
<1>1. TokenTypeOK
  BY MaxTokensAssumption DEF TokenInit, TokenTypeOK, TokenPhases
<1> QED BY <1>1 DEF TokenInit, TokenSound, HeldToken, Acting, OneHolder, Live

TokensStay == UNCHANGED <<token, lastToken, lapsed>>

(* A call that only reads leaves the tokens and the other calls alone.       *)
LEMMA HoldingKeeps ==
    ASSUME TokenSound, NEW c \in Calls, NEW phase \in {"stamp", "revoke", "insert"},
           NEW i \in 0 .. MaxTokens, NEW u \in Holders, NEW s \in Secrets \cup {None},
           Holding(c, phase, i, u, s),
           phase = "insert" <=> s # None,
           phase # "insert" => i \in TokenIds /\ Live(i) /\ token[i].subject = u
    PROVE  TokenSound' /\ TokenOfItsHolder
<1>t. TokenTypeOK
  BY DEF TokenSound
<1>1. TokenTypeOK'
  BY <1>t, HoldersAssumption DEF Holding, TokenTypeOK, TokenPhases
<1>2. OneHolder' /\ (\A k \in TokenIds : k > lastToken' => token'[k] = None)
  BY DEF Holding, TokenSound, OneHolder, Live
<1>3. ASSUME NEW d \in Calls
      PROVE  HeldToken(d)'
  <2>1. phase # "insert" => i \in 1 .. lastToken
    BY <1>t, MaxTokensAssumption DEF TokenSound, TokenTypeOK, TokenIds, Live
  <2>2. CASE d = c
    BY <2>1, <2>2, <1>t DEF Holding, TokenTypeOK, HeldToken, Acting, Live
  <2>3. CASE d # c
    BY <2>3, <1>t DEF Holding, TokenSound, TokenTypeOK, HeldToken, Acting, Live
  <2> QED BY <2>2, <2>3
<1>4. TokenOfItsHolder
  <2>1. \A d \in Calls : ~stamped'[d] \/ tokenPc[d] = "served"
    BY <1>t DEF Holding, TokenTypeOK
  <2>2. token' = token
    BY DEF Holding
  <2> QED BY <2>1, <2>2 DEF TokenOfItsHolder, TokenSound, OneHolder, Live
<1> QED BY <1>1, <1>2, <1>3, <1>4 DEF TokenSound

(* A call that ends without writing. *)
LEMMA OverKeeps ==
    ASSUME TokenSound, NEW c \in Calls, Over(c), TokensStay
    PROVE  TokenSound' /\ TokenOfItsHolder
<1>t. TokenTypeOK
  BY DEF TokenSound
<1>1. TokenTypeOK'
  BY <1>t, MaxTokensAssumption DEF Over, TokensStay, TokenTypeOK, TokenPhases
<1>2. OneHolder' /\ (\A k \in TokenIds : k > lastToken' => token'[k] = None)
  BY DEF TokensStay, TokenSound, OneHolder, Live
<1>3. \A d \in Calls : HeldToken(d)'
  BY <1>t DEF Over, TokensStay, TokenSound, TokenTypeOK, HeldToken, Acting, Live
<1>4. TokenOfItsHolder
  <2>1. \A d \in Calls : ~stamped'[d] \/ tokenPc[d] = "served"
    BY <1>t DEF Over, TokenTypeOK
  <2> QED BY <2>1 DEF TokenOfItsHolder, TokensStay, TokenSound, OneHolder, Live
<1> QED BY <1>1, <1>2, <1>3, <1>4 DEF TokenSound

(* An authentication that is recorded is that of a live row. *)
LEMMA StampKeeps ==
    ASSUME TokenSound, NEW c \in Calls, Stamp(c) \/ StampFails(c)
    PROVE  TokenSound' /\ TokenOfItsHolder
<1>t. TokenTypeOK /\ HeldToken(c) /\ Acting(c) /\ tokenPc[c] = "stamp"
  BY DEF TokenSound, Stamp, StampFails, Acting
<1>1. CASE Over(c) /\ TokensStay
  BY <1>1, OverKeeps
<1>2. ASSUME NEW written \in BOOLEAN, Authenticates(c, written), written => Live(tokenId[c])
      PROVE  TokenSound' /\ TokenOfItsHolder
  <2>1. TokenTypeOK'
    BY <1>t, <1>2 DEF Authenticates, TokenTypeOK, TokenPhases
  <2>2. OneHolder' /\ (\A k \in TokenIds : k > lastToken' => token'[k] = None)
    BY <1>2 DEF Authenticates, TokenSound, OneHolder, Live
  <2>3. \A d \in Calls : HeldToken(d)'
    BY <1>t, <1>2 DEF Authenticates, TokenSound, TokenTypeOK, HeldToken, Acting, Live
  <2>4. \A d \in Calls : ~stamped'[d] \/ tokenPc[d] = "served" \/ (d = c /\ written)
    BY <1>t, <1>2 DEF Authenticates, TokenTypeOK
  <2>5. token' = token /\ bearer' = bearer
    BY <1>2 DEF Authenticates
  <2>6. TokenOfItsHolder
    BY <2>4, <2>5, <1>t, <1>2 DEF TokenOfItsHolder, TokenSound, OneHolder, HeldToken, Live
  <2> QED BY <2>1, <2>2, <2>3, <2>6 DEF TokenSound
<1> QED BY <1>1, <1>2 DEF Stamp, StampFails, TokensStay

(* A row is deleted for its holder. *)
LEMMA RevokeKeeps ==
    ASSUME TokenSound, NEW c \in Calls, Revoke(c)
    PROVE  TokenSound' /\ TokenOfItsHolder
<1>t. /\ TokenTypeOK /\ HeldToken(c) /\ Acting(c) /\ tokenPc[c] = "revoke"
      /\ tokenId[c] \in 1 .. lastToken
  BY DEF TokenSound, Revoke, Acting, HeldToken
<1>r. \A i \in TokenIds : token'[i] = IF i = tokenId[c] THEN None ELSE token[i]
  BY <1>t DEF Revoke, TokenTypeOK
<1>1. TokenTypeOK'
  <2>1. token' \in [TokenIds -> TokenRows \cup {None}]
    BY <1>t DEF Revoke, TokenTypeOK
  <2>2. lastToken' \in 0 .. MaxTokens /\ lapsed' \in SUBSET TokenIds
    BY <1>t DEF Revoke, TokenTypeOK
  <2>3. /\ tokenPc' \in [Calls -> TokenPhases]
        /\ tokenId' \in [Calls -> 0 .. MaxTokens]
        /\ bearer' \in [Calls -> Holders \cup {None}]
        /\ given' \in [Calls -> Secrets \cup {None}]
        /\ stamped' \in [Calls -> BOOLEAN]
    BY <1>t, MaxTokensAssumption DEF Revoke, Over, TokenTypeOK, TokenPhases
  <2>4. \A d \in Calls :
           /\ tokenPc'[d] # "idle" => bearer'[d] # None
           /\ given'[d] # None <=> tokenPc'[d] = "insert"
           /\ stamped'[d] => tokenPc'[d] = "served"
    BY <1>t DEF Revoke, Over, TokenTypeOK
  <2> QED BY <2>1, <2>2, <2>3, <2>4 DEF TokenTypeOK
<1>2. OneHolder' /\ (\A k \in TokenIds : k > lastToken' => token'[k] = None)
  BY <1>r DEF Revoke, TokenSound, OneHolder, Live
<1>3. ASSUME NEW d \in Calls
      PROVE  HeldToken(d)'
  <2>1. Acting(d)' => d # c /\ Acting(d) /\ HeldToken(d)
    BY <1>t DEF Revoke, Over, TokenSound, TokenTypeOK, Acting
  <2>2. d # c => tokenId'[d] = tokenId[d] /\ bearer'[d] = bearer[d] /\ lastToken' = lastToken
    BY <1>t DEF Revoke, Over, TokenTypeOK
  <2>3. 1 .. lastToken \subseteq TokenIds
    BY <1>t, MaxTokensAssumption DEF TokenTypeOK, TokenIds
  <2> QED BY <2>1, <2>2, <2>3, <1>r DEF HeldToken, Live
<1>4. TokenOfItsHolder
  <2>1. \A d \in Calls : ~stamped'[d] \/ tokenPc[d] = "served"
    BY <1>t DEF Revoke, Over, TokenTypeOK
  <2> QED BY <2>1, <1>t, <1>r DEF TokenOfItsHolder, TokenSound, OneHolder, HeldToken, Live
<1> QED BY <1>1, <1>2, <1>3, <1>4 DEF TokenSound

(* A row is inserted under an id that no call has seen. *)
LEMMA InsertKeeps ==
    ASSUME TokenSound, NEW u \in Holders, NEW s \in Secrets \cup {None},
           InsertToken(u, s), s # None => FreeSecret(s),
           (\E c \in Calls : Over(c)) \/ UNCHANGED tokenCallVars
    PROVE  TokenSound' /\ TokenOfItsHolder
<1>t. /\ TokenTypeOK
      /\ lastToken + 1 \in TokenIds
      /\ token[lastToken + 1] = None
  BY MaxTokensAssumption DEF TokenSound, InsertToken, TokenTypeOK, TokenIds
<1>r. /\ \A i \in TokenIds : token'[i] = IF i = lastToken + 1
                                         THEN [subject |-> u, given |-> s] ELSE token[i]
      /\ lastToken' = lastToken + 1
      /\ lapsed' = lapsed
  BY <1>t DEF InsertToken, TokenTypeOK
<1>n. [subject |-> u, given |-> s] \in TokenRows
  BY DEF TokenRows
<1>1. TokenTypeOK'
  <2>1. token' \in [TokenIds -> TokenRows \cup {None}] /\ lastToken' \in 0 .. MaxTokens
    BY <1>t, <1>n, MaxTokensAssumption DEF InsertToken, TokenTypeOK, TokenIds
  <2>2. CASE UNCHANGED tokenCallVars
    BY <2>1, <2>2, <1>t, <1>r DEF tokenCallVars, TokenTypeOK
  <2>3. ASSUME NEW c \in Calls, Over(c)
        PROVE  TokenTypeOK'
    BY <2>1, <2>3, <1>t, <1>r, MaxTokensAssumption DEF Over, TokenTypeOK, TokenPhases
  <2> QED BY <2>2, <2>3
<1>2. OneHolder'
  BY <1>r, <1>t DEF TokenSound, OneHolder, Live, FreeSecret
<1>3. \A k \in TokenIds : k > lastToken' => token'[k] = None
  BY <1>r, <1>t DEF TokenSound, TokenTypeOK, TokenIds
<1>4. ASSUME NEW d \in Calls
      PROVE  HeldToken(d)' /\ (~stamped'[d] \/ tokenPc[d] = "served")
  <2>1. \/ tokenPc'[d] = "idle" /\ ~stamped'[d]
        \/ /\ tokenPc'[d] = tokenPc[d] /\ tokenId'[d] = tokenId[d]
           /\ bearer'[d] = bearer[d] /\ stamped'[d] = stamped[d]
    BY <1>t DEF Over, tokenCallVars, TokenTypeOK
  <2>2. HeldToken(d) /\ 1 .. lastToken \subseteq TokenIds /\ lastToken \in Nat
    BY <1>t, MaxTokensAssumption DEF TokenSound, TokenTypeOK, TokenIds
  <2>3. Acting(d)' => tokenId'[d] \in 1 .. lastToken /\ tokenId'[d] # lastToken + 1
                      /\ tokenId'[d] \in 1 .. lastToken'
                      /\ Acting(d) /\ tokenId'[d] = tokenId[d] /\ bearer'[d] = bearer[d]
    BY <2>1, <2>2, <1>r DEF HeldToken, Acting
  <2> QED BY <2>1, <2>2, <2>3, <1>r, <1>t DEF HeldToken, Live, TokenTypeOK
<1>5. TokenOfItsHolder
  BY <1>2, <1>4, <1>r, <1>t DEF TokenOfItsHolder, OneHolder, Live
<1> QED BY <1>1, <1>2, <1>3, <1>4, <1>5 DEF TokenSound

(* Every step of the tokens. *)
LEMMA TokensNext ==
    ASSUME TokenSound, TokenNext
    PROVE  TokenSound' /\ TokenOfItsHolder
<1>t. TokenTypeOK
  BY DEF TokenSound
<1>1. ASSUME NEW c \in Calls, NEW i \in TokenIds, ValidateRead(c, i)
      PROVE  TokenSound' /\ TokenOfItsHolder
  <2>1. token[i].subject \in Holders /\ i \in 0 .. MaxTokens
    BY <1>1, <1>t DEF ValidateRead, Live, TokenTypeOK, TokenRows, TokenIds
  <2> QED BY <1>1, <2>1, HoldingKeeps DEF ValidateRead
<1>2. ASSUME NEW c \in Calls, NEW u \in Holders, NEW i \in TokenIds, FindToken(c, u, i)
      PROVE  TokenSound' /\ TokenOfItsHolder
  <2>1. i \in 0 .. MaxTokens
    BY DEF TokenIds
  <2> QED BY <1>2, <2>1, HoldingKeeps DEF FindToken
<1>3. ASSUME NEW c \in Calls, NEW u \in Holders, NEW s \in Secrets, EnsureProbe(c, u, s)
      PROVE  TokenSound' /\ TokenOfItsHolder
  <2>1. 0 \in 0 .. MaxTokens /\ s # None
    BY MaxTokensAssumption, SecretsAssumption
  <2> QED BY <1>3, <2>1, HoldingKeeps DEF EnsureProbe
<1>4. ASSUME NEW c \in Calls, EnsureInsert(c)
      PROVE  TokenSound' /\ TokenOfItsHolder
  <2>1. bearer[c] \in Holders /\ given[c] \in Secrets \cup {None}
    BY <1>4, <1>t DEF EnsureInsert, TokenTypeOK
  <2> QED BY <1>4, <2>1, InsertKeeps, OverKeeps DEF EnsureInsert, TokensStay
<1>5. ASSUME NEW u \in Holders, IssueToken(u)
      PROVE  TokenSound' /\ TokenOfItsHolder
  BY <1>5, InsertKeeps DEF IssueToken
<1>6. ASSUME NEW i \in TokenIds, Lapses(i)
      PROVE  TokenSound' /\ TokenOfItsHolder
  <2>1. \A d \in Calls : ~stamped'[d] \/ tokenPc[d] = "served"
    BY <1>6, <1>t DEF Lapses, tokenCallVars, TokenTypeOK
  <2>2. TokenSound'
    BY <1>6 DEF Lapses, tokenCallVars, TokenSound, TokenTypeOK, HeldToken, Acting, Live, OneHolder
  <2> QED BY <2>1, <2>2, <1>6 DEF Lapses, TokenOfItsHolder, TokenSound, OneHolder, Live
<1>7. ASSUME NEW c \in Calls, TokenCallEnds(c)
      PROVE  TokenSound' /\ TokenOfItsHolder
  BY <1>7, OverKeeps DEF TokenCallEnds, TokensStay
<1> QED BY <1>1, <1>2, <1>3, <1>4, <1>5, <1>6, <1>7, StampKeeps, RevokeKeeps
       DEF TokenNext, TokenStep

(* The other components leave the tokens alone. *)
LEMMA TokenKept ==
    TokenSound /\ [Next]_storesVars => TokenSound' /\ [TokenOfItsHolder]_tokenVars
<1> SUFFICES ASSUME TokenSound, [Next]_storesVars
             PROVE  TokenSound' /\ [TokenOfItsHolder]_tokenVars
  OBVIOUS
<1>1. CASE UNCHANGED tokenVars
  BY <1>1 DEF tokenVars, tokenCallVars, TokenSound, TokenTypeOK, HeldToken, Acting, Live, OneHolder
<1>2. CASE TokensRun
  BY <1>2, TokensNext DEF TokensRun
<1> QED BY <1>1, <1>2
       DEF Next, DraftsRun, BatchRuns, LinksRun, LoginsRun, RowsRun, MatrixRuns,
           storesVars, accessVars

(* For any number of tokens and requests: no authentication is recorded for  *)
(* a revoked token, a token is removed for its holder alone, and no value    *)
(* stands for two accounts (token.rs validate_token, ensure_token;           *)
(* rest/tokens.rs delete_token_handler).                                     *)
THEOREM TokensKeepTheirHolderAlways == Spec => TokensKeepTheirHolder
<1>1. Spec => []TokenSound
  BY TokenStart, TokenKept, PTL DEF Spec
<1> QED BY <1>1, TokenKept, PTL DEF Spec, TokensKeepTheirHolder
=============================================================================
