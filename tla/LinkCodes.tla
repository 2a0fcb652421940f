------------------------------ MODULE LinkCodes ------------------------------
(* src/lymaille/chat/link.rs: a user asks for a code through REST and types  *)
(* it in Matrix, which links the Matrix identity to the account.  Codes are  *)
(* numbered in the order their expiry follows; `horizon` is the time, as the *)
(* last code that has expired.  Digests, alphabets and the comparison in     *)
(* constant time are left out: a code is its digest.                         *)
EXTENDS Handlers, Naturals, FiniteSets

CONSTANTS
    Users,          \* accounts
    Mxids,          \* Matrix identities
    MaxCodes,       \* bound: codes ever drawn
    MaxLiveCodes,   \* MAX_LIVE_CODES
    AttemptLimit    \* ATTEMPT_LIMIT

ASSUME LinkAssumption ==
    MaxCodes \in Nat /\ MaxLiveCodes \in Nat \ {0} /\ AttemptLimit \in Nat \ {0}
ASSUME CallsAssumption == IsFiniteSet(Calls)
ASSUME UsersAssumption == None \notin Users \cup Mxids

Codes == 1 .. MaxCodes

VARIABLES
    codes,          \* matrix_link_codes: code -> subject, None when there is no row
    link,           \* matrix_links: mxid -> subject, None when there is no row
    failures,       \* ATTEMPTS: failures counted for a mxid in its window
    horizon,        \* the codes up to this one have expired
    lastCode,       \* codes drawn so far
    linkPc, who, what, now, surplus, found,  \* what each call is doing, and its data
    issuedTo,       \* history: the subject a code was issued to
    spentBy         \* history: the mxids that consumed a code with success

linkCallVars == <<linkPc, who, what, now, surplus, found>>
linkVars == <<codes, link, failures, horizon, lastCode, linkCallVars, issuedTo, spentBy>>

LinkPhases == {"idle", "select", "surplus", "insert", "scan", "owner", "write"}

LinkShapeOK ==
    /\ codes \in [Codes -> Users \cup {None}]
    /\ link \in [Mxids -> Users \cup {None}]
    /\ horizon \in 0 .. MaxCodes
    /\ lastCode \in 0 .. MaxCodes
    /\ linkPc \in [Calls -> LinkPhases]
    /\ who \in [Calls -> Users \cup Mxids \cup {None}]
    /\ what \in [Calls -> 0 .. MaxCodes]
    /\ now \in [Calls -> 0 .. MaxCodes]
    /\ surplus \in [Calls -> SUBSET Codes]
    /\ found \in [Calls -> Users \cup {None}]
    /\ issuedTo \in [Codes -> Users \cup {None}]
    /\ spentBy \in [Codes -> SUBSET Mxids]

(* The calls at work when the limit is reached may still fail. *)
LinkTypeOK ==
    /\ LinkShapeOK
    /\ failures \in [Mxids -> 0 .. AttemptLimit + Cardinality(Calls)]

LinkInit ==
    /\ codes = [k \in Codes |-> None]
    /\ link = [m \in Mxids |-> None]
    /\ failures = [m \in Mxids |-> 0]
    /\ horizon = 0
    /\ lastCode = 0
    /\ linkPc = [c \in Calls |-> "idle"]
    /\ who = [c \in Calls |-> None]
    /\ what = [c \in Calls |-> 0]
    /\ now = [c \in Calls |-> 0]
    /\ surplus = [c \in Calls |-> {}]
    /\ found = [c \in Calls |-> None]
    /\ issuedTo = [k \in Codes |-> None]
    /\ spentBy = [k \in Codes |-> {}]

Rested(c) ==
    /\ linkPc' = [linkPc EXCEPT ![c] = "idle"]
    /\ who' = [who EXCEPT ![c] = None]
    /\ what' = [what EXCEPT ![c] = 0]
    /\ now' = [now EXCEPT ![c] = 0]
    /\ surplus' = [surplus EXCEPT ![c] = {}]
    /\ found' = [found EXCEPT ![c] = None]

Reaches(c, phase) ==
    /\ linkPc' = [linkPc EXCEPT ![c] = phase]
    /\ UNCHANGED <<who, what, now>>

Unexpired(time) == {k \in Codes : codes[k] # None /\ k > time}
-----------------------------------------------------------------------------
(* issue_code: three statements and as many awaits, no transaction. *)

(* purge_expired; the expiry of the code to come is that of this moment. *)
IssueCode(c, u) ==
    /\ linkPc[c] = "idle"
    /\ lastCode < MaxCodes
    /\ lastCode' = lastCode + 1
    /\ codes' = [k \in Codes |-> IF k <= horizon THEN None ELSE codes[k]]
    /\ linkPc' = [linkPc EXCEPT ![c] = "select"]
    /\ who' = [who EXCEPT ![c] = u]
    /\ what' = [what EXCEPT ![c] = lastCode + 1]
    /\ now' = [now EXCEPT ![c] = horizon]
    /\ UNCHANGED <<surplus, found, link, failures, horizon, issuedTo, spentBy>>

(* The oldest live codes of the subject, all but MaxLiveCodes - 1. *)
IssueSelect(c) ==
    LET live == {k \in Unexpired(now[c]) : codes[k] = who[c]}
        newer(k) == {j \in live : j > k}
    IN  /\ linkPc[c] = "select"
        /\ surplus' = [surplus EXCEPT
              ![c] = {k \in live : Cardinality(newer(k)) >= MaxLiveCodes - 1}]
        /\ Reaches(c, "surplus")
        /\ UNCHANGED <<found, codes, link, failures, horizon, lastCode, issuedTo, spentBy>>

IssueDelete(c) ==
    /\ linkPc[c] = "surplus"
    /\ \/ /\ surplus[c] = {}
          /\ Reaches(c, "insert")
          /\ UNCHANGED <<surplus, codes>>
       \/ \E k \in surplus[c] :
             /\ \A j \in surplus[c] : k <= j
             /\ codes' = [codes EXCEPT ![k] = None]
             /\ surplus' = [surplus EXCEPT ![c] = @ \ {k}]
             /\ Reaches(c, "surplus")
    /\ UNCHANGED <<found, link, failures, horizon, lastCode, issuedTo, spentBy>>

IssueInsert(c) ==
    /\ linkPc[c] = "insert"
    /\ codes' = [codes EXCEPT ![what[c]] = who[c]]
    /\ issuedTo' = [issuedTo EXCEPT ![what[c]] = who[c]]
    /\ Rested(c)
    /\ UNCHANGED <<link, failures, horizon, lastCode, spentBy>>

-----------------------------------------------------------------------------
(* consume_code *)

(* Faulty: the failures are counted and never looked at. *)
ConsumeUnlimited(c, m, k) ==
    /\ linkPc[c] = "idle"
    /\ linkPc' = [linkPc EXCEPT ![c] = "scan"]
    /\ who' = [who EXCEPT ![c] = m]
    /\ what' = [what EXCEPT ![c] = k]
    /\ now' = [now EXCEPT ![c] = horizon]
    /\ UNCHANGED <<surplus, found, codes, link, failures, horizon, lastCode, issuedTo, spentBy>>

(* rate_limited, before anything is read.  Any code may be typed, those that *)
(* were drawn and those to come standing for the wrong ones.                 *)
ConsumeCode(c, m, k) ==
    /\ linkPc[c] = "idle"
    /\ failures[m] < AttemptLimit
    /\ linkPc' = [linkPc EXCEPT ![c] = "scan"]
    /\ who' = [who EXCEPT ![c] = m]
    /\ what' = [what EXCEPT ![c] = k]
    /\ now' = [now EXCEPT ![c] = horizon]
    /\ UNCHANGED <<surplus, found, codes, link, failures, horizon, lastCode, issuedTo, spentBy>>

(* record_failure *)
Failed(c) ==
    /\ failures' = [failures EXCEPT ![who[c]] = @ + 1]
    /\ UNCHANGED <<codes, spentBy>>

(* The table is read; a code unknown or expired is a failure. *)
ConsumeScan(c) ==
    /\ linkPc[c] = "scan"
    /\ IF what[c] \in Unexpired(now[c])
       THEN /\ found' = [found EXCEPT ![c] = codes[what[c]]]
            /\ Reaches(c, "owner")
            /\ UNCHANGED <<surplus, failures, codes, spentBy>>
       ELSE Failed(c) /\ Rested(c)
    /\ UNCHANGED <<link, horizon, lastCode, issuedTo>>

(* In the transaction: a mxid linked to another account is a Conflict. *)
ConsumeOwner(c) ==
    LET owner == link[who[c]]
    IN  /\ linkPc[c] = "owner"
        /\ IF owner \notin {None, found[c]}
           THEN Rested(c)
           ELSE /\ linkPc' = [linkPc EXCEPT ![c] = "write"]
                /\ found' = [found EXCEPT ![c] = IF owner = None THEN @ ELSE None]
                /\ UNCHANGED <<who, what, now, surplus>>
        /\ UNCHANGED <<codes, link, failures, horizon, lastCode, issuedTo, spentBy>>

Consumed(c) ==
    /\ codes' = [codes EXCEPT ![what[c]] = None]
    /\ spentBy' = [spentBy EXCEPT ![what[c]] = @ \cup {who[c]}]
    /\ failures' = [failures EXCEPT ![who[c]] = 0]

Spending(c) ==
    /\ linkPc[c] = "write"
    /\ Rested(c)
    /\ UNCHANGED <<horizon, lastCode, issuedTo>>

Linked(c) == link' = [link EXCEPT ![who[c]] = found[c]]

(* Faulty: the number of rows the DELETE removed is not looked at. *)
SpendBlindly(c) ==
    /\ Spending(c)
    /\ Consumed(c)
    /\ IF found[c] = None THEN UNCHANGED link ELSE Linked(c)

(* Faulty: the link is written over the one another call has just inserted. *)
SpendOver(c) ==
    /\ Spending(c)
    /\ IF codes[what[c]] = None
       THEN Failed(c) /\ UNCHANGED link
       ELSE Consumed(c) /\ IF found[c] = None THEN UNCHANGED link ELSE Linked(c)

(* Faulty: the link is committed before the code is found to be gone. *)
SpendLinkFirst(c) ==
    /\ Spending(c)
    /\ IF codes[what[c]] = None THEN Failed(c) ELSE Consumed(c)
    /\ IF found[c] = None \/ link[who[c]] # None THEN UNCHANGED link ELSE Linked(c)

(* The DELETE of the code and the INSERT of the link, committed together: a  *)
(* code already gone is a failure; a link inserted meanwhile violates the    *)
(* primary key and rolls the DELETE back.  `found` is None when the mxid was *)
(* already linked to this account.                                           *)
Spend(c) ==
    /\ Spending(c)
    /\ \/ codes[what[c]] = None /\ Failed(c) /\ UNCHANGED link
       \/ codes[what[c]] # None /\ found[c] = None /\ Consumed(c) /\ UNCHANGED link
       \/ /\ codes[what[c]] # None /\ found[c] # None /\ link[who[c]] = None
          /\ Consumed(c)
          /\ Linked(c)
       \/ /\ codes[what[c]] # None /\ found[c] # None /\ link[who[c]] # None
          /\ UNCHANGED <<codes, spentBy, failures, link>>

-----------------------------------------------------------------------------
(* unlink: by the account that owns the link. *)
Unlink(u, m) ==
    /\ link[m] = u
    /\ link' = [link EXCEPT ![m] = None]
    /\ UNCHANGED <<codes, failures, horizon, lastCode, linkCallVars, issuedTo, spentBy>>

(* The next code expires. *)
CodeExpires ==
    /\ horizon < lastCode
    /\ horizon' = horizon + 1
    /\ UNCHANGED <<codes, link, failures, lastCode, linkCallVars, issuedTo, spentBy>>

(* ATTEMPT_WINDOW is over for a mxid, or the process has restarted. *)
WindowEnds(m) ==
    /\ failures[m] > 0
    /\ failures' = [failures EXCEPT ![m] = 0]
    /\ UNCHANGED <<codes, link, horizon, lastCode, linkCallVars, issuedTo, spentBy>>

LinkNext ==
    \/ \E c \in Calls :
        \/ \E u \in Users : IssueCode(c, u)
        \/ IssueSelect(c) \/ IssueDelete(c) \/ IssueInsert(c)
        \/ \E m \in Mxids, k \in Codes : ConsumeCode(c, m, k)
        \/ ConsumeScan(c) \/ ConsumeOwner(c) \/ Spend(c)
    \/ \E u \in Users, m \in Mxids : Unlink(u, m)
    \/ CodeExpires
    \/ \E m \in Mxids : WindowEnds(m)

-----------------------------------------------------------------------------
(* A code is spent by one Matrix identity, whoever types it at the same      *)
(* moment (link.rs consume_code; link.sdd, single use).                      *)
CodeSpentOnce == \A k \in Codes : Cardinality(spentBy[k]) <= 1

(* Who has a link typed a code issued to that very account (link.rs          *)
(* consume_code, issue_code).                                                *)
LinksProven ==
    \A m \in Mxids : link[m] # None =>
        \E k \in Codes : issuedTo[k] = link[m] /\ m \in spentBy[k]

(* A Matrix identity never passes from an account to another but through an  *)
(* unlink by the first one (link.rs consume_code; its scenario of a mxid     *)
(* that two accounts claim).                                                 *)
LinkKept == \A m \in Mxids : link[m] # None /\ link'[m] # None => link'[m] = link[m]

(* No step does otherwise (link.rs consume_code, unlink).                    *)
NoTakeover == [][LinkKept]_linkVars
=============================================================================
