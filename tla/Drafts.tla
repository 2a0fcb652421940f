------------------------------- MODULE Drafts -------------------------------
(* The two versions of a toolset, one row per (owner, identifier): what the  *)
(* configuration session proposes (`draft`) and what is in service           *)
(* (`active`).  src/lymaille/store/{toolset,draft}.rs write the draft,       *)
(* src/lymaille/interactive/activation.rs promotes it, the CRUD resource     *)
(* writes both.  put_draft and discard_draft look at the row in one query    *)
(* and act in another, with no transaction: another call may run between.    *)
(*                                                                           *)
(* A definition stands for its JSON and names its own version.  Every        *)
(* definition below passes `check_toolset`; `Reserved` ones grant a module   *)
(* only an administrator may use, and the callers are not administrators.    *)
EXTENDS Handlers

CONSTANTS
    Definitions,    \* toolset definitions of one name
    Reserved        \* those check_grants refuses

ASSUME ReservedAssumption == Reserved \subseteq Definitions
ASSUME DefinitionsAssumption == None \notin Definitions

VARIABLES
    toolset,        \* the row, None when there is none
    draftPc,        \* what each call is about to do
    held            \* the definition each call carries

draftVars == <<toolset, draftPc, held>>

DraftPhases == {"idle", "put_update", "put_upsert", "promote", "discard_update", "discard_delete"}

Versions == Definitions \cup {None}
Rows == [active : Versions, draft : Versions, version : Definitions]

DraftTypeOK ==
    /\ toolset \in Rows \cup {None}
    /\ draftPc \in [Calls -> DraftPhases]
    /\ held \in [Calls -> Versions]
    /\ \A c \in Calls : held[c] # None <=> draftPc[c] \in {"put_update", "put_upsert", "promote"}

DraftInit ==
    /\ toolset = None
    /\ draftPc = [c \in Calls |-> "idle"]
    /\ held = [c \in Calls |-> None]

Exists == toolset # None
InService == Exists /\ toolset.active # None
Drafted == Exists /\ toolset.draft # None

Proceed(c, phase, d) ==
    /\ draftPc[c] = "idle"
    /\ draftPc' = [draftPc EXCEPT ![c] = phase]
    /\ held' = [held EXCEPT ![c] = d]
    /\ UNCHANGED toolset

Finish(c) ==
    /\ draftPc' = [draftPc EXCEPT ![c] = "idle"]
    /\ held' = [held EXCEPT ![c] = None]

(* SQL UPDATE of the columns of the row: nothing when it is gone. *)
UpdateRow(row) == toolset' = IF Exists THEN row ELSE None

-----------------------------------------------------------------------------
(* put_draft, then write_draft: is there a version in service? *)
PutProbe(c, d) == Proceed(c, IF InService THEN "put_update" ELSE "put_upsert", d)

PutUpdate(c) ==
    /\ draftPc[c] = "put_update"
    /\ UpdateRow([toolset EXCEPT !.draft = held[c]])
    /\ Finish(c)

(* INSERT ... ON CONFLICT DO UPDATE version, draft. *)
PutUpsert(c) ==
    /\ draftPc[c] = "put_upsert"
    /\ toolset' = [active |-> IF Exists THEN toolset.active ELSE None,
                   draft |-> held[c], version |-> held[c]]
    /\ Finish(c)

-----------------------------------------------------------------------------
(* activate_toolset: the draft is read and checked ... *)
ActivateRead(c) ==
    /\ Drafted
    /\ toolset.draft \notin Reserved
    /\ Proceed(c, "promote", toolset.draft)

(* Faulty: the promotion does not compare the draft with the one it checked. *)
PromoteWhateverIsThere(c) ==
    /\ draftPc[c] = "promote"
    /\ toolset' = IF Drafted
                  THEN [active |-> toolset.draft, draft |-> None, version |-> toolset.draft]
                  ELSE toolset
    /\ Finish(c)

(* ... then promoted in one transaction, if it is still the row's draft: the *)
(* update_promote and clear_draft of activate_with, rolled back together.    *)
Promote(c) ==
    /\ draftPc[c] = "promote"
    /\ toolset' = IF Exists /\ toolset.draft = held[c]
                  THEN [active |-> held[c], draft |-> None, version |-> held[c]]
                  ELSE toolset
    /\ Finish(c)

-----------------------------------------------------------------------------
(* discard_draft: the row is read, then its draft cleared, or the row        *)
(* deleted when it had no version in service.                                *)
DiscardProbe(c) ==
    /\ Drafted
    /\ Proceed(c, IF InService THEN "discard_update" ELSE "discard_delete", None)

DiscardUpdate(c) ==
    /\ draftPc[c] = "discard_update"
    /\ UpdateRow([toolset EXCEPT !.draft = None])
    /\ Finish(c)

DiscardDelete(c) ==
    /\ draftPc[c] = "discard_delete"
    /\ toolset' = None
    /\ Finish(c)

-----------------------------------------------------------------------------
(* The CRUD resource: valider_et_deriver wants one version at least, checks  *)
(* both, and derives `version` from the active one.  Its grants are not      *)
(* checked there.  An update of a row that is gone is a NotFound.            *)
CrudWrite(a, d) ==
    /\ a # None \/ d # None
    /\ toolset' = [active |-> a, draft |-> d, version |-> IF a # None THEN a ELSE d]
    /\ UNCHANGED <<draftPc, held>>

CrudDelete ==
    /\ Exists
    /\ toolset' = None
    /\ UNCHANGED <<draftPc, held>>

-----------------------------------------------------------------------------
DraftStep(c) ==
    \/ \E d \in Definitions : PutProbe(c, d)
    \/ PutUpdate(c) \/ PutUpsert(c)
    \/ ActivateRead(c) \/ Promote(c)
    \/ DiscardProbe(c) \/ DiscardUpdate(c) \/ DiscardDelete(c)

DraftNext ==
    \/ \E c \in Calls : DraftStep(c)
    \/ \E a, d \in Versions : CrudWrite(a, d)
    \/ CrudDelete

-----------------------------------------------------------------------------
(* An activation puts in service only a definition it checked, and discards  *)
(* no draft but that one: a draft put while it ran stays a draft             *)
(* (activation.rs activate_with, update_promote).                            *)
PromotionOfItsDraft ==
    \A c \in Calls :
        (draftPc[c] = "promote" /\ draftPc'[c] = "idle" /\ toolset' # toolset) =>
            /\ toolset.draft = toolset'.active
            /\ toolset'.active \notin Reserved

(* No step of an activation does otherwise (activation.rs activate_with).    *)
PromotesOnlyItsDraft == [][PromotionOfItsDraft]_draftVars

(* Documented: a draft is discarded without touching the version in service  *)
(* (draft.rs discard_draft).                                                 *)
DiscardSparesActive ==
    [][\A c \in Calls :
          (draftPc[c] \in {"discard_update", "discard_delete"} /\ draftPc'[c] = "idle" /\ InService) =>
              toolset' # None /\ toolset'.active = toolset.active]_draftVars
=============================================================================
