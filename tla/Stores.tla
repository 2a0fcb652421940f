------------------------------- MODULE Stores -------------------------------
(* The tables that several handlers, logins or replicas write at once: the   *)
(* two versions of a toolset, the journaled writes of a batch step, the      *)
(* codes that link a Matrix identity, the memberships of an account, the     *)
(* rows of a resource, the API tokens, the store of a Matrix account.  No    *)
(* two of them share a table: a behaviour of this module is one of the seven *)
(* components', the one that `focus` names.                                  *)
EXTENDS Drafts, BatchWrites, LinkCodes, Memberships, Resources, Tokens, MatrixStore

VARIABLE focus      \* the component that runs

lymailleVars == <<draftVars, batchVars, linkVars>>
accessVars == <<memberVars, resourceVars, tokenVars>>
storesVars == <<focus, lymailleVars, accessVars, matrixVars>>

Init ==
    /\ focus \in {"drafts", "batch", "links", "logins", "rows", "tokens", "matrix"}
    /\ DraftInit
    /\ BatchInit
    /\ LinkInit
    /\ MemberInit
    /\ ResourceInit
    /\ TokenInit
    /\ MatrixInit

DraftsRun ==
    /\ focus = "drafts"
    /\ DraftNext
    /\ UNCHANGED <<focus, batchVars, linkVars, accessVars, matrixVars>>

BatchRuns ==
    /\ focus = "batch"
    /\ BatchNext
    /\ UNCHANGED <<focus, draftVars, linkVars, accessVars, matrixVars>>

LinksRun ==
    /\ focus = "links"
    /\ LinkNext
    /\ UNCHANGED <<focus, draftVars, batchVars, accessVars, matrixVars>>

LoginsRun ==
    /\ focus = "logins"
    /\ MemberNext
    /\ UNCHANGED <<focus, lymailleVars, resourceVars, tokenVars, matrixVars>>

RowsRun ==
    /\ focus = "rows"
    /\ ResourceNext
    /\ UNCHANGED <<focus, lymailleVars, memberVars, tokenVars, matrixVars>>

TokensRun ==
    /\ focus = "tokens"
    /\ TokenNext
    /\ UNCHANGED <<focus, lymailleVars, memberVars, resourceVars, matrixVars>>

MatrixRuns ==
    /\ focus = "matrix"
    /\ MatrixNext
    /\ UNCHANGED <<focus, lymailleVars, accessVars>>

Next ==
    \/ DraftsRun \/ BatchRuns \/ LinksRun
    \/ LoginsRun \/ RowsRun \/ TokensRun \/ MatrixRuns

Spec == Init /\ [][Next]_storesVars

(* The seven components are well typed (store/toolset.rs, write_journal.rs,    *)
(* chat/link.rs, membership.rs, rest/core.rs, token.rs, matrix/client.rs): a *)
(* call holds a definition, an answer, an account or a row only where it     *)
(* needs one.                                                                *)
StoresTypeOK ==
    /\ DraftTypeOK /\ BatchTypeOK /\ LinkTypeOK
    /\ MemberTypeOK /\ ResourceTypeOK /\ TokenTypeOK /\ MatrixTypeOK
=============================================================================
