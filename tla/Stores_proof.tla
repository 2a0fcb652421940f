---------------------------- MODULE Stores_proof ----------------------------
(* Proofs about Stores: for any number of calls, definitions, rows, codes,   *)
(* accounts and Matrix identities.                                           *)
EXTENDS Stores, FiniteSetTheorems, TLAPS

-----------------------------------------------------------------------------
(* Drafts.  The definition an activation carries passed check_grants.        *)
HeldChecked ==
    /\ DraftTypeOK
    /\ \A c \in Calls : draftPc[c] = "promote" => held[c] \notin Reserved

(* Nothing is being promoted in a new store. *)
LEMMA HeldInit == Init => HeldChecked
BY DEF Init, DraftInit, HeldChecked, DraftTypeOK, DraftPhases, Versions

(* A call that begins by reading leaves the row alone; what it carries to a  *)
(* promotion is checked.                                                     *)
LEMMA ProceedKeeps ==
    ASSUME HeldChecked, NEW c \in Calls, NEW phase \in DraftPhases \ {"idle"}, NEW d \in Versions,
           Proceed(c, phase, d), phase = "promote" => d \notin Reserved,
           d # None <=> phase \in {"put_update", "put_upsert", "promote"}
    PROVE  HeldChecked' /\ PromotionOfItsDraft
BY DEF Proceed, HeldChecked, DraftTypeOK, DraftPhases, PromotionOfItsDraft

(* A call that ends leaves a well typed row, and promotes nothing it did not *)
(* check.                                                                    *)
LEMMA FinishKeeps ==
    ASSUME HeldChecked, NEW c \in Calls, Finish(c), toolset' \in Rows \cup {None},
           draftPc[c] = "promote" /\ toolset' # toolset =>
              toolset.draft = toolset'.active /\ toolset'.active \notin Reserved
    PROVE  HeldChecked' /\ PromotionOfItsDraft
BY DEF Finish, HeldChecked, DraftTypeOK, DraftPhases, Versions, PromotionOfItsDraft

(* Every step of the draft store keeps what an activation carries checked,   *)
(* and promotes nothing but the draft of the row (activation.rs              *)
(* activate_with).                                                           *)
LEMMA DraftsNext ==
    ASSUME HeldChecked, DraftNext
    PROVE  HeldChecked' /\ PromotionOfItsDraft
<1> USE DefinitionsAssumption
<1>t. DraftTypeOK
  BY DEF HeldChecked
<1>1. CASE \E a, d \in Versions : CrudWrite(a, d)
  BY <1>1, <1>t DEF CrudWrite, HeldChecked, DraftTypeOK, Rows, Versions, PromotionOfItsDraft
<1>2. CASE CrudDelete
  BY <1>2, <1>t DEF CrudDelete, HeldChecked, DraftTypeOK, PromotionOfItsDraft
<1>3. ASSUME NEW c \in Calls, DraftStep(c)
      PROVE  HeldChecked' /\ PromotionOfItsDraft
  <2>1. ASSUME NEW d \in Definitions, PutProbe(c, d)
        PROVE  HeldChecked' /\ PromotionOfItsDraft
    BY <2>1, ProceedKeeps DEF PutProbe, DraftPhases, Versions
  <2>2. CASE PutUpdate(c)
    <3>1. held[c] \in Definitions
      BY <2>2, <1>t DEF PutUpdate, DraftTypeOK, Versions
    <3>2. toolset' \in Rows \cup {None}
      BY <2>2, <3>1, <1>t DEF PutUpdate, UpdateRow, Exists, DraftTypeOK, Rows, Versions
    <3> QED BY <2>2, <3>2, FinishKeeps DEF PutUpdate
  <2>3. CASE PutUpsert(c)
    <3>1. held[c] \in Definitions
      BY <2>3, <1>t DEF PutUpsert, DraftTypeOK, Versions
    <3>2. toolset' \in Rows \cup {None}
      BY <2>3, <3>1, <1>t DEF PutUpsert, Exists, DraftTypeOK, Rows, Versions
    <3> QED BY <2>3, <3>2, FinishKeeps DEF PutUpsert
  <2>4. CASE ActivateRead(c)
    <3>1. toolset.draft \in Definitions
      BY <2>4, <1>t DEF ActivateRead, Drafted, Exists, DraftTypeOK, Rows, Versions
    <3> QED BY <2>4, <3>1, ProceedKeeps DEF ActivateRead, DraftPhases, Versions
  <2>5. CASE Promote(c)
    <3>1. held[c] \in Definitions \ Reserved
      BY <2>5, <1>t DEF Promote, HeldChecked, DraftTypeOK, Versions
    <3>2. toolset' \in Rows \cup {None}
      BY <2>5, <3>1, <1>t DEF Promote, DraftTypeOK, Rows, Versions
    <3>3. toolset' # toolset => toolset.draft = toolset'.active /\ toolset'.active \notin Reserved
      BY <2>5, <3>1 DEF Promote
    <3> QED BY <2>5, <3>2, <3>3, FinishKeeps DEF Promote
  <2>6. CASE DiscardProbe(c)
    BY <2>6, ProceedKeeps DEF DiscardProbe, DraftPhases, Versions
  <2>7. CASE DiscardUpdate(c)
    <3>1. toolset' \in Rows \cup {None}
      BY <2>7, <1>t DEF DiscardUpdate, UpdateRow, Exists, DraftTypeOK, Rows, Versions
    <3> QED BY <2>7, <3>1, FinishKeeps DEF DiscardUpdate
  <2>8. CASE DiscardDelete(c)
    BY <2>8, FinishKeeps DEF DiscardDelete
  <2> QED BY <1>3, <2>1, <2>2, <2>3, <2>4, <2>5, <2>6, <2>7, <2>8 DEF DraftStep
<1> QED BY <1>1, <1>2, <1>3 DEF DraftNext

(* What the other components do leaves the draft store alone. *)
LEMMA HeldNext ==
    HeldChecked /\ [Next]_storesVars => HeldChecked' /\ [PromotionOfItsDraft]_draftVars
<1> SUFFICES ASSUME HeldChecked, [Next]_storesVars
             PROVE  HeldChecked' /\ [PromotionOfItsDraft]_draftVars
  OBVIOUS
<1>1. CASE UNCHANGED draftVars
  BY <1>1 DEF draftVars, HeldChecked, DraftTypeOK
<1>2. CASE DraftsRun
  BY <1>2, DraftsNext DEF DraftsRun
<1> QED BY <1>1, <1>2
       DEF Next, BatchRuns, LinksRun, LoginsRun, RowsRun, TokensRun, MatrixRuns,
           storesVars, lymailleVars, accessVars

(* An activation puts in service only a definition it checked, and takes     *)
(* away no draft but that one, whatever the other calls do meanwhile         *)
(* (activation.rs activate_with, update_promote).                            *)
THEOREM PromotesOnlyItsDraftAlways == Spec => PromotesOnlyItsDraft
<1>1. Spec => []HeldChecked
  BY HeldInit, HeldNext, PTL DEF Spec
<1> QED BY <1>1, HeldNext, PTL DEF Spec, PromotesOnlyItsDraft

-----------------------------------------------------------------------------
(* Batch writes.  An answer fits its call while it waits to be recorded and  *)
(* once it is; what was executed and not recorded yet is the current call,   *)
(* and a call about to write has no entry.                                   *)
JournalSound ==
    /\ BatchTypeOK
    /\ AnswersFitTheirCall
    /\ \A w \in done : journal[w] # None \/ (stepPc = "record" /\ call = w)
    /\ stepPc \in {"write", "reread"} => journal[call] = None
    /\ stepPc = "reread" => call.op = "create"

(* A call executed again has no trace of an execution left.                  *)
RedoneAfterLoss == stepPc = "write" /\ stepPc' = "record" => call \notin done

(* A new step has journaled nothing. *)
LEMMA JournalInit == Init => JournalSound
BY BatchAssumption, NoneAssumption
   DEF Init, BatchInit, JournalSound, BatchTypeOK, StepPhases, AnswersFitTheirCall, OpKey

(* What is executed was not journaled, so it was not executed, or its entry  *)
(* was lost (resource_module.rs create, update, delete).                     *)
LEMMA WriteIsNew == JournalSound => RedoneAfterLoss
BY DEF JournalSound, RedoneAfterLoss

(* The script is given back the hand: nothing is in progress. *)
LEMMA BackKeeps ==
    ASSUME JournalSound, BackToScript,
           rows' \in [Ids -> Bodies \cup {None}], drawn' \in 0 .. MaxRows,
           UNCHANGED journal, done' \subseteq done,
           stepPc = "record" => call \notin done'
    PROVE  JournalSound'
BY DEF BackToScript, JournalSound, BatchTypeOK, StepPhases, AnswersFitTheirCall, OpKey

(* An answer is got, that fits the call. *)
LEMMA AnswerKeeps ==
    ASSUME JournalSound, stepPc \in {"write", "reread"}, stepPc' = "record",
           UNCHANGED <<call, writes, journal>>, answer' \in Answers, Fits(answer', call),
           rows' \in [Ids -> Bodies \cup {None}], drawn' \in 0 .. MaxRows,
           done' \in {done, done \cup {call}}
    PROVE  JournalSound'
BY NoneAssumption DEF JournalSound, BatchTypeOK, StepPhases, AnswersFitTheirCall, OpKey

(* The steps of the attempt and of the other users. *)
LEMMA JournalNext ==
    ASSUME JournalSound, BatchNext
    PROVE  JournalSound'
<1> USE BatchAssumption, NoneAssumption
<1>t. BatchTypeOK /\ AnswersFitTheirCall
  BY DEF JournalSound
<1>c. stepPc # "script" => call \in Writes
  BY <1>t DEF BatchTypeOK
<1>1. ASSUME NEW w \in Writes, Charge(w)
      PROVE  JournalSound'
  BY <1>1, <1>t DEF Charge, JournalSound, BatchTypeOK, StepPhases, AnswersFitTheirCall, OpKey
<1>2. ASSUME NEW w \in Writes, PurgeJournal(w)
      PROVE  JournalSound'
  BY <1>2, <1>t DEF PurgeJournal, stepVars, JournalSound, BatchTypeOK, StepPhases,
                    AnswersFitTheirCall, OpKey
<1>3. CASE Replay
  <2>1. CASE journal[OpKey(call)] # None
    BY <2>1, <1>3, <1>t, BackKeeps DEF Replay, BatchTypeOK
  <2>2. CASE journal[OpKey(call)] = None
    BY <2>2, <1>3, <1>t DEF Replay, JournalSound, BatchTypeOK, StepPhases, AnswersFitTheirCall, OpKey
  <2> QED BY <2>1, <2>2
<1>4. CASE CreateRow
  <2>1. CASE stepPc' = "reread"
    BY <2>1, <1>4, <1>t, <1>c DEF CreateRow, Written, JournalSound, BatchTypeOK, StepPhases,
                            AnswersFitTheirCall, OpKey
  <2>2. CASE InsertRow(call.body) /\ Written([id |-> drawn + 1, body |-> call.body])
    <3>1. call \in Creates
      BY <1>4, <1>c DEF CreateRow, Writes, Creates, Updates, Deletes
    <3>2. call.body \in Bodies /\ drawn + 1 \in Ids
      BY <3>1, <2>2, <1>t DEF Creates, InsertRow, BatchTypeOK, Ids
    <3>3. answer' \in Answers /\ Fits(answer', call)
      BY <3>2, <2>2, <1>4 DEF Written, Answers, Fits, CreateRow
    <3>4. rows' \in [Ids -> Bodies \cup {None}] /\ drawn' \in 0 .. MaxRows
      BY <3>2, <2>2, <1>t DEF InsertRow, BatchTypeOK, Ids
    <3> QED BY <3>3, <3>4, <2>2, <1>4, AnswerKeeps DEF Written, CreateRow
  <2> QED BY <2>1, <2>2, <1>4 DEF CreateRow
<1>5. CASE Adopt
  <2>1. CASE BackToScript
    BY <2>1, <1>5, <1>t, BackKeeps DEF Adopt, BatchTypeOK
  <2>2. ASSUME NEW i \in Ids, rows[i] = call.body, stepPc' = "record",
               answer' = [id |-> i, body |-> rows[i]], UNCHANGED <<call, writes>>
        PROVE  JournalSound'
    <3>1. answer' \in Answers
      BY <2>2, <1>t DEF Answers, BatchTypeOK
    <3>2. Fits(answer', call)
      BY <2>2, <1>5 DEF Fits, Adopt, JournalSound
    <3> QED BY <3>1, <3>2, <2>2, <1>5, <1>t, AnswerKeeps DEF Adopt, BatchTypeOK
  <2> QED BY <2>1, <2>2, <1>5 DEF Adopt
<1>6. CASE UpdateRowOf
  <2>1. CASE Refused
    BY <2>1, <1>6, <1>t, BackKeeps DEF UpdateRowOf, Refused, BatchTypeOK
  <2>2. CASE /\ rows' = [rows EXCEPT ![call.id] = call.body]
             /\ Written([id |-> call.id, body |-> call.body])
             /\ UNCHANGED drawn
    <3>1. call.id \in Ids /\ call.body \in Bodies
      BY <1>6, <1>c DEF UpdateRowOf, Writes, Creates, Updates, Deletes
    <3>2. answer' \in Answers /\ Fits(answer', call)
      BY <3>1, <2>2 DEF Written, Answers, Fits
    <3>3. rows' \in [Ids -> Bodies \cup {None}] /\ drawn' \in 0 .. MaxRows
      BY <3>1, <2>2, <1>t DEF BatchTypeOK
    <3> QED BY <3>2, <3>3, <2>2, <1>6, AnswerKeeps DEF Written, UpdateRowOf
  <2> QED BY <2>1, <2>2, <1>6 DEF UpdateRowOf
<1>7. CASE DeleteRow
  <2>1. CASE Refused
    BY <2>1, <1>7, <1>t, BackKeeps DEF DeleteRow, Refused, BatchTypeOK
  <2>2. CASE /\ rows' = [rows EXCEPT ![call.id] = None]
             /\ Written([id |-> call.id, body |-> None])
             /\ UNCHANGED drawn
    <3>1. call.id \in Ids /\ call.body = None
      BY <1>7, <1>c DEF DeleteRow, Writes, Creates, Updates, Deletes
    <3>2. answer' \in Answers /\ Fits(answer', call)
      BY <3>1, <2>2 DEF Written, Answers, Fits
    <3>3. rows' \in [Ids -> Bodies \cup {None}] /\ drawn' \in 0 .. MaxRows
      BY <3>1, <2>2, <1>t DEF BatchTypeOK
    <3> QED BY <3>2, <3>3, <2>2, <1>7, AnswerKeeps DEF Written, DeleteRow
  <2> QED BY <2>1, <2>2, <1>7 DEF DeleteRow
<1>8. CASE Record
  BY <1>8, <1>t, <1>c DEF Record, BackToScript, JournalSound, BatchTypeOK, StepPhases,
                          AnswersFitTheirCall, OpKey
<1>9. CASE RecordFails
  BY <1>9, <1>t, BackKeeps DEF RecordFails, BatchTypeOK
<1>10. CASE Rerun
  BY <1>10, <1>t DEF Rerun, JournalSound, BatchTypeOK, StepPhases, AnswersFitTheirCall, OpKey
<1>11. CASE OtherWrite
  <2>1. rows' \in [Ids -> Bodies \cup {None}] /\ drawn' \in 0 .. MaxRows
    <3>1. ASSUME NEW b \in Bodies, InsertRow(b)
          PROVE  rows' \in [Ids -> Bodies \cup {None}] /\ drawn' \in 0 .. MaxRows
      BY <3>1, <1>t DEF InsertRow, BatchTypeOK, Ids
    <3>2. ASSUME NEW i \in Ids, NEW b \in Bodies \cup {None},
                 rows' = [rows EXCEPT ![i] = b], UNCHANGED drawn
          PROVE  rows' \in [Ids -> Bodies \cup {None}] /\ drawn' \in 0 .. MaxRows
      BY <3>2, <1>t DEF BatchTypeOK
    <3> QED BY <3>1, <3>2, <1>11 DEF OtherWrite
  <2> QED BY <2>1, <1>11, <1>t DEF OtherWrite, stepVars, JournalSound, BatchTypeOK,
                                   AnswersFitTheirCall, OpKey
<1> QED BY <1>1, <1>2, <1>3, <1>4, <1>5, <1>6, <1>7, <1>8, <1>9, <1>10, <1>11 DEF BatchNext

(* The other components leave the rows and the journal alone. *)
LEMMA JournalKept == JournalSound /\ [Next]_storesVars => JournalSound'
<1> SUFFICES ASSUME JournalSound, [Next]_storesVars
             PROVE  JournalSound'
  OBVIOUS
<1>1. CASE UNCHANGED batchVars
  BY <1>1 DEF batchVars, stepVars, JournalSound, BatchTypeOK, AnswersFitTheirCall, OpKey
<1>2. CASE BatchRuns
  BY <1>2, JournalNext DEF BatchRuns
<1> QED BY <1>1, <1>2
       DEF Next, DraftsRun, LinksRun, LoginsRun, RowsRun, TokensRun, MatrixRuns,
           storesVars, lymailleVars, accessVars

(* An answer, given now or kept for a later attempt, is an answer to that    *)
(* very call (resource_module.rs reread_matching, record; write_journal.rs   *)
(* op_key).                                                                  *)
THEOREM AnswersFitTheirCallAlways == Spec => []AnswersFitTheirCall
<1>1. Spec => []JournalSound
  BY JournalInit, JournalKept, PTL DEF Spec
<1>2. JournalSound => AnswersFitTheirCall
  BY DEF JournalSound
<1> QED BY <1>1, <1>2, PTL

(* A call is executed again only when the journal entry of an execution was  *)
(* lost (resource_module.rs create, update, delete).                         *)
THEOREM RedoneOnlyAfterLossAlways == Spec => RedoneOnlyAfterLoss
<1>1. Spec => []JournalSound
  BY JournalInit, JournalKept, PTL DEF Spec
<1>2. JournalSound => [RedoneAfterLoss]_batchVars
  BY WriteIsNew
<1> QED BY <1>1, <1>2, PTL DEF RedoneOnlyAfterLoss, RedoneAfterLoss

-----------------------------------------------------------------------------
(* Link codes.  A call that issues a code has a number of its own, whose     *)
(* code does not exist yet; a code that exists was issued and not spent; a   *)
(* call that consumes one knows the account it was issued to.                *)
Issuing(c) == linkPc[c] \in {"select", "surplus", "insert"}
Consuming(c) == linkPc[c] \in {"scan", "owner", "write"}

Unborn(k) == codes[k] = None /\ issuedTo[k] = None /\ spentBy[k] = {}

CodeSound ==
    /\ LinkShapeOK
    /\ \A k \in Codes : k > lastCode => Unborn(k)
    /\ \A c \in Calls : Issuing(c) => who[c] \in Users /\ what[c] \in 1 .. lastCode /\ Unborn(what[c])
    /\ \A c, e \in Calls : Issuing(c) /\ Issuing(e) /\ c # e => what[c] # what[e]
    /\ \A c \in Calls : Consuming(c) => who[c] \in Mxids /\ what[c] \in Codes
    /\ \A c \in Calls : found[c] # None => Consuming(c) /\ issuedTo[what[c]] = found[c]
    /\ \A k \in Codes : codes[k] # None => issuedTo[k] = codes[k] /\ spentBy[k] = {}
    /\ \A k \in Codes : \A m, n \in spentBy[k] : m = n
    /\ LinksProven

(* A new store has no code and no link. *)
LEMMA CodeInit == Init => CodeSound
BY LinkAssumption DEF Init, LinkInit, CodeSound, LinkShapeOK, LinkPhases, Issuing, Consuming,
                      Unborn, LinksProven, Codes

(* The calls that issue a code. *)
LEMMA IssueKeeps ==
    ASSUME CodeSound, NEW c \in Calls,
           \/ \E u \in Users : IssueCode(c, u)
           \/ IssueSelect(c) \/ IssueDelete(c) \/ IssueInsert(c)
    PROVE  CodeSound' /\ LinkKept
<1> USE LinkAssumption, UsersAssumption
<1>1. ASSUME NEW u \in Users, IssueCode(c, u)
      PROVE  CodeSound' /\ LinkKept
  BY <1>1 DEF IssueCode, CodeSound, LinkShapeOK, LinkPhases, Issuing, Consuming, Unborn,
              LinksProven, Codes, LinkKept
<1>2. CASE IssueSelect(c)
  BY <1>2 DEF IssueSelect, Reaches, Unexpired, CodeSound, LinkShapeOK, LinkPhases, Issuing,
              Consuming, Unborn, LinksProven, Codes, LinkKept
<1>3. CASE IssueDelete(c)
  <2>1. CASE surplus[c] = {} /\ Reaches(c, "insert") /\ UNCHANGED <<surplus, codes>>
    BY <2>1, <1>3 DEF IssueDelete, Reaches, CodeSound, LinkShapeOK, LinkPhases, Issuing,
              Consuming, Unborn, LinksProven, Codes, LinkKept
  <2>2. ASSUME NEW k \in surplus[c], codes' = [codes EXCEPT ![k] = None],
               surplus' = [surplus EXCEPT ![c] = @ \ {k}], Reaches(c, "surplus")
        PROVE  CodeSound' /\ LinkKept
    <3>1. LinkShapeOK' /\ k \in Codes
      BY <2>2, <1>3 DEF IssueDelete, Reaches, CodeSound, LinkShapeOK, LinkPhases
    <3> QED BY <3>1, <2>2, <1>3 DEF IssueDelete, Reaches, CodeSound, LinkShapeOK, LinkPhases, Issuing,
              Consuming, Unborn, LinksProven, Codes, LinkKept
  <2> QED BY <2>1, <2>2, <1>3 DEF IssueDelete
<1>4. CASE IssueInsert(c)
  BY <1>4 DEF IssueInsert, Rested, CodeSound, LinkShapeOK, LinkPhases, Issuing,
              Consuming, Unborn, LinksProven, Codes, LinkKept
<1> QED BY <1>1, <1>2, <1>3, <1>4

(* A call that ends is no more at work; the others are where they were. *)
RestedAlone(c) ==
    /\ \A e \in Calls : Issuing(e)' => Issuing(e) /\ e # c
    /\ \A e \in Calls : Consuming(e)' => Consuming(e) /\ e # c
    /\ \A e \in Calls \ {c} : who'[e] = who[e] /\ what'[e] = what[e] /\ found'[e] = found[e]
    /\ \A e \in Calls \ {c} : linkPc'[e] = linkPc[e]
    /\ found'[c] = None

(* Rested does that. *)
LEMMA RestFacts ==
    ASSUME CodeSound, NEW c \in Calls, Rested(c)
    PROVE  RestedAlone(c)
BY DEF Rested, CodeSound, LinkShapeOK, Issuing, Consuming, RestedAlone

(* A call that ends without a write leaves codes and links as they are. *)
LEMMA RestKeeps ==
    ASSUME CodeSound, NEW c \in Calls, Consuming(c), Rested(c),
           UNCHANGED <<codes, link, horizon, lastCode, issuedTo, spentBy>>
    PROVE  CodeSound' /\ LinkKept
<1>1. LinkShapeOK'
  BY LinkAssumption DEF Rested, CodeSound, LinkShapeOK, LinkPhases
<1>2. RestedAlone(c)
  BY RestFacts
<1>3. \A k \in Codes : Unborn(k)' <=> Unborn(k)
  BY DEF Unborn
<1>4. \A e \in Calls : Issuing(e)' => who'[e] \in Users /\ what'[e] \in 1 .. lastCode /\ Unborn(what[e])'
  BY <1>2 DEF CodeSound, RestedAlone, Unborn
<1>5. /\ \A e, f \in Calls : Issuing(e)' /\ Issuing(f)' /\ e # f => what'[e] # what'[f]
      /\ \A e \in Calls : Consuming(e)' => who'[e] \in Mxids /\ what'[e] \in Codes
      /\ \A e \in Calls : found'[e] # None => Consuming(e)' /\ issuedTo[what'[e]] = found'[e]
  BY <1>2 DEF CodeSound, Consuming, RestedAlone
<1>6. LinksProven' /\ LinkKept
  BY DEF CodeSound, LinksProven, LinkKept
<1>7. \A k \in Codes : k > lastCode' => Unborn(k)'
  BY <1>3 DEF CodeSound
<1>8. /\ \A k \in Codes : codes'[k] # None => issuedTo'[k] = codes'[k] /\ spentBy'[k] = {}
      /\ \A k \in Codes : \A m, n \in spentBy'[k] : m = n
  BY DEF CodeSound
<1>9. UNCHANGED <<lastCode, issuedTo>>
  OBVIOUS
<1> QED BY <1>1, <1>4, <1>5, <1>6, <1>7, <1>8, <1>9 DEF CodeSound

(* The code a call deletes was issued and not spent: no other call issues it.*)
LEMMA SpendKeeps ==
    ASSUME CodeSound, NEW c \in Calls, linkPc[c] = "write", Rested(c), codes[what[c]] # None,
           Consumed(c), UNCHANGED <<horizon, lastCode, issuedTo>>,
           \/ UNCHANGED link
           \/ found[c] # None /\ link[who[c]] = None /\ Linked(c)
    PROVE  CodeSound' /\ LinkKept
<1> DEFINE k == what[c]
           m == who[c]
<1>1. k \in Codes /\ m \in Mxids /\ codes[k] \in Users /\ codes[k] # None /\ issuedTo[k] = codes[k] /\ spentBy[k] = {}
  BY DEF CodeSound, LinkShapeOK, Consuming
<1>2. LinkShapeOK'
  BY <1>1, LinkAssumption DEF Rested, Consumed, Linked, CodeSound, LinkShapeOK, LinkPhases
<1>3. spentBy' = [spentBy EXCEPT ![k] = {m}] /\ codes' = [codes EXCEPT ![k] = None]
  <2>1. spentBy[k] \cup {m} = {m}
    BY <1>1
  <2> QED BY <2>1 DEF Consumed
<1>4. \A j \in Codes : Unborn(j) => Unborn(j)' /\ j # k
  BY <1>1, <1>3 DEF Unborn, CodeSound, LinkShapeOK
<1>5. RestedAlone(c)
  BY RestFacts
<1>6. \A j \in Codes : j > lastCode => Unborn(j)'
  BY <1>4 DEF CodeSound
<1>7. \A e \in Calls : Issuing(e)' => who'[e] \in Users /\ what'[e] \in 1 .. lastCode /\ Unborn(what[e])'
  <2> SUFFICES ASSUME NEW e \in Calls, Issuing(e)'
               PROVE  who'[e] \in Users /\ what'[e] \in 1 .. lastCode /\ Unborn(what[e])'
    OBVIOUS
  <2>1. who[e] \in Users /\ what[e] \in 1 .. lastCode /\ Unborn(what[e]) /\ what[e] \in Codes
    BY <1>5, LinkAssumption DEF CodeSound, LinkShapeOK, Codes, RestedAlone
  <2>2. codes'[what[e]] = None /\ issuedTo'[what[e]] = None /\ spentBy'[what[e]] = {}
    BY <2>1, <1>4 DEF Unborn
  <2> QED BY <2>1, <2>2, <1>5 DEF Unborn, RestedAlone
<1>8. /\ \A e, f \in Calls : Issuing(e)' /\ Issuing(f)' /\ e # f => what'[e] # what'[f]
      /\ \A e \in Calls : Consuming(e)' => who'[e] \in Mxids /\ what'[e] \in Codes
      /\ \A e \in Calls : found'[e] # None => Consuming(e)' /\ issuedTo[what'[e]] = found'[e]
  BY <1>5 DEF CodeSound, Consuming, RestedAlone
<1>9. /\ \A j \in Codes : codes'[j] # None => issuedTo[j] = codes'[j] /\ spentBy'[j] = {}
      /\ \A j \in Codes : \A a, b \in spentBy'[j] : a = b
  BY <1>1, <1>3 DEF CodeSound, LinkShapeOK
<1>10. LinksProven' /\ LinkKept
  <2>1. \A j \in Codes : spentBy[j] \subseteq spentBy'[j]
    BY <1>1, <1>3 DEF LinkShapeOK, CodeSound
  <2>2. CASE UNCHANGED link
    BY <2>1, <2>2 DEF LinksProven, LinkKept, CodeSound
  <2>3. CASE found[c] # None /\ link[m] = None /\ Linked(c)
    <3>1. issuedTo[k] = found[c] /\ m \in spentBy'[k]
      BY <1>1, <1>3, <2>3 DEF CodeSound, LinkShapeOK
    <3>2. link' = [link EXCEPT ![m] = found[c]]
      BY <2>3 DEF Linked
    <3> QED BY <1>1, <2>1, <2>3, <3>1, <3>2 DEF LinksProven, LinkKept, CodeSound, LinkShapeOK
  <2> QED BY <2>2, <2>3
<1> QED BY <1>2, <1>6, <1>7, <1>8, <1>9, <1>10 DEF CodeSound

(* The calls that consume one. *)
LEMMA ConsumeKeeps ==
    ASSUME CodeSound, NEW c \in Calls,
           \/ \E m \in Mxids, k \in Codes : ConsumeCode(c, m, k)
           \/ ConsumeScan(c) \/ ConsumeOwner(c) \/ Spend(c)
    PROVE  CodeSound' /\ LinkKept
<1> USE LinkAssumption, UsersAssumption
<1>1. ASSUME NEW m \in Mxids, NEW k \in Codes, ConsumeCode(c, m, k)
      PROVE  CodeSound' /\ LinkKept
  <2>1. LinkShapeOK'
    BY <1>1 DEF ConsumeCode, CodeSound, LinkShapeOK, LinkPhases, Codes
  <2>2. UNCHANGED <<found, codes, link, lastCode, issuedTo, spentBy>>
    BY <1>1 DEF ConsumeCode
  <2>3. \A e \in Calls : Issuing(e)' => Issuing(e) /\ who'[e] = who[e] /\ what'[e] = what[e]
    BY <1>1 DEF ConsumeCode, CodeSound, LinkShapeOK, Issuing
  <2>4. \A e \in Calls : e # c =>
           Consuming(e)' = Consuming(e) /\ who'[e] = who[e] /\ what'[e] = what[e]
    BY <1>1 DEF ConsumeCode, CodeSound, LinkShapeOK, Consuming
  <2>5. who'[c] = m /\ what'[c] = k /\ found[c] = None
    BY <1>1 DEF ConsumeCode, CodeSound, LinkShapeOK, Consuming
  <2>6. \A e \in Calls : Consuming(e)' => who'[e] \in Mxids /\ what'[e] \in Codes
    BY <2>4, <2>5 DEF CodeSound
  <2>7. \A e \in Calls : found'[e] # None => Consuming(e)' /\ issuedTo'[what'[e]] = found'[e]
    BY <2>2, <2>4, <2>5 DEF CodeSound
  <2>8. \A e \in Calls : Issuing(e)' =>
           who'[e] \in Users /\ what'[e] \in 1 .. lastCode' /\ Unborn(what[e])'
    BY <2>2, <2>3 DEF CodeSound, Unborn
  <2>9. /\ \A j \in Codes : j > lastCode' => Unborn(j)'
        /\ \A e, f \in Calls : Issuing(e)' /\ Issuing(f)' /\ e # f => what'[e] # what'[f]
    BY <2>2, <2>3 DEF CodeSound, Unborn
  <2> QED BY <2>1, <2>2, <2>3, <2>6, <2>7, <2>8, <2>9 DEF CodeSound, LinksProven, LinkKept, Unborn
<1>2. CASE ConsumeScan(c)
  <2>1. CASE Failed(c) /\ Rested(c)
    BY <2>1, <1>2, RestKeeps DEF ConsumeScan, Failed, Consuming
  <2>2. CASE what[c] \in Unexpired(now[c])
    <3>1. /\ found' = [found EXCEPT ![c] = codes[what[c]]]
          /\ linkPc' = [linkPc EXCEPT ![c] = "owner"]
          /\ UNCHANGED <<who, what, now, surplus, codes, spentBy, link, lastCode, issuedTo, horizon>>
      BY <2>2, <1>2 DEF ConsumeScan, Reaches
    <3>2. codes[what[c]] \in Users /\ issuedTo[what[c]] = codes[what[c]]
      BY <2>2 DEF Unexpired, CodeSound, LinkShapeOK
    <3>3. LinkShapeOK'
      BY <3>1, <3>2 DEF CodeSound, LinkShapeOK, LinkPhases
    <3> QED BY <3>1, <3>2, <3>3, <1>2 DEF ConsumeScan, CodeSound, LinkShapeOK, Issuing, Consuming,
                                         Unborn, LinksProven, LinkKept
  <2> QED BY <2>1, <2>2, <1>2 DEF ConsumeScan
<1>3. CASE ConsumeOwner(c)
  <2>1. CASE Rested(c)
    BY <2>1, <1>3, RestKeeps DEF ConsumeOwner, Consuming
  <2>2. CASE /\ linkPc' = [linkPc EXCEPT ![c] = "write"]
             /\ \/ UNCHANGED found
                \/ found' = [found EXCEPT ![c] = None]
             /\ UNCHANGED <<who, what, now, surplus>>
    <3>1. LinkShapeOK'
      BY <2>2, <1>3 DEF ConsumeOwner, CodeSound, LinkShapeOK, LinkPhases
    <3> QED BY <3>1, <2>2, <1>3 DEF ConsumeOwner, CodeSound, LinkShapeOK, Issuing, Consuming,
                                   Unborn, LinksProven, LinkKept
  <2>3. found[c] \in Users \cup {None}
    BY DEF CodeSound, LinkShapeOK
  <2>4. [found EXCEPT ![c] = found[c]] = found
    BY DEF CodeSound, LinkShapeOK
  <2> QED BY <2>1, <2>2, <2>4, <1>3 DEF ConsumeOwner
<1>4. CASE Spend(c)
  <2>1. CASE UNCHANGED <<codes, spentBy, link>>
    BY <2>1, <1>4, RestKeeps DEF Spend, Spending, Consuming
  <2>2. CASE /\ codes[what[c]] # None
             /\ Consumed(c)
             /\ UNCHANGED link \/ (found[c] # None /\ link[who[c]] = None /\ Linked(c))
    BY <2>2, <1>4, SpendKeeps DEF Spend, Spending
  <2> QED BY <2>1, <2>2, <1>4 DEF Spend, Failed
<1> QED BY <1>1, <1>2, <1>3, <1>4

(* The steps that are no call's. *)
LEMMA CodeNext ==
    ASSUME CodeSound, LinkNext
    PROVE  CodeSound' /\ LinkKept
<1>1. ASSUME NEW u \in Users, NEW m \in Mxids, Unlink(u, m)
      PROVE  CodeSound' /\ LinkKept
  BY <1>1, UsersAssumption DEF Unlink, linkCallVars, CodeSound, LinkShapeOK, Issuing, Consuming, Unborn,
                           LinksProven, LinkKept
<1>2. ASSUME UNCHANGED <<codes, link, lastCode, linkCallVars, issuedTo, spentBy>>,
             horizon' \in 0 .. MaxCodes
      PROVE  CodeSound' /\ LinkKept
  BY <1>2 DEF linkCallVars, CodeSound, LinkShapeOK, Issuing, Consuming, Unborn, LinksProven, LinkKept
<1>3. CASE CodeExpires
  <2>1. horizon' \in 0 .. MaxCodes
    BY <1>3, LinkAssumption DEF CodeExpires, CodeSound, LinkShapeOK
  <2> QED BY <2>1, <1>2, <1>3 DEF CodeExpires
<1>4. ASSUME NEW m \in Mxids, WindowEnds(m)
      PROVE  CodeSound' /\ LinkKept
  <2>1. horizon' \in 0 .. MaxCodes
    BY <1>4 DEF WindowEnds, CodeSound, LinkShapeOK
  <2> QED BY <2>1, <1>2, <1>4 DEF WindowEnds
<1> QED BY <1>1, <1>3, <1>4, IssueKeeps, ConsumeKeeps DEF LinkNext

(* The other components leave codes and links alone. *)
LEMMA CodeKept == CodeSound /\ [Next]_storesVars => CodeSound' /\ [LinkKept]_linkVars
<1> SUFFICES ASSUME CodeSound, [Next]_storesVars
             PROVE  CodeSound' /\ [LinkKept]_linkVars
  OBVIOUS
<1>1. CASE UNCHANGED linkVars
  BY <1>1 DEF linkVars, linkCallVars, CodeSound, LinkShapeOK, Issuing, Consuming, Unborn, LinksProven
<1>2. CASE LinksRun
  BY <1>2, CodeNext DEF LinksRun
<1> QED BY <1>1, <1>2
       DEF Next, DraftsRun, BatchRuns, LoginsRun, RowsRun, TokensRun, MatrixRuns,
           storesVars, lymailleVars, accessVars

(* CodeSound holds in every state. *)
LEMMA CodeSoundAlways == Spec => []CodeSound
BY CodeInit, CodeKept, PTL DEF Spec

(* A code is spent by one Matrix identity, whoever types it at the same      *)
(* moment (link.rs consume_code).                                            *)
THEOREM CodeSpentOnceAlways == Spec => []CodeSpentOnce
<1>1. CodeSound => CodeSpentOnce
  <2> SUFFICES ASSUME CodeSound, NEW k \in Codes
               PROVE  Cardinality(spentBy[k]) <= 1
    BY DEF CodeSpentOnce
  <2>1. CASE spentBy[k] = {}
    <3>1. Cardinality(spentBy[k]) = 0
      BY <2>1, FS_EmptySet
    <3> QED BY <3>1
  <2>2. ASSUME NEW m \in spentBy[k]
        PROVE  Cardinality(spentBy[k]) <= 1
    <3>1. spentBy[k] = {m}
      BY <2>2 DEF CodeSound
    <3>2. Cardinality(spentBy[k]) = 1
      BY <3>1, FS_Singleton
    <3> QED BY <3>2
  <2> QED BY <2>1, <2>2
<1> QED BY <1>1, CodeSoundAlways, PTL

(* Who has a link typed a code issued to that very account (link.rs          *)
(* consume_code, issue_code).                                                *)
THEOREM LinksProvenAlways == Spec => []LinksProven
<1>1. CodeSound => LinksProven
  BY DEF CodeSound
<1> QED BY <1>1, CodeSoundAlways, PTL

(* A linked identity passes to another account only through an unlink        *)
(* (link.rs consume_code, unlink).                                           *)
THEOREM NoTakeoverAlways == Spec => NoTakeover
BY CodeSoundAlways, CodeKept, PTL DEF NoTakeover, Spec

(* The failures counted for an identity, and the calls that may still fail,  *)
(* are never more than the limit and all the calls there are.                *)
ConsumingOf(m) == {c \in Calls : Consuming(c) /\ who[c] = m}
Most == AttemptLimit + Cardinality(Calls)

FailuresBounded ==
    /\ failures \in [Mxids -> Nat]
    /\ \A m \in Mxids : failures[m] + Cardinality(ConsumingOf(m)) <= Most

(* Fewer calls, as many failures at most. *)
Relaxes ==
    /\ failures' \in [Mxids -> Nat]
    /\ \A m \in Mxids : failures'[m] <= failures[m] /\ ConsumingOf(m)' \subseteq ConsumingOf(m)

(* Sets of calls are finite. *)
LEMMA CallSets ==
    ASSUME NEW S \in SUBSET Calls, NEW T \in SUBSET S
    PROVE  /\ IsFiniteSet(S) /\ Cardinality(S) \in Nat /\ Cardinality(Calls) \in Nat
           /\ Cardinality(T) \in Nat
           /\ Cardinality(T) <= Cardinality(S) /\ Cardinality(S) <= Cardinality(Calls)
BY CallsAssumption, FS_Subset, FS_CardinalityType

LEMMA RelaxKeeps == FailuresBounded /\ Relaxes => FailuresBounded'
<1> SUFFICES ASSUME FailuresBounded, Relaxes, NEW m \in Mxids
             PROVE  failures'[m] + Cardinality(ConsumingOf(m)') <= Most
  BY DEF FailuresBounded, Relaxes, Most
<1>1. ConsumingOf(m) \in SUBSET Calls /\ ConsumingOf(m)' \in SUBSET ConsumingOf(m)
  BY DEF Relaxes, ConsumingOf
<1>2. /\ Cardinality(ConsumingOf(m)) \in Nat /\ Cardinality(ConsumingOf(m)') \in Nat
      /\ Cardinality(ConsumingOf(m)') <= Cardinality(ConsumingOf(m)) /\ Most \in Nat
  BY <1>1, CallSets, LinkAssumption DEF Most
<1>3. failures[m] \in Nat /\ failures'[m] \in Nat /\ failures'[m] <= failures[m]
      /\ failures[m] + Cardinality(ConsumingOf(m)) <= Most
  BY DEF FailuresBounded, Relaxes
<1> QED BY <1>2, <1>3

(* A call that fails will not fail again. *)
LEMMA FailKeeps ==
    ASSUME CodeSound, FailuresBounded, NEW c \in Calls, Consuming(c), Rested(c), Failed(c)
    PROVE  FailuresBounded'
<1> DEFINE m == who[c]
<1>1. m \in Mxids /\ RestedAlone(c)
  BY RestFacts DEF CodeSound
<1>2. failures' = [failures EXCEPT ![m] = @ + 1] /\ failures' \in [Mxids -> Nat]
  BY <1>1 DEF Failed, FailuresBounded
<1>3. \A n \in Mxids : ConsumingOf(n)' \subseteq ConsumingOf(n) \ {c}
  BY <1>1 DEF ConsumingOf, RestedAlone
<1>4. ASSUME NEW n \in Mxids
      PROVE  failures'[n] + Cardinality(ConsumingOf(n)') <= Most
  <2>1. ConsumingOf(n) \in SUBSET Calls /\ ConsumingOf(n)' \in SUBSET (ConsumingOf(n) \ {c})
    BY <1>3 DEF ConsumingOf
  <2>2. /\ Cardinality(ConsumingOf(n)) \in Nat /\ Cardinality(ConsumingOf(n)') \in Nat /\ Most \in Nat
        /\ Cardinality(ConsumingOf(n) \ {c}) \in Nat
        /\ Cardinality(ConsumingOf(n)') <= Cardinality(ConsumingOf(n) \ {c})
        /\ Cardinality(ConsumingOf(n) \ {c}) <= Cardinality(ConsumingOf(n))
        /\ IsFiniteSet(ConsumingOf(n))
    BY <2>1, CallSets, LinkAssumption DEF Most
  <2>3. failures[n] \in Nat /\ failures[n] + Cardinality(ConsumingOf(n)) <= Most
    BY DEF FailuresBounded
  <2>4. CASE n = m
    <3>1. c \in ConsumingOf(n)
      BY <2>4 DEF ConsumingOf
    <3>2. Cardinality(ConsumingOf(n) \ {c}) = Cardinality(ConsumingOf(n)) - 1
      BY <3>1, <2>2, FS_RemoveElement
    <3>3. failures'[n] = failures[n] + 1
      BY <1>1, <1>2, <2>4 DEF FailuresBounded
    <3> QED BY <2>2, <2>3, <3>2, <3>3
  <2>5. CASE n # m
    <3>1. failures'[n] = failures[n]
      BY <1>2, <2>5 DEF FailuresBounded
    <3> QED BY <2>2, <2>3, <3>1
  <2> QED BY <2>4, <2>5
<1>5. UNCHANGED Most
  BY DEF Most
<1> QED BY <1>2, <1>4, <1>5 DEF FailuresBounded

(* A call that starts to consume was let in under the limit. *)
LEMMA LetInKeeps ==
    ASSUME CodeSound, FailuresBounded, NEW c \in Calls, NEW m \in Mxids, NEW k \in Codes,
           ConsumeCode(c, m, k)
    PROVE  FailuresBounded'
<1>1. \A n \in Mxids : n # m => ConsumingOf(n)' \subseteq ConsumingOf(n)
  BY DEF ConsumeCode, ConsumingOf, Consuming, CodeSound, LinkShapeOK
<1>2. ASSUME NEW n \in Mxids
      PROVE  failures[n] + Cardinality(ConsumingOf(n)') <= Most
  <2>1. failures[n] \in Nat /\ Most \in Nat /\ Cardinality(Calls) \in Nat
        /\ Most = AttemptLimit + Cardinality(Calls)
    BY CallSets, LinkAssumption DEF FailuresBounded, Most
  <2>2. CASE n = m
    <3>1. failures[n] < AttemptLimit
      BY <2>2 DEF ConsumeCode
    <3>2. ConsumingOf(n)' \in SUBSET Calls
      BY DEF ConsumingOf
    <3>3. Cardinality(ConsumingOf(n)') \in Nat /\ Cardinality(ConsumingOf(n)') <= Cardinality(Calls)
      BY <3>2, CallSets
    <3> QED BY <2>1, <3>1, <3>3, LinkAssumption
  <2>3. CASE n # m
    <3>1. ConsumingOf(n) \in SUBSET Calls /\ ConsumingOf(n)' \in SUBSET ConsumingOf(n)
      BY <1>1, <2>3 DEF ConsumingOf
    <3>2. Cardinality(ConsumingOf(n)') \in Nat /\ Cardinality(ConsumingOf(n)) \in Nat
          /\ Cardinality(ConsumingOf(n)') <= Cardinality(ConsumingOf(n))
      BY <3>1, CallSets
    <3> QED BY <2>1, <3>2 DEF FailuresBounded
  <2> QED BY <2>2, <2>3
<1> QED BY <1>2 DEF FailuresBounded, ConsumeCode, Most

(* Every step keeps the failures under that bound. *)
LEMMA LimitNext ==
    ASSUME CodeSound, FailuresBounded, LinkNext
    PROVE  FailuresBounded'
<1>t. LinkShapeOK /\ failures \in [Mxids -> Nat]
  BY DEF CodeSound, FailuresBounded
<1>1. ASSUME UNCHANGED <<failures, linkPc, who>>
      PROVE  FailuresBounded'
  BY <1>1 DEF FailuresBounded, ConsumingOf, Consuming, Most
<1>2. ASSUME NEW c \in Calls, UNCHANGED <<failures, who>>, NEW phase \in LinkPhases,
             Consuming(c) \/ phase \notin {"scan", "owner", "write"},
             linkPc' = [linkPc EXCEPT ![c] = phase]
      PROVE  FailuresBounded'
  <2>1. \A m \in Mxids : ConsumingOf(m)' \subseteq ConsumingOf(m)
    BY <1>2, <1>t DEF ConsumingOf, Consuming, LinkShapeOK
  <2> QED BY <2>1, <1>2, <1>t, RelaxKeeps DEF Relaxes
<1>3. ASSUME NEW c \in Calls, Rested(c), failures' \in [Mxids -> Nat],
             \A m \in Mxids : failures'[m] <= failures[m]
      PROVE  FailuresBounded'
  <2>1. \A m \in Mxids : ConsumingOf(m)' \subseteq ConsumingOf(m)
    BY <1>3, RestFacts DEF ConsumingOf, RestedAlone
  <2> QED BY <2>1, <1>3, RelaxKeeps DEF Relaxes
<1>4. ASSUME NEW c \in Calls, NEW u \in Users, IssueCode(c, u)
      PROVE  FailuresBounded'
  <2>1. \A m \in Mxids : ConsumingOf(m)' \subseteq ConsumingOf(m)
    BY <1>4, <1>t DEF IssueCode, ConsumingOf, Consuming, LinkShapeOK
  <2> QED BY <2>1, <1>4, <1>t, RelaxKeeps DEF Relaxes, IssueCode
<1>5. ASSUME NEW c \in Calls, IssueSelect(c) \/ IssueDelete(c)
      PROVE  FailuresBounded'
  BY <1>5, <1>2 DEF IssueSelect, IssueDelete, Reaches, LinkPhases
<1>6. ASSUME NEW c \in Calls, IssueInsert(c)
      PROVE  FailuresBounded'
  BY <1>6, <1>3, <1>t DEF IssueInsert
<1>7. ASSUME NEW c \in Calls, ConsumeScan(c)
      PROVE  FailuresBounded'
  <2>1. Consuming(c)
    BY <1>7 DEF ConsumeScan, Consuming
  <2> QED BY <2>1, <1>7, <1>2, FailKeeps DEF ConsumeScan, Reaches, LinkPhases
<1>8. ASSUME NEW c \in Calls, ConsumeOwner(c)
      PROVE  FailuresBounded'
  <2>1. Consuming(c)
    BY <1>8 DEF ConsumeOwner, Consuming
  <2> QED BY <2>1, <1>8, <1>2, <1>3, <1>t DEF ConsumeOwner, LinkPhases
<1>9. ASSUME NEW c \in Calls, Spend(c)
      PROVE  FailuresBounded'
  <2>1. Consuming(c) /\ Rested(c)
    BY <1>9 DEF Spend, Spending, Consuming
  <2>2. CASE Consumed(c)
    <3>1. failures' = [failures EXCEPT ![who[c]] = 0]
      BY <2>2 DEF Consumed
    <3>2. failures' \in [Mxids -> Nat]
      BY <3>1, <1>t
    <3>3. ASSUME NEW m \in Mxids
          PROVE  failures'[m] <= failures[m]
      <4>1. failures[m] \in Nat /\ failures'[m] \in {0, failures[m]}
        BY <3>1, <1>t
      <4> QED BY <4>1
    <3> QED BY <3>2, <3>3, <2>1, <1>3
  <2> QED BY <2>1, <2>2, <1>9, <1>3, <1>t, FailKeeps DEF Spend
<1>10. ASSUME NEW m \in Mxids, WindowEnds(m)
       PROVE  FailuresBounded'
  <2>1. \A n \in Mxids : ConsumingOf(n)' = ConsumingOf(n)
    BY <1>10 DEF WindowEnds, linkCallVars, ConsumingOf, Consuming
  <2> QED BY <2>1, <1>10, <1>t, RelaxKeeps DEF Relaxes, WindowEnds
<1> QED BY <1>1, <1>4, <1>5, <1>6, <1>7, <1>8, <1>9, <1>10, LetInKeeps
       DEF LinkNext, Unlink, CodeExpires, linkCallVars

(* The other components leave the failures alone. *)
LEMMA LimitKept ==
    CodeSound /\ FailuresBounded /\ [Next]_storesVars => FailuresBounded'
<1> SUFFICES ASSUME CodeSound, FailuresBounded, [Next]_storesVars
             PROVE  FailuresBounded'
  OBVIOUS
<1>1. CASE UNCHANGED linkVars
  BY <1>1 DEF linkVars, linkCallVars, FailuresBounded, ConsumingOf, Consuming, Most
<1>2. CASE LinksRun
  BY <1>2, LimitNext DEF LinksRun
<1> QED BY <1>1, <1>2
       DEF Next, DraftsRun, BatchRuns, LoginsRun, RowsRun, TokensRun, MatrixRuns,
           storesVars, lymailleVars, accessVars

(* In a new store nobody has failed. *)
LEMMA LimitInit == Init => FailuresBounded
<1> SUFFICES ASSUME LinkInit
             PROVE  FailuresBounded
  BY DEF Init
<1>1. \A m \in Mxids : ConsumingOf(m) = {}
  BY DEF LinkInit, ConsumingOf, Consuming
<1>2. Most \in Nat
  BY CallSets, LinkAssumption DEF Most
<1>3. failures = [m \in Mxids |-> 0]
  BY DEF LinkInit
<1>4. ASSUME NEW m \in Mxids
      PROVE  failures[m] + Cardinality(ConsumingOf(m)) <= Most
  <2>1. Cardinality(ConsumingOf(m)) = 0
    BY <1>1, FS_EmptySet
  <2> QED BY <2>1, <1>2, <1>3
<1> QED BY <1>3, <1>4 DEF FailuresBounded

(* Calls that were let in together may all fail after the limit is reached:  *)
(* the failures counted for a Matrix identity never exceed it by more than   *)
(* the calls there are (link.rs consume_code, rate_limited, record_failure). *)
THEOREM LinkTypesAlways == Spec => []LinkTypeOK
<1>1. Spec => []FailuresBounded
  BY LimitInit, LimitKept, CodeSoundAlways, PTL DEF Spec
<1>2. CodeSound /\ FailuresBounded => LinkTypeOK
  <2> SUFFICES ASSUME CodeSound, FailuresBounded
               PROVE  failures \in [Mxids -> 0 .. AttemptLimit + Cardinality(Calls)]
    BY DEF CodeSound, LinkTypeOK
  <2>1. ASSUME NEW m \in Mxids
        PROVE  failures[m] \in 0 .. AttemptLimit + Cardinality(Calls)
    <3>1. Cardinality(ConsumingOf(m)) \in Nat /\ Cardinality(Calls) \in Nat
      BY CallSets DEF ConsumingOf
    <3> QED BY <3>1, LinkAssumption DEF FailuresBounded, Most
  <2> QED BY <2>1 DEF FailuresBounded
<1> QED BY <1>1, <1>2, CodeSoundAlways, PTL
=============================================================================
