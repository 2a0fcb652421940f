------------------------------- MODULE Tokens -------------------------------
(* The API tokens of src/auth/token.rs: issued and revoked by their holder   *)
(* (src/rest/tokens.rs), given a value by the deployment for a service       *)
(* account (src/users/service_account.rs), presented by requests             *)
(* (src/auth/dual.rs).  Every operation but the issue reads a row and then   *)
(* writes it, with no transaction.  Fingerprints are injective; names and    *)
(* dates are left out but for the expiry.  A holder may also come with a     *)
(* cookie or a JWT, which no row backs: its identity is taken as given.      *)
EXTENDS Handlers, Naturals

CONSTANTS
    Holders,        \* the `subject` of a token
    Secrets,        \* the values that the deployment gives
    MaxTokens       \* bound: rows ever inserted

ASSUME HoldersAssumption == None \notin Holders
ASSUME SecretsAssumption == None \notin Secrets
ASSUME MaxTokensAssumption == MaxTokens \in Nat \ {0}

TokenIds == 1 .. MaxTokens
TokenRows == [subject: Holders, given: Secrets \cup {None}]   \* given: None for a drawn value
TokenPhases == {"idle", "stamp", "served", "revoke", "insert"}

VARIABLES
    token,          \* miryad_api_tokens, None for a row that is not there
    lastToken,      \* ids drawn so far
    lapsed,         \* the rows whose expires_at has passed
    tokenPc,        \* what each call is about to do; "served": authenticated
    tokenId,        \* the id in the row it has read
    bearer,         \* the subject it works for
    given,          \* the value it ensures
    stamped         \* history: its last_used_at was written

tokenCallVars == <<tokenPc, tokenId, bearer, given, stamped>>
tokenVars == <<token, lastToken, lapsed, tokenCallVars>>

Live(i) == token[i] # None
Resting(c) == tokenPc[c] \in {"idle", "served"}

TokenTypeOK ==
    /\ token \in [TokenIds -> TokenRows \cup {None}]
    /\ lastToken \in 0 .. MaxTokens
    /\ lapsed \in SUBSET TokenIds
    /\ tokenPc \in [Calls -> TokenPhases]
    /\ tokenId \in [Calls -> 0 .. MaxTokens]
    /\ bearer \in [Calls -> Holders \cup {None}]
    /\ given \in [Calls -> Secrets \cup {None}]
    /\ stamped \in [Calls -> BOOLEAN]
    /\ \A c \in Calls :
          /\ tokenPc[c] # "idle" => bearer[c] # None
          /\ given[c] # None <=> tokenPc[c] = "insert"
          /\ stamped[c] => tokenPc[c] = "served"

TokenInit ==
    /\ token = [i \in TokenIds |-> None]
    /\ lastToken = 0
    /\ lapsed = {}
    /\ tokenPc = [c \in Calls |-> "idle"]
    /\ tokenId = [c \in Calls |-> 0]
    /\ bearer = [c \in Calls |-> None]
    /\ given = [c \in Calls |-> None]
    /\ stamped = [c \in Calls |-> FALSE]

-----------------------------------------------------------------------------
(* A call has read what it needs, and will act on it. *)
Holding(c, phase, i, u, s) ==
    /\ Resting(c)
    /\ tokenPc' = [tokenPc EXCEPT ![c] = phase]
    /\ tokenId' = [tokenId EXCEPT ![c] = i]
    /\ bearer' = [bearer EXCEPT ![c] = u]
    /\ given' = [given EXCEPT ![c] = s]
    /\ stamped' = [stamped EXCEPT ![c] = FALSE]
    /\ UNCHANGED <<token, lastToken, lapsed>>

Over(c) ==
    /\ tokenPc' = [tokenPc EXCEPT ![c] = "idle"]
    /\ tokenId' = [tokenId EXCEPT ![c] = 0]
    /\ bearer' = [bearer EXCEPT ![c] = None]
    /\ given' = [given EXCEPT ![c] = None]
    /\ stamped' = [stamped EXCEPT ![c] = FALSE]

InsertToken(u, s) ==
    /\ lastToken < MaxTokens
    /\ lastToken' = lastToken + 1
    /\ token' = [token EXCEPT ![lastToken + 1] = [subject |-> u, given |-> s]]
    /\ UNCHANGED lapsed

(* POST /tokens, by whoever has authenticated: a value is drawn. *)
IssueToken(u) ==
    /\ InsertToken(u, None)
    /\ UNCHANGED tokenCallVars

(* validate_token: the row of the fingerprint, if it has not expired ... *)
ValidateRead(c, i) ==
    /\ Live(i)
    /\ i \notin lapsed
    /\ Holding(c, "stamp", i, token[i].subject, None)

Authenticates(c, written) ==
    /\ tokenPc' = [tokenPc EXCEPT ![c] = "served"]
    /\ stamped' = [stamped EXCEPT ![c] = written]
    /\ UNCHANGED <<token, lastToken, lapsed, tokenId, bearer, given>>

(* Variant: an UPDATE of no row is an error like another, absorbed. *)
StampAbsorbed(c) ==
    /\ tokenPc[c] = "stamp"
    /\ Authenticates(c, TRUE)

(* ... then the UPDATE of last_used_at by id: a row revoked since rejects.   *)
Stamp(c) ==
    /\ tokenPc[c] = "stamp"
    /\ IF Live(tokenId[c])
       THEN Authenticates(c, TRUE)
       ELSE Over(c) /\ UNCHANGED <<token, lastToken, lapsed>>

(* Any other error of that UPDATE is absorbed. *)
StampFails(c) ==
    /\ tokenPc[c] = "stamp"
    /\ Authenticates(c, FALSE)

(* DELETE /tokens/{id}: the row is looked up among the caller's ... *)
FindToken(c, u, i) ==
    /\ Live(i)
    /\ token[i].subject = u
    /\ Holding(c, "revoke", i, u, None)

(* ... and deleted by its id. *)
Revoke(c) ==
    /\ tokenPc[c] = "revoke"
    /\ token' = [token EXCEPT ![tokenId[c]] = None]
    /\ lapsed' = lapsed \ {tokenId[c]}
    /\ Over(c)
    /\ UNCHANGED lastToken

(* ensure_token at the start of a replica: a row of that value that is the   *)
(* subject's is enough, another's is a conflict, else ...                    *)
FreeSecret(s) == \A i \in TokenIds : Live(i) => token[i].given # s

EnsureProbe(c, u, s) ==
    /\ FreeSecret(s)
    /\ Holding(c, "insert", 0, u, s)

(* ... the row is inserted; its fingerprint is UNIQUE, and the loser of two  *)
(* replicas gets the error of the database.                                  *)
EnsureInsert(c) ==
    /\ tokenPc[c] = "insert"
    /\ IF FreeSecret(given[c])
       THEN InsertToken(bearer[c], given[c])
       ELSE UNCHANGED <<token, lastToken, lapsed>>
    /\ Over(c)

(* A query fails, the client goes away, or the request is served to its end. *)
TokenCallEnds(c) ==
    /\ tokenPc[c] # "idle"
    /\ Over(c)
    /\ UNCHANGED <<token, lastToken, lapsed>>

(* Time passes an expires_at. *)
Lapses(i) ==
    /\ Live(i)
    /\ lapsed' = lapsed \cup {i}
    /\ UNCHANGED <<token, lastToken, tokenCallVars>>

TokenStep(c) ==
    \/ \E i \in TokenIds : ValidateRead(c, i)
    \/ \E u \in Holders, i \in TokenIds : FindToken(c, u, i)
    \/ \E u \in Holders, s \in Secrets : EnsureProbe(c, u, s)
    \/ Stamp(c) \/ StampFails(c) \/ Revoke(c) \/ EnsureInsert(c) \/ TokenCallEnds(c)

TokenNext ==
    \/ \E c \in Calls : TokenStep(c)
    \/ \E u \in Holders : IssueToken(u)
    \/ \E i \in TokenIds : Lapses(i)

-----------------------------------------------------------------------------
(* A revocation that has been answered is the end of a token, even for the   *)
(* requests that had already read it: only one whose last_used_at could not  *)
(* be written, which is best-effort, may still be authenticated              *)
(* (token.rs validate_token).  A token disappears by a request of its holder *)
(* (rest/tokens.rs delete_token_handler), never changes holder, and no value *)
(* stands for two accounts (token.rs ensure_token).                          *)
TokenOfItsHolder ==
    /\ \A c \in Calls :
          tokenPc[c] = "stamp" /\ stamped'[c] =>
              Live(tokenId[c]) /\ token[tokenId[c]].subject = bearer'[c]
    /\ \A i \in TokenIds :
          Live(i) /\ token'[i] # token[i] =>
              /\ token'[i] = None
              /\ \E c \in Calls : tokenPc[c] = "revoke" /\ bearer[c] = token[i].subject
    /\ \A i, j \in TokenIds :
          i # j /\ token'[i] # None /\ token'[j] # None /\ token'[i].given # None =>
              token'[i].given # token'[j].given

TokensKeepTheirHolder == [][TokenOfItsHolder]_tokenVars
=============================================================================
