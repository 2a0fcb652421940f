----------------------------- MODULE MatrixStore -----------------------------
(* The encrypted store of a Matrix account shared by several replicas:       *)
(* src/matrix/store/kv.rs makes its cipher, src/matrix/client.rs writes the  *)
(* session there at login and after each rotation of its tokens.  The        *)
(* homeserver and matrix-sdk, which rotates the tokens, are external.  The   *)
(* other rows of the store (keys, devices) are left out.                     *)
EXTENDS Handlers, Naturals

CONSTANTS
    Processes,      \* replicas
    MaxLogins,      \* bound: sessions ever granted
    MaxRotations    \* bound: rotations of one session

ASSUME ProcessesAssumption == None \notin Processes
ASSUME SessionBoundsAssumption == MaxLogins \in Nat \ {0} /\ MaxRotations \in Nat

Logins == 1 .. MaxLogins
MatrixSessions == [login: Logins, rotation: 0 .. MaxRotations]
NoSession == [login |-> 0, rotation |-> 0]

VARIABLES
    cipherRow,      \* row "cipher" of the kv table: who made it
    saved, sealedBy,    \* the session row, and the cipher that sealed it
    current,        \* at the homeserver, the last rotation of each session
    lastLogin,      \* sessions granted so far
    botPc,          \* what each replica's client is about to do
    cipher,         \* the cipher of its store
    session,        \* the session of its matrix-sdk client
    copy,           \* the session it is about to save
    refreshed,      \* TokensRefreshed events its persistence task has not received
    crossed         \* history: a save was lost, or a session taken from under its holder

botVars == <<botPc, cipher, session, copy, refreshed>>
matrixVars == <<cipherRow, saved, sealedBy, current, lastLogin, botVars, crossed>>

(* Rotations of the session in store wait for the persistence task of p. *)
Saving(p) ==
    /\ botPc[p] = "up" /\ session[p].login = saved.login
    /\ copy[p] # NoSession \/ refreshed[p] > 0

MatrixTypeOK ==
    /\ cipherRow \in Processes \cup {None}
    /\ saved \in MatrixSessions \cup {NoSession}
    /\ sealedBy \in Processes \cup {None}
    /\ current \in [Logins -> 0 .. MaxRotations]
    /\ lastLogin \in 0 .. MaxLogins
    /\ botPc \in [Processes -> {"down", "absent", "inserted", "open", "login", "up"}]
    /\ cipher \in [Processes -> Processes \cup {None}]
    /\ session \in [Processes -> MatrixSessions \cup {NoSession}]
    /\ copy \in [Processes -> MatrixSessions \cup {NoSession}]
    /\ refreshed \in [Processes -> Nat]
    /\ crossed \in BOOLEAN

MatrixInit ==
    /\ cipherRow = None
    /\ saved = NoSession
    /\ sealedBy = None
    /\ current = [n \in Logins |-> 0]
    /\ lastLogin = 0
    /\ botPc = [p \in Processes |-> "down"]
    /\ cipher = [p \in Processes |-> None]
    /\ session = [p \in Processes |-> NoSession]
    /\ copy = [p \in Processes |-> NoSession]
    /\ refreshed = [p \in Processes |-> 0]
    /\ crossed = FALSE

-----------------------------------------------------------------------------
(* Kv::open: the row is read; when there is none a fresh cipher is inserted  *)
(* ON CONFLICT DO NOTHING, and the row is read again.                        *)
Opens(p, pc, made) ==
    /\ botPc' = [botPc EXCEPT ![p] = pc]
    /\ cipher' = [cipher EXCEPT ![p] = made]
    /\ UNCHANGED <<saved, sealedBy, current, lastLogin, session, copy, refreshed, crossed>>

Probe(p) ==
    /\ botPc[p] = "down"
    /\ Opens(p, IF cipherRow = None THEN "absent" ELSE "open", cipherRow)
    /\ UNCHANGED cipherRow

InsertCipher(p) ==
    /\ botPc[p] = "absent"
    /\ cipherRow' = IF cipherRow = None THEN p ELSE cipherRow
    /\ Opens(p, "inserted", None)

(* Variant: the loser keeps the cipher it made. *)
RereadNothing(p) ==
    /\ botPc[p] = "inserted"
    /\ Opens(p, "open", p)
    /\ UNCHANGED cipherRow

Reread(p) ==
    /\ botPc[p] = "inserted"
    /\ Opens(p, "open", cipherRow)
    /\ UNCHANGED cipherRow

-----------------------------------------------------------------------------
Stops(p) ==
    /\ botPc' = [botPc EXCEPT ![p] = "down"]
    /\ cipher' = [cipher EXCEPT ![p] = None]
    /\ session' = [session EXCEPT ![p] = NoSession]
    /\ copy' = [copy EXCEPT ![p] = NoSession]
    /\ refreshed' = [refreshed EXCEPT ![p] = 0]

Saves(p, s) ==
    /\ saved' = s
    /\ sealedBy' = cipher[p]

(* MatrixClient::connect: NotLoggedIn without a row, Corrupt when another    *)
(* cipher sealed it, else the session is restored.                           *)
Connect(p) ==
    /\ botPc[p] = "open"
    /\ IF saved = NoSession \/ sealedBy # cipher[p]
       THEN Stops(p) /\ UNCHANGED crossed
       ELSE /\ botPc' = [botPc EXCEPT ![p] = "up"]
            /\ session' = [session EXCEPT ![p] = saved]
            /\ crossed' = (crossed \/ \E q \in Processes : Saving(q))
            /\ UNCHANGED <<cipher, copy, refreshed>>
    /\ UNCHANGED <<cipherRow, saved, sealedBy, current, lastLogin>>

(* login_with_device_code or import_session, until the session is granted.   *)
Granted(p) ==
    /\ botPc[p] = "open"
    /\ lastLogin < MaxLogins
    /\ lastLogin' = lastLogin + 1
    /\ copy' = [copy EXCEPT ![p] = [login |-> lastLogin + 1, rotation |-> 0]]
    /\ botPc' = [botPc EXCEPT ![p] = "login"]
    /\ UNCHANGED <<cipherRow, saved, sealedBy, current, cipher, session, refreshed, crossed>>

(* It replaces the one in store, then is restored. *)
SaveLogin(p) ==
    /\ botPc[p] = "login"
    /\ Saves(p, copy[p])
    /\ session' = [session EXCEPT ![p] = copy[p]]
    /\ copy' = [copy EXCEPT ![p] = NoSession]
    /\ botPc' = [botPc EXCEPT ![p] = "up"]
    /\ UNCHANGED <<cipherRow, current, lastLogin, cipher, refreshed, crossed>>

(* matrix-sdk refreshes the access token.  The homeserver knows only the     *)
(* last refresh token: a replica that holds an older one is refused          *)
(* (UnknownToken), which is logged and changes nothing.                      *)
Rotate(p) ==
    /\ botPc[p] = "up"
    /\ LET s == session[p] IN
       /\ s.rotation = current[s.login]
       /\ s.rotation < MaxRotations
       /\ current' = [current EXCEPT ![s.login] = @ + 1]
       /\ session' = [session EXCEPT ![p].rotation = @ + 1]
    /\ refreshed' = [refreshed EXCEPT ![p] = @ + 1]
    /\ UNCHANGED <<cipherRow, saved, sealedBy, lastLogin, botPc, cipher, copy, crossed>>

(* spawn_session_persistence, one event at a time: the client's session of   *)
(* that instant is read, then saved.                                         *)
PersistReads(p) ==
    /\ botPc[p] = "up"
    /\ refreshed[p] > 0 /\ copy[p] = NoSession
    /\ refreshed' = [refreshed EXCEPT ![p] = @ - 1]
    /\ copy' = [copy EXCEPT ![p] = session[p]]
    /\ UNCHANGED <<cipherRow, saved, sealedBy, current, lastLogin, botPc, cipher, session, crossed>>

PersistSaves(p) ==
    /\ botPc[p] = "up"
    /\ copy[p] # NoSession
    /\ Saves(p, copy[p])
    /\ copy' = [copy EXCEPT ![p] = NoSession]
    /\ UNCHANGED <<cipherRow, current, lastLogin, botPc, cipher, session, refreshed, crossed>>

(* An error of the store is logged, and the event is spent. *)
PersistFails(p) ==
    /\ botPc[p] = "up"
    /\ copy[p] # NoSession
    /\ copy' = [copy EXCEPT ![p] = NoSession]
    /\ crossed' = TRUE
    /\ UNCHANGED <<cipherRow, saved, sealedBy, current, lastLogin, botPc, cipher, session, refreshed>>

(* The last clone of the client is dropped, which aborts its task; an error  *)
(* on the way to "up"; or the replica dies.                                  *)
Dies(p) ==
    /\ botPc[p] # "down"
    /\ crossed' = (crossed \/ Saving(p))
    /\ Stops(p)
    /\ UNCHANGED <<cipherRow, saved, sealedBy, current, lastLogin>>

MatrixNext == \E p \in Processes :
    \/ Probe(p) \/ InsertCipher(p) \/ Reread(p)
    \/ Connect(p) \/ Granted(p) \/ SaveLogin(p)
    \/ Rotate(p) \/ PersistReads(p) \/ PersistSaves(p) \/ PersistFails(p)
    \/ Dies(p)

-----------------------------------------------------------------------------
(* Every replica reads what any replica sealed (kv.rs: the winning cipher is *)
(* read back), and a restart finds a session the homeserver accepts          *)
(* (matrix/session.sdd: a session not rewritten is invalid at the next one)  *)
(* once the rotations are persisted, unless a save was lost or a replica     *)
(* connected while another had rotations to persist.                         *)
SavedSessionServes ==
    saved # NoSession =>
        /\ sealedBy = cipherRow
        /\ crossed
           \/ (\E p \in Processes : Saving(p))
           \/ saved.rotation = current[saved.login]
=============================================================================
