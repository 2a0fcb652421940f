---------------------------- MODULE Matrix_proof ----------------------------
(* Proofs about the store of a Matrix account (MatrixStore), and the types   *)
(* of Stores: for any number of replicas, logins and rotations.              *)
EXTENDS Stores_proof, Access_proof

Up(p) == botPc[p] = "up"
Pending(p) == Up(p) /\ (copy[p] # NoSession \/ refreshed[p] > 0)
Holds(q, n) == Up(q) /\ session[q].login = n

(* One cipher seals all. *)
CipherSound ==
    /\ saved # NoSession => cipherRow # None /\ sealedBy = cipherRow
    /\ \A p \in Processes :
        /\ botPc[p] = "inserted" => cipherRow # None
        /\ botPc[p] \in {"open", "login", "up"} => cipherRow # None /\ cipher[p] = cipherRow

(* What a client holds, saves or has saved is a session the homeserver       *)
(* granted, not newer than its last rotation.                                *)
Known(s) == s.login \in 1 .. lastLogin /\ s.rotation <= current[s.login]

SessionsKnown ==
    /\ saved # NoSession => saved \in MatrixSessions /\ Known(saved)
    /\ \A p \in Processes :
        /\ Up(p) => session[p] \in MatrixSessions /\ Known(session[p])
        /\ copy[p] # NoSession => botPc[p] \in {"login", "up"}
        /\ refreshed[p] > 0 => Up(p)
        /\ Up(p) /\ copy[p] # NoSession =>
              Known(copy[p]) /\ copy[p].login = session[p].login

(* A session that is not saved yet is its client's alone. *)
FreshAlone ==
    \A p \in Processes : botPc[p] = "login" =>
        /\ copy[p] \in MatrixSessions /\ copy[p].rotation = 0
        /\ copy[p].login \in 1 .. lastLogin
        /\ current[copy[p].login] = 0
        /\ saved.login # copy[p].login
        /\ \A q \in Processes : Up(q) => session[q].login # copy[p].login
        /\ \A q \in Processes : q # p /\ botPc[q] = "login" => copy[q].login # copy[p].login

FreshOnes == \A n \in Logins : n > lastLogin => current[n] = 0

(* Unless a save was lost, who has rotations to persist holds the last one,  *)
(* alone, and the one it saves last is that one.                             *)
LatestAlone ==
    ~crossed => \A p \in Processes : Pending(p) =>
        /\ session[p].rotation = current[session[p].login]
        /\ refreshed[p] = 0 => copy[p] = session[p]
        /\ \A q \in Processes : q # p /\ Holds(q, session[p].login) =>
              session[q].rotation < current[session[p].login]

SessionSound ==
    /\ MatrixTypeOK
    /\ CipherSound
    /\ SessionsKnown
    /\ FreshOnes
    /\ FreshAlone
    /\ LatestAlone
    /\ SavedSessionServes

(* An empty store. *)
LEMMA SessionInit == Init => SessionSound
<1> SUFFICES ASSUME MatrixInit
             PROVE  SessionSound
  BY DEF Init
<1>1. MatrixTypeOK
  <2>1. 0 \in 0 .. MaxRotations /\ 0 \in 0 .. MaxLogins
    BY SessionBoundsAssumption
  <2> QED BY <2>1 DEF MatrixInit, MatrixTypeOK
<1>2. CipherSound /\ SessionsKnown /\ FreshOnes /\ FreshAlone /\ LatestAlone /\ SavedSessionServes
  BY SessionBoundsAssumption
     DEF MatrixInit, CipherSound, SessionsKnown, FreshOnes, FreshAlone, LatestAlone, SavedSessionServes,
         Up, Pending
<1> QED BY <1>1, <1>2 DEF SessionSound

(* The store is opened. *)
LEMMA ProbeKeeps ==
    ASSUME SessionSound, NEW p \in Processes, Probe(p)
    PROVE  SessionSound'
<1> USE SessionBoundsAssumption DEF Logins, MatrixSessions, NoSession
<1>1. MatrixTypeOK'
  BY DEF SessionSound, Probe, Opens, MatrixTypeOK
<1>2. CipherSound'
  BY DEF SessionSound, Probe, Opens, MatrixTypeOK, CipherSound
<1>3. SessionsKnown'
  BY DEF SessionSound, Probe, Opens, MatrixTypeOK, SessionsKnown, Known, Up
<1>4. FreshOnes'
  BY DEF SessionSound, Probe, Opens, MatrixTypeOK, FreshOnes, SessionsKnown, Known, Up
<1>5. FreshAlone'
  BY DEF SessionSound, Probe, Opens, MatrixTypeOK, FreshAlone, FreshOnes, SessionsKnown, Known, Up
<1>6. LatestAlone'
  BY DEF SessionSound, Probe, Opens, MatrixTypeOK, LatestAlone, SessionsKnown, Known, Pending, Holds, Up, FreshAlone, Saving, SavedSessionServes
<1>7. SavedSessionServes'
  BY DEF SessionSound, Probe, Opens, MatrixTypeOK, SavedSessionServes, Saving, CipherSound, LatestAlone, Pending, Up, FreshAlone, SessionsKnown
<1> QED BY <1>1, <1>2, <1>3, <1>4, <1>5, <1>6, <1>7 DEF SessionSound

(* The first cipher inserted stays. *)
LEMMA InsertCipherKeeps ==
    ASSUME SessionSound, NEW p \in Processes, InsertCipher(p)
    PROVE  SessionSound'
<1> USE SessionBoundsAssumption DEF Logins, MatrixSessions, NoSession
<1>1. MatrixTypeOK'
  BY DEF SessionSound, InsertCipher, Opens, MatrixTypeOK
<1>2. CipherSound'
  BY ProcessesAssumption DEF SessionSound, InsertCipher, Opens, MatrixTypeOK, CipherSound
<1>3. SessionsKnown'
  BY DEF SessionSound, InsertCipher, Opens, MatrixTypeOK, SessionsKnown, Known, Up
<1>4. FreshOnes'
  BY DEF SessionSound, InsertCipher, Opens, MatrixTypeOK, FreshOnes, SessionsKnown, Known, Up
<1>5. FreshAlone'
  BY DEF SessionSound, InsertCipher, Opens, MatrixTypeOK, FreshAlone, FreshOnes, SessionsKnown, Known, Up
<1>6. LatestAlone'
  BY DEF SessionSound, InsertCipher, Opens, MatrixTypeOK, LatestAlone, SessionsKnown, Known, Pending, Holds, Up, FreshAlone, Saving, SavedSessionServes
<1>7. SavedSessionServes'
  BY DEF SessionSound, InsertCipher, Opens, MatrixTypeOK, SavedSessionServes, Saving, CipherSound, LatestAlone, Pending, Up, FreshAlone, SessionsKnown
<1> QED BY <1>1, <1>2, <1>3, <1>4, <1>5, <1>6, <1>7 DEF SessionSound

(* Whoever made it, it is read back. *)
LEMMA RereadKeeps ==
    ASSUME SessionSound, NEW p \in Processes, Reread(p)
    PROVE  SessionSound'
<1> USE SessionBoundsAssumption DEF Logins, MatrixSessions, NoSession
<1>1. MatrixTypeOK'
  BY DEF SessionSound, Reread, Opens, MatrixTypeOK
<1>2. CipherSound'
  BY DEF SessionSound, Reread, Opens, MatrixTypeOK, CipherSound
<1>3. SessionsKnown'
  BY DEF SessionSound, Reread, Opens, MatrixTypeOK, SessionsKnown, Known, Up
<1>4. FreshOnes'
  BY DEF SessionSound, Reread, Opens, MatrixTypeOK, FreshOnes, SessionsKnown, Known, Up
<1>5. FreshAlone'
  BY DEF SessionSound, Reread, Opens, MatrixTypeOK, FreshAlone, FreshOnes, SessionsKnown, Known, Up
<1>6. LatestAlone'
  BY DEF SessionSound, Reread, Opens, MatrixTypeOK, LatestAlone, SessionsKnown, Known, Pending, Holds, Up, FreshAlone, Saving, SavedSessionServes
<1>7. SavedSessionServes'
  BY DEF SessionSound, Reread, Opens, MatrixTypeOK, SavedSessionServes, Saving, CipherSound, LatestAlone, Pending, Up, FreshAlone, SessionsKnown
<1> QED BY <1>1, <1>2, <1>3, <1>4, <1>5, <1>6, <1>7 DEF SessionSound

(* A session is taken from the store: unless a save is lost, from nobody who has
   rotations to persist. *)
LEMMA ConnectKeeps ==
    ASSUME SessionSound, NEW p \in Processes, Connect(p)
    PROVE  SessionSound'
<1> USE SessionBoundsAssumption DEF Logins, MatrixSessions, NoSession
<1>t. MatrixTypeOK /\ UNCHANGED <<cipherRow, saved, sealedBy, current, lastLogin>>
  BY DEF SessionSound, Connect
<1>1. CASE Stops(p) /\ UNCHANGED crossed
  <2>1. \A q \in Processes \ {p} :
           /\ botPc'[q] = botPc[q] /\ cipher'[q] = cipher[q] /\ session'[q] = session[q]
           /\ copy'[q] = copy[q] /\ refreshed'[q] = refreshed[q]
    BY <1>1, <1>t DEF Stops, MatrixTypeOK
  <2>2. /\ botPc'[p] = "down" /\ copy'[p] = NoSession /\ refreshed'[p] = 0
    BY <1>1, <1>t DEF Stops, MatrixTypeOK
  <2> HIDE DEF Logins, MatrixSessions, NoSession
  <2>3. MatrixTypeOK'
    BY <1>1, <1>t DEF Stops, MatrixTypeOK
  <2>4. CipherSound' /\ FreshOnes'
    BY <1>t, <2>1, <2>2 DEF SessionSound, CipherSound, FreshOnes
  <2>5. SessionsKnown'
    BY <1>t, <2>1, <2>2 DEF SessionSound, SessionsKnown, Known, Up
  <2>6. FreshAlone'
    BY <1>t, <2>1, <2>2 DEF SessionSound, FreshAlone, Up
  <2>7. LatestAlone'
    BY <1>t, <1>1, <2>1, <2>2 DEF SessionSound, LatestAlone, Pending, Holds, Up
  <2>8. SavedSessionServes'
    <3>1. ~Saving(p)
      BY <1>t DEF Connect, Saving
    <3>2. \A q \in Processes \ {p} : Saving(q)' <=> Saving(q)
      BY <1>t, <2>1 DEF Saving
    <3> QED BY <1>t, <1>1, <3>1, <3>2 DEF SessionSound, SavedSessionServes
  <2> QED BY <2>3, <2>4, <2>5, <2>6, <2>7, <2>8 DEF SessionSound
<1>2. CASE /\ saved # NoSession /\ botPc' = [botPc EXCEPT ![p] = "up"]
           /\ session' = [session EXCEPT ![p] = saved]
           /\ crossed' = (crossed \/ \E q \in Processes : Saving(q))
           /\ UNCHANGED <<cipher, copy, refreshed>>
  <2>1. \A q \in Processes \ {p} : botPc'[q] = botPc[q] /\ session'[q] = session[q]
    BY <1>2, <1>t DEF MatrixTypeOK
  <2>2. /\ botPc[p] = "open" /\ botPc'[p] = "up" /\ session'[p] = saved
        /\ copy[p] = NoSession /\ ~(refreshed[p] > 0)
    BY <1>2, <1>t DEF Connect, MatrixTypeOK, SessionSound, SessionsKnown, Up
  <2> HIDE DEF Logins, MatrixSessions, NoSession
  <2>3. MatrixTypeOK'
    BY <1>2, <1>t DEF MatrixTypeOK
  <2>4. CipherSound' /\ FreshOnes'
    BY <1>2, <1>t, <2>1, <2>2 DEF SessionSound, CipherSound, FreshOnes
  <2>5. SessionsKnown'
    BY <1>2, <1>t, <2>1, <2>2 DEF SessionSound, SessionsKnown, Known, Up
  <2>6. FreshAlone'
    BY <1>2, <1>t, <2>1, <2>2 DEF SessionSound, FreshAlone, Up
  <2>7. LatestAlone'
    <3> SUFFICES ASSUME ~crossed', NEW q \in Processes, Pending(q)'
                 PROVE  /\ session'[q].rotation = current[session'[q].login]
                        /\ refreshed[q] = 0 => copy[q] = session'[q]
                        /\ \A r \in Processes : r # q /\ botPc'[r] = "up" /\ session'[r].login = session'[q].login =>
                              session'[r].rotation < current[session'[q].login]
      BY <1>2, <1>t DEF LatestAlone, Holds, Up
    <3>1. q # p /\ Pending(q) /\ session'[q] = session[q]
      BY <1>2, <2>1, <2>2 DEF Pending, Up
    <3>2. ~crossed /\ ~Saving(q)
      BY <1>2
    <3>3. session[q].login # saved.login
      BY <3>1, <3>2 DEF Saving, Pending, Up
    <3>4. \A r \in Processes : r # q /\ botPc'[r] = "up" /\ session'[r].login = session'[q].login => r # p /\ Holds(r, session[q].login)
      BY <2>1, <2>2, <3>1, <3>3 DEF Holds, Up
    <3> QED BY <2>1, <3>1, <3>2, <3>4 DEF SessionSound, LatestAlone
  <2>8. SavedSessionServes'
    BY <1>2, <1>t DEF SessionSound, SavedSessionServes
  <2> QED BY <2>3, <2>4, <2>5, <2>6, <2>7, <2>8 DEF SessionSound
<1> QED BY <1>1, <1>2 DEF Connect

(* A new session is its client's alone. *)
LEMMA GrantedKeeps ==
    ASSUME SessionSound, NEW p \in Processes, Granted(p)
    PROVE  SessionSound'
<1> USE SessionBoundsAssumption DEF Logins, MatrixSessions, NoSession
<1>1. MatrixTypeOK'
  BY SMTT(30) DEF SessionSound, Granted, MatrixTypeOK
<1>2. CipherSound'
  BY DEF SessionSound, Granted, MatrixTypeOK, CipherSound
<1>3. SessionsKnown'
  BY SMTT(30) DEF SessionSound, Granted, MatrixTypeOK, SessionsKnown, Known, Up
<1>4. FreshOnes'
  BY DEF SessionSound, Granted, MatrixTypeOK, FreshOnes, SessionsKnown, Known, Up
<1>5. FreshAlone'
  BY DEF SessionSound, Granted, MatrixTypeOK, FreshAlone, FreshOnes, SessionsKnown, Known, Up
<1>6. LatestAlone'
  BY SMTT(30) DEF SessionSound, Granted, MatrixTypeOK, LatestAlone, SessionsKnown, Known, Pending, Holds, Up, FreshAlone, Saving, SavedSessionServes
<1>7. SavedSessionServes'
  BY DEF SessionSound, Granted, MatrixTypeOK, SavedSessionServes, Saving, CipherSound, LatestAlone, Pending, Up, FreshAlone, SessionsKnown
<1> QED BY <1>1, <1>2, <1>3, <1>4, <1>5, <1>6, <1>7 DEF SessionSound

(* It is saved, fresh. *)
LEMMA SaveLoginKeeps ==
    ASSUME SessionSound, NEW p \in Processes, SaveLogin(p)
    PROVE  SessionSound'
<1> USE SessionBoundsAssumption DEF Logins, MatrixSessions, NoSession
<1>1. MatrixTypeOK'
  BY DEF SessionSound, SaveLogin, Saves, MatrixTypeOK
<1>2. CipherSound'
  BY DEF SessionSound, SaveLogin, Saves, MatrixTypeOK, CipherSound
<1>3. SessionsKnown'
  <2>1. \A q \in Processes \ {p} : botPc'[q] = botPc[q] /\ session'[q] = session[q] /\ copy'[q] = copy[q]
    BY DEF SessionSound, SaveLogin, MatrixTypeOK
  <2>2. /\ botPc'[p] = "up" /\ session'[p] = copy[p] /\ copy'[p] = NoSession /\ saved' = copy[p]
        /\ UNCHANGED <<current, lastLogin, refreshed>>
    BY DEF SessionSound, SaveLogin, Saves, MatrixTypeOK
  <2>3. copy[p] \in MatrixSessions /\ Known(copy[p])
    BY DEF SessionSound, SaveLogin, FreshAlone, Known, FreshOnes, MatrixTypeOK
  <2> QED BY <2>1, <2>2, <2>3 DEF SessionSound, SessionsKnown, Known, Up
<1>4. FreshOnes'
  BY DEF SessionSound, SaveLogin, Saves, MatrixTypeOK, FreshOnes, SessionsKnown, Known, Up
<1>5. FreshAlone'
  BY DEF SessionSound, SaveLogin, Saves, MatrixTypeOK, FreshAlone, FreshOnes, SessionsKnown, Known, Up
<1>6. LatestAlone'
  BY SMTT(30) DEF SessionSound, SaveLogin, Saves, MatrixTypeOK, LatestAlone, SessionsKnown, Known, Pending, Holds, Up, FreshAlone, Saving, SavedSessionServes
<1>7. SavedSessionServes'
  BY DEF SessionSound, SaveLogin, Saves, MatrixTypeOK, SavedSessionServes, Saving, CipherSound, LatestAlone, Pending, Up, FreshAlone, SessionsKnown
<1> QED BY <1>1, <1>2, <1>3, <1>4, <1>5, <1>6, <1>7 DEF SessionSound

(* Only who holds the last rotation makes the next. *)
LEMMA RotateKeeps ==
    ASSUME SessionSound, NEW p \in Processes, Rotate(p)
    PROVE  SessionSound'
<1> USE SessionBoundsAssumption DEF Logins, MatrixSessions, NoSession
<1>1. MatrixTypeOK'
  <2>1. session[p].login \in Logins /\ session[p].rotation + 1 \in 0 .. MaxRotations
        /\ current[session[p].login] + 1 \in 0 .. MaxRotations
    BY DEF SessionSound, Rotate, MatrixTypeOK, SessionsKnown, Up
  <2>2. session' \in [Processes -> MatrixSessions \cup {NoSession}]
    BY <2>1, SMTT(30) DEF SessionSound, Rotate, MatrixTypeOK, SessionsKnown, Up
  <2>3. current' \in [Logins -> 0 .. MaxRotations]
    BY <2>1 DEF SessionSound, Rotate, MatrixTypeOK
  <2>4. refreshed' \in [Processes -> Nat]
    BY SMTT(30) DEF SessionSound, Rotate, MatrixTypeOK
  <2> QED BY <2>2, <2>3, <2>4 DEF SessionSound, Rotate, MatrixTypeOK
<1>2. CipherSound'
  BY DEF SessionSound, Rotate, MatrixTypeOK, CipherSound
<1>3. SessionsKnown'
  <2>1. /\ \A q \in Processes \ {p} : session'[q] = session[q] /\ refreshed'[q] = refreshed[q]
        /\ UNCHANGED <<saved, copy, botPc, lastLogin>> /\ Up(p)
    BY DEF SessionSound, Rotate, MatrixTypeOK, Up
  <2>2. \A s \in MatrixSessions : Known(s) => s.login \in 1 .. lastLogin' /\ s.rotation <= current'[s.login]
    BY DEF SessionSound, Rotate, MatrixTypeOK, Known
  <2>3. session'[p] \in MatrixSessions /\ session'[p].login = session[p].login
        /\ session'[p].rotation <= current'[session'[p].login]
    BY DEF SessionSound, Rotate, MatrixTypeOK, SessionsKnown, Up
  <2>4. \A q \in Processes : Up(q) /\ copy[q] # NoSession => copy[q] \in MatrixSessions
    BY DEF SessionSound, MatrixTypeOK
  <2> HIDE DEF Logins, MatrixSessions, NoSession
  <2>5. saved # NoSession => saved' \in MatrixSessions /\ Known(saved)'
    BY <2>1, <2>2 DEF SessionSound, SessionsKnown, Known
  <2>6. ASSUME NEW q \in Processes
        PROVE  /\ Up(q)' => session'[q] \in MatrixSessions /\ Known(session[q])'
               /\ copy'[q] # NoSession => botPc'[q] \in {"login", "up"}
               /\ refreshed'[q] > 0 => Up(q)'
               /\ Up(q)' /\ copy'[q] # NoSession =>
                     Known(copy[q])' /\ copy'[q].login = session'[q].login
    <3>1. Up(q)' => session'[q] \in MatrixSessions /\ Known(session[q])'
      <4>1. CASE q = p
        BY <4>1, <2>1, <2>3 DEF SessionSound, SessionsKnown, Known
      <4>2. CASE q # p
        BY <4>2, <2>1, <2>2 DEF SessionSound, SessionsKnown, Known, Up
      <4> QED BY <4>1, <4>2
    <3>2. Up(q)' /\ copy'[q] # NoSession => Known(copy[q])' /\ copy'[q].login = session'[q].login
      BY <2>1, <2>2, <2>3, <2>4 DEF SessionSound, SessionsKnown, Known, Up
    <3>3. refreshed'[q] > 0 => Up(q)'
      BY <2>1 DEF SessionSound, SessionsKnown, Up
    <3> QED BY <3>1, <3>2, <3>3, <2>1 DEF SessionSound, SessionsKnown
  <2> QED BY <2>5, <2>6, <2>1 DEF SessionsKnown, Up, Known
<1>4. FreshOnes'
  BY DEF SessionSound, Rotate, MatrixTypeOK, FreshOnes, SessionsKnown, Known, Up
<1>5. FreshAlone'
  BY DEF SessionSound, Rotate, MatrixTypeOK, FreshAlone, FreshOnes, SessionsKnown, Known, Up
<1>6. LatestAlone'
  <2> DEFINE n == session[p].login
  <2>1. /\ n \in Logins /\ current' = [current EXCEPT ![n] = @ + 1] /\ Up(p)
        /\ session[p] \in MatrixSessions /\ session[p].rotation = current[n]
        /\ current'[n] = current[n] + 1 /\ current[n] \in Nat
        /\ session'[p].rotation = current[n] + 1 /\ session'[p].login = n
        /\ refreshed'[p] = refreshed[p] + 1 /\ refreshed[p] \in Nat
    BY DEF SessionSound, Rotate, MatrixTypeOK, SessionsKnown, Up
  <2>2. \A q \in Processes \ {p} : session'[q] = session[q] /\ refreshed'[q] = refreshed[q]
    BY DEF SessionSound, Rotate, MatrixTypeOK
  <2>3. UNCHANGED <<botPc, copy, crossed>>
    BY DEF Rotate
  <2>4. \A m \in Logins \ {n} : current'[m] = current[m]
    BY <2>1 DEF SessionSound, MatrixTypeOK
  <2> HIDE DEF n, Logins, MatrixSessions, NoSession
  <2> SUFFICES ASSUME ~crossed, NEW q \in Processes, Pending(q)'
               PROVE  /\ session'[q].rotation = current'[session'[q].login]
                      /\ refreshed'[q] = 0 => copy'[q] = session'[q]
                      /\ \A r \in Processes : r # q /\ botPc'[r] = "up" /\ session'[r].login = session'[q].login =>
                            session'[r].rotation < current'[session'[q].login]
    BY <2>3 DEF LatestAlone, Holds, Up
  <2>5. CASE q = p
    <3>1. \A r \in Processes : r # p /\ botPc'[r] = "up" /\ session'[r].login = n => session[r].rotation <= current[n] /\ session[r] \in MatrixSessions
      BY <2>2, <2>3 DEF Holds, Up, SessionSound, SessionsKnown, Known
    <3>2. \A r \in Processes : r # p /\ botPc'[r] = "up" /\ session'[r].login = n => session'[r].rotation < current'[n]
      BY <3>1, <2>1, <2>2 DEF MatrixSessions
    <3> QED BY <2>1, <2>5, <3>2
  <2>6. CASE q # p
    <3>1. Pending(q) /\ Up(q) /\ session[q].login \in Logins
      BY <2>6, <2>2, <2>3 DEF Pending, Up, SessionSound, SessionsKnown, MatrixSessions
    <3>2. session[q].login # n
      BY <3>1, <2>1, <2>6 DEF SessionSound, LatestAlone, Holds, n
    <3>3. \A r \in Processes : r # q /\ botPc'[r] = "up" /\ session'[r].login = session'[q].login => r # p /\ Holds(r, session[q].login)
      BY <3>2, <2>1, <2>2, <2>3, <2>6 DEF Holds, Up
    <3> QED BY <2>2, <2>3, <2>4, <2>6, <3>1, <3>2, <3>3 DEF SessionSound, LatestAlone
  <2> QED BY <2>5, <2>6
<1>7. SavedSessionServes'
  BY DEF SessionSound, Rotate, MatrixTypeOK, SavedSessionServes, Saving, CipherSound, LatestAlone, Pending, Up, FreshAlone, SessionsKnown
<1> QED BY <1>1, <1>2, <1>3, <1>4, <1>5, <1>6, <1>7 DEF SessionSound

(* What is about to be saved is what the client holds. *)
LEMMA PersistReadsKeeps ==
    ASSUME SessionSound, NEW p \in Processes, PersistReads(p)
    PROVE  SessionSound'
<1> USE SessionBoundsAssumption DEF Logins, MatrixSessions, NoSession
<1>1. MatrixTypeOK'
  BY SMTT(30) DEF SessionSound, PersistReads, MatrixTypeOK
<1>2. CipherSound'
  BY DEF SessionSound, PersistReads, MatrixTypeOK, CipherSound
<1>3. SessionsKnown'
  BY DEF SessionSound, PersistReads, MatrixTypeOK, SessionsKnown, Known, Up
<1>4. FreshOnes'
  BY DEF SessionSound, PersistReads, MatrixTypeOK, FreshOnes, SessionsKnown, Known, Up
<1>5. FreshAlone'
  BY SMTT(30) DEF SessionSound, PersistReads, MatrixTypeOK, FreshAlone, FreshOnes, SessionsKnown, Known, Up
<1>6. LatestAlone'
  BY SMTT(30) DEF SessionSound, PersistReads, MatrixTypeOK, LatestAlone, SessionsKnown, Known, Pending, Holds, Up, FreshAlone, Saving, SavedSessionServes
<1>7. SavedSessionServes'
  BY DEF SessionSound, PersistReads, MatrixTypeOK, SavedSessionServes, Saving, CipherSound, LatestAlone, Pending, Up, FreshAlone, SessionsKnown
<1> QED BY <1>1, <1>2, <1>3, <1>4, <1>5, <1>6, <1>7 DEF SessionSound

(* What is saved last is the last rotation. *)
LEMMA PersistSavesKeeps ==
    ASSUME SessionSound, NEW p \in Processes, PersistSaves(p)
    PROVE  SessionSound'
<1> USE SessionBoundsAssumption DEF Logins, MatrixSessions, NoSession
<1>1. MatrixTypeOK'
  BY DEF SessionSound, PersistSaves, Saves, MatrixTypeOK
<1>2. CipherSound'
  BY DEF SessionSound, PersistSaves, Saves, MatrixTypeOK, CipherSound
<1>3. SessionsKnown'
  BY DEF SessionSound, PersistSaves, Saves, MatrixTypeOK, SessionsKnown, Known, Up
<1>4. FreshOnes'
  BY DEF SessionSound, PersistSaves, Saves, MatrixTypeOK, FreshOnes, SessionsKnown, Known, Up
<1>5. FreshAlone'
  BY SMTT(30) DEF SessionSound, PersistSaves, Saves, MatrixTypeOK, FreshAlone, FreshOnes, SessionsKnown, Known, Up
<1>6. LatestAlone'
  BY SMTT(30) DEF SessionSound, PersistSaves, Saves, MatrixTypeOK, LatestAlone, SessionsKnown, Known, Pending, Holds, Up, FreshAlone, Saving, SavedSessionServes
<1>7. SavedSessionServes'
  BY SMTT(30) DEF SessionSound, PersistSaves, Saves, MatrixTypeOK, SavedSessionServes, Saving, CipherSound, LatestAlone, Pending, Up, FreshAlone, SessionsKnown
<1> QED BY <1>1, <1>2, <1>3, <1>4, <1>5, <1>6, <1>7 DEF SessionSound

(* A save that fails is a lost one. *)
LEMMA PersistFailsKeeps ==
    ASSUME SessionSound, NEW p \in Processes, PersistFails(p)
    PROVE  SessionSound'
<1> USE SessionBoundsAssumption DEF Logins, MatrixSessions, NoSession
<1>1. MatrixTypeOK'
  BY DEF SessionSound, PersistFails, MatrixTypeOK
<1>2. CipherSound'
  BY DEF SessionSound, PersistFails, MatrixTypeOK, CipherSound
<1>3. SessionsKnown'
  BY DEF SessionSound, PersistFails, MatrixTypeOK, SessionsKnown, Known, Up
<1>4. FreshOnes'
  BY DEF SessionSound, PersistFails, MatrixTypeOK, FreshOnes, SessionsKnown, Known, Up
<1>5. FreshAlone'
  BY SMTT(30) DEF SessionSound, PersistFails, MatrixTypeOK, FreshAlone, FreshOnes, SessionsKnown, Known, Up
<1>6. LatestAlone'
  BY DEF SessionSound, PersistFails, MatrixTypeOK, LatestAlone, SessionsKnown, Known, Pending, Holds, Up, FreshAlone, Saving, SavedSessionServes
<1>7. SavedSessionServes'
  BY DEF SessionSound, PersistFails, MatrixTypeOK, SavedSessionServes, Saving, CipherSound, LatestAlone, Pending, Up, FreshAlone, SessionsKnown
<1> QED BY <1>1, <1>2, <1>3, <1>4, <1>5, <1>6, <1>7 DEF SessionSound

(* So is one its client did not live to make. *)
LEMMA DiesKeeps ==
    ASSUME SessionSound, NEW p \in Processes, Dies(p)
    PROVE  SessionSound'
<1> USE SessionBoundsAssumption DEF Logins, MatrixSessions, NoSession
<1>1. MatrixTypeOK'
  BY DEF SessionSound, Dies, Stops, MatrixTypeOK
<1>2. CipherSound'
  BY DEF SessionSound, Dies, Stops, MatrixTypeOK, CipherSound
<1>3. SessionsKnown'
  BY DEF SessionSound, Dies, Stops, MatrixTypeOK, SessionsKnown, Known, Up
<1>4. FreshOnes'
  BY DEF SessionSound, Dies, Stops, MatrixTypeOK, FreshOnes, SessionsKnown, Known, Up
<1>5. FreshAlone'
  BY DEF SessionSound, Dies, Stops, MatrixTypeOK, FreshAlone, FreshOnes, SessionsKnown, Known, Up
<1>6. LatestAlone'
  BY SMTT(30) DEF SessionSound, Dies, Stops, MatrixTypeOK, LatestAlone, SessionsKnown, Known, Pending, Holds, Up, FreshAlone, Saving, SavedSessionServes
<1>7. SavedSessionServes'
  BY ZenonT(30) DEF SessionSound, Dies, Stops, MatrixTypeOK, SavedSessionServes, Saving, CipherSound, LatestAlone, Pending, Up, FreshAlone, SessionsKnown
<1> QED BY <1>1, <1>2, <1>3, <1>4, <1>5, <1>6, <1>7 DEF SessionSound

(* The other components leave the Matrix store alone. *)
LEMMA SessionKept == SessionSound /\ [Next]_storesVars => SessionSound'
<1> SUFFICES ASSUME SessionSound, [Next]_storesVars
             PROVE  SessionSound'
  OBVIOUS
<1>1. CASE UNCHANGED matrixVars
  BY <1>1 DEF matrixVars, botVars, SessionSound, MatrixTypeOK, CipherSound, SessionsKnown, Known,
              FreshOnes, FreshAlone, LatestAlone, SavedSessionServes, Saving, Up, Pending, Holds
<1>2. CASE MatrixRuns
  BY <1>2, ProbeKeeps, InsertCipherKeeps, RereadKeeps, ConnectKeeps, GrantedKeeps, SaveLoginKeeps,
     RotateKeeps, PersistReadsKeeps, PersistSavesKeeps, PersistFailsKeeps, DiesKeeps
     DEF MatrixRuns, MatrixNext
<1> QED BY <1>1, <1>2
       DEF Next, DraftsRun, BatchRuns, LinksRun, LoginsRun, RowsRun, TokensRun, storesVars

(* Every replica reads what another sealed, and the session in store is one  *)
(* the homeserver accepts once the rotations are persisted (store/kv.rs open,*)
(* client.rs persist_current_session, session.rs save).                      *)
THEOREM SavedSessionServesAlways == Spec => []SavedSessionServes
<1>1. Spec => []SessionSound
  BY SessionInit, SessionKept, PTL DEF Spec
<1>2. SessionSound => SavedSessionServes
  BY DEF SessionSound
<1> QED BY <1>1, <1>2, PTL

-----------------------------------------------------------------------------
(* Every component of Stores is well typed (store/toolset.rs,                *)
(* write_journal.rs, chat/link.rs, membership.rs, rest/core.rs,              *)
(* auth/token.rs, matrix/client.rs).                                         *)
THEOREM StoresTypes == Spec => []StoresTypeOK
<1>1. Spec => []HeldChecked
  BY HeldInit, HeldNext, PTL DEF Spec
<1>2. Spec => []JournalSound
  BY JournalInit, JournalKept, PTL DEF Spec
<1>3. Spec => []LoginSound
  BY LoginInit, LoginKept, PTL DEF Spec
<1>4. Spec => []CrudSound
  BY CrudInit, CrudKept, PTL DEF Spec
<1>5. Spec => []SessionSound
  BY SessionInit, SessionKept, PTL DEF Spec
<1>6. Spec => []TokenSound
  BY TokenStart, TokenKept, PTL DEF Spec
<1>7. /\ HeldChecked => DraftTypeOK
      /\ JournalSound => BatchTypeOK
      /\ LoginSound => MemberTypeOK
  BY DEF HeldChecked, JournalSound, LoginSound
<1>8. /\ CrudSound => ResourceTypeOK
      /\ TokenSound => TokenTypeOK
      /\ SessionSound => MatrixTypeOK
  BY DEF CrudSound, TokenSound, SessionSound
<1> QED BY <1>1, <1>2, <1>3, <1>4, <1>5, <1>6, <1>7, <1>8, LinkTypesAlways, PTL DEF StoresTypeOK
=============================================================================
