--------------------------- MODULE SessionsProofs ---------------------------
(* Proofs about Sessions. *)
EXTENDS Sessions, TLAPS

(***************************************************************************)
(* The inductive invariant about tokens and rows.  A request that works on *)
(* a row knows a row that exists; a bundle about to be recorded has no     *)
(* client yet; a logout knows the one row its token could be in.           *)
(***************************************************************************)
Sound(r) ==
  /\ r.at # "idle" => r.proc \in Procs
  /\ r.at = "refresh" => r.token \in Numbers
  /\ r.at \in {"login", "refresh", "write"} => r.device \in Devices
  /\ r.at = "write" => /\ r.fresh \in DOMAIN bundles \ Handed
                       /\ bundles[r.fresh].password = r.password
                       /\ r.row \in DOMAIN rows \cup {0}
  /\ r.at = "logout" => /\ r.token \in Handed /\ r.row \in DOMAIN rows
                        /\ \A s \in DOMAIN rows : rows[s].jti = r.token => s = r.row
  /\ r.at = "revoke" => r.row \in DOMAIN rows
  /\ r.at = "closing" => r.seen \subseteq DOMAIN rows

SoundRequests == \A t \in Requests : Sound(req[t])

(* No two requests are about to record the same bundle, and no two rows    *)
(* name the same token.                                                    *)
OneRecorder == \A t, u \in Requests :
  req[t].at = "write" /\ req[u].at = "write" /\ req[t].fresh = req[u].fresh => t = u

OneRow == \A r, s \in DOMAIN rows :
  rows[r].jti \in Handed /\ (rows[r].jti = rows[s].jti => r = s)

(* A token that is out is in no open row, and no request will record it.   *)
OutStays == \A b \in history.out : b \in Handed /\ RowsOf(b) = {}

UsageInv == SoundRequests /\ OneRecorder /\ OneRow /\ OutStays

(* ---------------------------------------------------------------------- *)
(* Types.                                                                  *)

(* What a step of a request may leave behind is a request. *)
LEMMA IdleType == Idle \in ReqType
BY BoundsAssumption, SMT DEF Idle, ReqType, Places, NoMeta, Metas, Passwords, Seconds

(* Changing the request of t keeps the requests' type. *)
LEMMA GoType ==
  ASSUME TypeOK, NEW t \in Requests, NEW r \in ReqType, Go(t, r)
  PROVE  req' \in [Requests -> ReqType]
BY DEF TypeOK, Go

(* So does revoking, for the sets of revoked ids and the keys. *)
LEMMA RevokeType ==
  ASSUME TypeOK, NEW p \in Procs, NEW J \in SUBSET Jtis, NEW life \in Lives, Revoke(p, J, life)
  PROVE  revoked' \in [Procs -> SUBSET Jtis] /\ keys' \in [Jtis -> Lives]
BY DEF TypeOK, Revoke

(* Closing rows changes no number of rows, no device and no token id. *)
LEMMA CloseRows ==
  ASSUME rows \in Seq(Rows), NEW S, Close(S)
  PROVE  /\ rows' \in Seq(Rows) /\ Len(rows') = Len(rows)
         /\ DOMAIN rows' = DOMAIN rows
         /\ \A r \in DOMAIN rows : /\ rows'[r].jti = rows[r].jti
                                   /\ rows'[r].open = (rows[r].open /\ r \notin S)
<1> DEFINE n == Len(rows)
           f(r) == IF r \in S THEN [rows[r] EXCEPT !.open = FALSE] ELSE rows[r]
<1>1. n \in Nat /\ DOMAIN rows = 1 .. n
  OBVIOUS
<1>2. \A r \in 1 .. n : rows[r] \in Rows
  OBVIOUS
<1>3. \A r \in 1 .. n : f(r) \in Rows
  BY <1>2 DEF Rows
<1>4. rows' = [r \in 1 .. n |-> f(r)]
  BY <1>1 DEF Close
<1>5. rows' \in Seq(Rows) /\ Len(rows') = n /\ DOMAIN rows' = 1 .. n
  BY <1>1, <1>3, <1>4
<1>6. \A r \in 1 .. n : rows'[r].jti = rows[r].jti /\ rows'[r].open = (rows[r].open /\ r \notin S)
  BY <1>2, <1>4 DEF Rows
<1> QED
  BY <1>1, <1>5, <1>6
(* Ids of refresh tokens, and the count of events, are of their types. *)
LEMMA IdsType == \A S \in SUBSET Numbers : RefreshIds(S) \in SUBSET Jtis
BY DEF RefreshIds, Jtis, Kinds

(* Counting an event keeps the count within its bound. *)
LEMMA CountType == TypeOK /\ Count => events' \in 0 .. MaxEvents
BY BoundsAssumption DEF TypeOK, Count

(* Bundles are appended or marked; those with a client are among them. *)
LEMMA BundleFacts ==
  ASSUME TypeOK
  PROVE  /\ Len(bundles) \in Nat /\ DOMAIN bundles = 1 .. Len(bundles)
         /\ DOMAIN bundles \subseteq Numbers /\ Handed \subseteq DOMAIN bundles
         /\ \A b \in DOMAIN bundles : bundles[b] \in Bundles
         /\ \A p \in 0 .. MaxTime : IssuedBy(p) \subseteq Numbers
         /\ DOMAIN rows = 1 .. Len(rows) /\ Len(rows) \in Nat
         /\ \A r \in DOMAIN rows : rows[r] \in Rows /\ rows[r].jti \in Numbers
<1>1. bundles \in Seq(Bundles) /\ Len(bundles) <= MaxBundles /\ rows \in Seq(Rows)
  BY DEF TypeOK
<1>2. Len(bundles) \in Nat /\ DOMAIN bundles = 1 .. Len(bundles)
  BY <1>1
<1>3. DOMAIN bundles \subseteq Numbers
  BY <1>1, <1>2, BoundsAssumption DEF Numbers
<1>4. Handed \subseteq DOMAIN bundles /\ \A p \in 0 .. MaxTime : IssuedBy(p) \subseteq Numbers
  BY <1>3 DEF Handed, IssuedBy
<1>5. \A b \in DOMAIN bundles : bundles[b] \in Bundles
  BY <1>1, <1>2
<1>6. DOMAIN rows = 1 .. Len(rows) /\ Len(rows) \in Nat
  BY <1>1
<1>7. \A r \in DOMAIN rows : rows[r] \in Rows
  BY <1>1, <1>6
<1>8. \A r \in DOMAIN rows : rows[r].jti \in Numbers
  BY <1>7 DEF Rows
<1> QED
  BY <1>2, <1>3, <1>4, <1>5, <1>6, <1>7, <1>8

(* Init gives every variable a value of its type. *)
LEMMA InitTyped == Init => TypeOK
<1> SUFFICES ASSUME Init PROVE TypeOK
  OBVIOUS
<1>1. req \in [Requests -> ReqType]
  BY IdleType DEF Init
<1>2. revoked \in [Procs -> SUBSET Jtis] /\ keys \in [Jtis -> Lives]
  BY DEF Init, Lives
<1>3. meta \in Metas /\ password \in Passwords /\ now \in Seconds /\ events \in 0 .. MaxEvents
  BY BoundsAssumption DEF Init, NoMeta, Metas, Passwords, Seconds
<1>4. bundles \in Seq(Bundles) /\ Len(bundles) <= MaxBundles /\ rows \in Seq(Rows)
  BY BoundsAssumption DEF Init
<1> QED
  BY <1>1, <1>2, <1>3, <1>4 DEF Init, TypeOK

(* Every step keeps the types. *)
LEMMA StepTyped == TypeOK /\ SoundRequests /\ [Next]_vars => TypeOK'
<1> SUFFICES ASSUME TypeOK, SoundRequests, [Next]_vars PROVE TypeOK'
  OBVIOUS
<1> USE IdleType, BundleFacts
<1>a. \A t \in Requests : req[t] \in ReqType /\ Sound(req[t])
  BY DEF TypeOK, SoundRequests
<1>1. ASSUME NEW t \in Requests, NEW p \in Procs, NEW d \in Devices, LoginBegin(t, p, d)
      PROVE  TypeOK'
  <2>1. [Idle EXCEPT !.at = "login", !.proc = p, !.device = d, !.password = password,
                     !.raced = Revoking] \in ReqType
    BY DEF TypeOK, ReqType, Places, Revoking, Idle
  <2>2. req' \in [Requests -> ReqType]
    BY <1>1, <2>1, GoType DEF LoginBegin
  <2>3. events' \in 0 .. MaxEvents
    BY <1>1, CountType DEF LoginBegin, Free
  <2> QED
    BY <1>1, <2>2, <2>3 DEF LoginBegin, TypeOK, database, tokens
<1>2. ASSUME NEW t \in Requests, NEW p \in Procs, NEW d \in Devices, NEW b \in Numbers,
             RefreshBegin(t, p, d, b)
      PROVE  TypeOK'
  <2>1. bundles[b] \in Bundles
    BY <1>2 DEF RefreshBegin
  <2>a. bundles[b].password \in Passwords /\ bundles[b].raced \in BOOLEAN /\ b \in 0 .. MaxBundles
    BY <2>1, BoundsAssumption DEF Bundles, Numbers
  <2>2. [Idle EXCEPT !.at = "refresh", !.proc = p, !.device = d, !.token = b,
                     !.password = bundles[b].password,
                     !.raced = bundles[b].raced \/ Revoking] \in ReqType
    BY <2>a DEF TypeOK, ReqType, Places, Revoking, Idle
  <2>3. req' \in [Requests -> ReqType]
    BY <1>2, <2>2, GoType DEF RefreshBegin
  <2>4. events' \in 0 .. MaxEvents
    BY <1>2, CountType DEF RefreshBegin, Free
  <2> QED
    BY <1>2, <2>3, <2>4 DEF RefreshBegin, TypeOK, database, tokens
<1>3. ASSUME NEW p \in Procs, NEW b \in Numbers, RefreshRefused(p, b)
      PROVE  TypeOK'
  <2>1. revoked' \in [Procs -> SUBSET Jtis] /\ keys' \in [Jtis -> Lives]
    BY <1>3, RevokeType, IdsType DEF RefreshRefused, Lives
  <2> QED
    BY <1>3, <2>1 DEF RefreshRefused, TypeOK, database
<1>4. ASSUME NEW t \in Requests, Issue(t)
      PROVE  TypeOK'
  <2>1. Issued(t) \in Bundles
    BY <1>a DEF TypeOK, Issued, Bundles, ReqType
  <2>2. bundles' \in Seq(Bundles) /\ Len(bundles') <= MaxBundles
    BY <1>4, <2>1, BoundsAssumption DEF Issue, TypeOK
  <2>3. PICK r \in OneOf(RowsOn(req[t].device)) :
          Go(t, [req[t] EXCEPT !.at = "write", !.fresh = Len(bundles) + 1, !.row = r])
    BY <1>4 DEF Issue
  <2>4. r \in Nat
    BY DEF OneOf, RowsOn
  <2>5. Len(bundles) + 1 \in 0 .. MaxBundles
    BY <1>4, BoundsAssumption DEF Issue
  <2>6. [req[t] EXCEPT !.at = "write", !.fresh = Len(bundles) + 1, !.row = r] \in ReqType
    BY <1>a, <2>4, <2>5 DEF ReqType, Places
  <2>7. req' \in [Requests -> ReqType]
    BY <2>3, <2>6, GoType
  <2>8. revoked' \in [Procs -> SUBSET Jtis] /\ keys' \in [Jtis -> Lives]
    <3>1. CASE req[t].at = "refresh"
      <4>1. RefreshIds({req[t].token}) \in SUBSET Jtis /\ req[t].proc \in Procs
        BY <1>4, <1>a, <3>1, IdsType DEF Sound
      <4> QED
        BY <1>4, <3>1, <4>1, RevokeType DEF Issue, Lives
    <3>2. CASE req[t].at # "refresh"
      BY <1>4, <3>2 DEF Issue, TypeOK
    <3> QED
      BY <3>1, <3>2
  <2> QED
    BY <1>4, <2>2, <2>7, <2>8 DEF Issue, TypeOK, database
<1>5. ASSUME NEW t \in Requests, SessionWrite(t)
      PROVE  TypeOK'
  <2> DEFINE q == req[t]
             new == [device |-> q.device, jti |-> q.fresh, open |-> TRUE]
  <2>1. q \in ReqType /\ q.at = "write" /\ q.fresh \in DOMAIN bundles /\ q.fresh \in Numbers
    BY <1>5, <1>a DEF SessionWrite, Sound
  <2>2. q.device \in Devices
    BY <2>1, <1>a DEF Sound
  <2>3. rows' \in Seq(Rows)
    <3>1. CASE q.row = 0
      <4>1. new \in Rows
        BY <2>1, <2>2 DEF Rows
      <4> QED
        BY <1>5, <3>1, <4>1 DEF SessionWrite, TypeOK
    <3>2. CASE q.row # 0
      <4>1. q.row \in DOMAIN rows
        BY <2>1, <1>a, <3>2 DEF Sound
      <4>2. [rows[q.row] EXCEPT !.jti = q.fresh] \in Rows
        BY <2>1, <4>1 DEF Rows
      <4>3. rows' = [rows EXCEPT ![q.row] = [rows[q.row] EXCEPT !.jti = q.fresh]]
        BY <1>5, <3>2 DEF SessionWrite
      <4> QED
        BY <4>1, <4>2, <4>3 DEF TypeOK
    <3> QED
      BY <3>1, <3>2
  <2>4. bundles' \in Seq(Bundles) /\ Len(bundles') = Len(bundles)
    <3>1. [bundles[q.fresh] EXCEPT !.given = TRUE, !.raced = q.raced] \in Bundles
      BY <2>1 DEF Bundles, ReqType
    <3>2. bundles' = [bundles EXCEPT ![q.fresh] = [bundles[q.fresh] EXCEPT !.given = TRUE, !.raced = q.raced]]
      BY <1>5, <2>1 DEF SessionWrite, Bundles
    <3> QED
      BY <2>1, <3>1, <3>2 DEF TypeOK
  <2>5. req' \in [Requests -> ReqType]
    BY <1>5, GoType DEF SessionWrite, Return
  <2> QED
    BY <1>5, <2>3, <2>4, <2>5 DEF SessionWrite, TypeOK
<1>6. ASSUME NEW t \in Requests, NEW p \in Procs, NEW a \in Numbers, NEW r \in 0 .. MaxBundles,
             NEW current \in BOOLEAN, LogoutBegin(t, p, a, r, current)
      PROVE  TypeOK'
  <2> DEFINE known == r # 0 /\ ~IsRevoked(p, <<"refresh", r>>)
             ids == (IF current THEN {<<"access", a>>} ELSE {})
                      \cup (IF known THEN RefreshIds({r}) ELSE {})
  <2>1. known => r \in Numbers
    BY BoundsAssumption DEF Numbers
  <2>2. ids \in SUBSET Jtis
    BY <2>1, IdsType DEF Jtis, Kinds
  <2>3. revoked' \in [Procs -> SUBSET Jtis] /\ keys' \in [Jtis -> Lives]
    BY <1>6, <2>2, RevokeType DEF LogoutBegin, Lives
  <2>4. req' \in [Requests -> ReqType] /\ history'.out \subseteq history.out \cup {r}
        /\ history' \in [out : SUBSET Numbers, ended : SUBSET Numbers,
                          changed : SUBSET Numbers, interrupted : BOOLEAN]
    <3>1. CASE known /\ RowsOf(r) # {}
      <4>1. PICK s \in RowsOf(r) :
              Go(t, [Idle EXCEPT !.at = "logout", !.proc = p, !.token = r, !.row = s])
        BY <1>6, <3>1 DEF LogoutBegin
      <4>2. s \in Nat
        BY DEF RowsOf
      <4>3. [Idle EXCEPT !.at = "logout", !.proc = p, !.token = r, !.row = s] \in ReqType
        BY <4>2 DEF ReqType, Places, Idle
      <4> QED
        BY <1>6, <3>1, <4>1, <4>3, GoType DEF LogoutBegin, TypeOK
    <3>2. CASE ~(known /\ RowsOf(r) # {})
      <4>1. history' = Out(IF known THEN {r} ELSE {}) /\ req' = req
        BY <1>6, <3>2 DEF LogoutBegin
      <4> QED
        BY <2>1, <4>1 DEF Out, TypeOK
    <3> QED
      BY <3>1, <3>2
  <2>5. events' \in 0 .. MaxEvents
    BY <1>6, CountType DEF LogoutBegin, Free
  <2> QED
    BY <1>6, <2>3, <2>4, <2>5 DEF LogoutBegin, TypeOK, database
<1>7. ASSUME NEW t \in Requests, LogoutCommit(t)
      PROVE  TypeOK'
  <2>1. rows' \in Seq(Rows)
    BY <1>7, CloseRows DEF LogoutCommit, TypeOK
  <2>2. req[t].token \in Numbers
    BY <1>7, <1>a DEF LogoutCommit, Sound
  <2>3. req' \in [Requests -> ReqType]
    BY <1>7, GoType DEF LogoutCommit, Return
  <2> QED
    BY <1>7, <2>1, <2>2, <2>3 DEF LogoutCommit, TypeOK, tokens, Out
<1>8. ASSUME NEW t \in Requests, NEW p \in Procs, NEW s \in Numbers, DeviceBegin(t, p, s)
      PROVE  TypeOK'
  <2>a. s \in Nat
    BY DEF Numbers
  <2>1. [Idle EXCEPT !.at = "revoke", !.proc = p, !.row = s] \in ReqType
    BY <2>a DEF ReqType, Places, Idle
  <2>2. req' \in [Requests -> ReqType]
    BY <1>8, <2>1, GoType DEF DeviceBegin
  <2>3. rows[s].jti \in Numbers
    BY <1>8 DEF DeviceBegin
  <2>4. revoked' \in [Procs -> SUBSET Jtis] /\ keys' \in [Jtis -> Lives]
    BY <1>8, <2>3, RevokeType, IdsType DEF DeviceBegin, Lives
  <2>5. events' \in 0 .. MaxEvents
    BY <1>8, CountType DEF DeviceBegin, Free
  <2> QED
    BY <1>8, <2>2, <2>4, <2>5 DEF DeviceBegin, TypeOK, database
<1>9. ASSUME NEW t \in Requests, DeviceCommit(t)
      PROVE  TypeOK'
  <2>1. rows' \in Seq(Rows)
    BY <1>9, CloseRows DEF DeviceCommit, TypeOK
  <2>2. rows[req[t].row].jti \in Numbers
    BY <1>9, <1>a DEF DeviceCommit, Sound
  <2>3. req' \in [Requests -> ReqType]
    BY <1>9, GoType DEF DeviceCommit, Return
  <2> QED
    BY <1>9, <2>1, <2>2, <2>3 DEF DeviceCommit, TypeOK, tokens, Out
<1>10. CASE SetActive
  <2>1. events' \in 0 .. MaxEvents
    BY <1>10, CountType DEF SetActive
  <2> QED
    BY <1>10, <2>1 DEF SetActive, TypeOK, tokens
<1>b. ASSUME NEW t \in Requests, NEW p \in Procs, NEW a \in 0 .. MaxBundles,
             NEW place \in {"password", "setup", "enable"}, Snapshot(t, place, p, a)
      PROVE  req' \in [Requests -> ReqType]
  <2>1. [Idle EXCEPT !.at = place, !.proc = p, !.token = a, !.meta = meta] \in ReqType
    BY DEF ReqType, Places, Idle, TypeOK
  <2> QED
    BY <1>b, <2>1, GoType DEF Snapshot
<1>c. Numbers \subseteq 0 .. MaxBundles /\ 0 \in 0 .. MaxBundles
  BY BoundsAssumption DEF Numbers
<1>11. ASSUME NEW t \in Requests, NEW p \in Procs, ResetBegin(t, p)
       PROVE  TypeOK'
  <2>1. req' \in [Requests -> ReqType]
    BY <1>11, <1>b, <1>c DEF ResetBegin
  <2>2. events' \in 0 .. MaxEvents
    BY <1>11, CountType DEF ResetBegin, Free
  <2> QED
    BY <1>11, <2>1, <2>2 DEF ResetBegin, TypeOK, database, tokens
<1>12. ASSUME NEW t \in Requests, NEW p \in Procs, NEW a \in Numbers, ChangeBegin(t, p, a)
       PROVE  TypeOK'
  <2>1. req' \in [Requests -> ReqType]
    BY <1>12, <1>b, <1>c DEF ChangeBegin
  <2>2. events' \in 0 .. MaxEvents
    BY <1>12, CountType DEF ChangeBegin, Free
  <2> QED
    BY <1>12, <2>1, <2>2 DEF ChangeBegin, TypeOK, database, tokens
<1>13. ASSUME NEW t \in Requests, NEW p \in Procs, NEW a \in Numbers,
              NEW place \in {"setup", "enable"}, MfaBegin(t, p, a, place)
       PROVE  TypeOK'
  <2>1. req' \in [Requests -> ReqType]
    BY <1>13, <1>b, <1>c DEF MfaBegin
  <2>2. events' \in 0 .. MaxEvents
    BY <1>13, CountType DEF MfaBegin, Free
  <2> QED
    BY <1>13, <2>1, <2>2 DEF MfaBegin, TypeOK, database, tokens
<1>14. ASSUME NEW t \in Requests, PasswordCommit(t)
       PROVE  TypeOK'
  <2>1. [req[t] EXCEPT !.at = "sessions"] \in ReqType
    BY <1>a DEF ReqType, Places
  <2>2. req' \in [Requests -> ReqType]
    BY <1>14, <2>1, GoType DEF PasswordCommit
  <2>3. password' \in Passwords
    BY <1>14, BoundsAssumption DEF PasswordCommit, Passwords, TypeOK
  <2>4. meta' \in Metas
    BY <1>14, <1>a DEF PasswordCommit, ReqType
  <2> QED
    BY <1>14, <2>2, <2>3, <2>4 DEF PasswordCommit, TypeOK, tokens
<1>15. ASSUME NEW t \in Requests, SessionsRead(t)
       PROVE  TypeOK'
  <2>1. OpenRows \in SUBSET Nat
    BY DEF OpenRows
  <2>2. [req[t] EXCEPT !.at = "closing", !.meta = meta, !.seen = OpenRows, !.time = now] \in ReqType
    BY <1>a, <2>1 DEF ReqType, Places, TypeOK
  <2>3. \A u \in Requests : [req[u] EXCEPT !.raced = TRUE] \in ReqType
    BY <1>a DEF ReqType
  <2>4. req' \in [Requests -> ReqType]
    BY <1>15, <1>a, <2>2, <2>3 DEF SessionsRead
  <2>5. {rows[r].jti : r \in OpenRows} \in SUBSET Numbers
    BY DEF OpenRows
  <2>6. revoked' \in [Procs -> SUBSET Jtis] /\ keys' \in [Jtis -> Lives]
    BY <1>15, <1>a, <2>5, RevokeType, IdsType DEF SessionsRead, Lives, Sound
  <2> QED
    BY <1>15, <2>4, <2>6 DEF SessionsRead, TypeOK, database
<1>16. ASSUME NEW t \in Requests, SessionsCommit(t)
       PROVE  TypeOK'
  <2>1. rows' \in Seq(Rows)
    BY <1>16, CloseRows DEF SessionsCommit, TypeOK
  <2>2. {rows[r].jti : r \in req[t].seen} \in SUBSET Numbers
    BY <1>16, <1>a DEF SessionsCommit, Sound
  <2>3. req' \in [Requests -> ReqType]
    BY <1>16, GoType DEF SessionsCommit, Return
  <2>4. req[t].meta \in Metas /\ req[t].time \in 0 .. MaxTime
    BY <1>a, BoundsAssumption DEF ReqType, Seconds
  <2>5. [req[t].meta EXCEPT !.revokedAt = req[t].time] \in Metas
    BY <2>4 DEF Metas
  <2>6. meta' \in Metas
    BY <1>16, <2>5 DEF SessionsCommit, TypeOK
  <2>7. IssuedBy(req[t].time) \in SUBSET Numbers
    BY <2>4
  <2>8. history' \in [out : SUBSET Numbers, ended : SUBSET Numbers,
                      changed : SUBSET Numbers, interrupted : BOOLEAN]
    BY <1>16, <2>2, <2>7 DEF SessionsCommit, TypeOK
  <2> QED
    BY <1>16, <2>1, <2>3, <2>6, <2>8 DEF SessionsCommit, TypeOK, tokens
<1>17. ASSUME NEW t \in Requests, SetupCommit(t)
       PROVE  TypeOK'
  <2>1. req' \in [Requests -> ReqType]
    BY <1>17, GoType DEF SetupCommit, Return
  <2>2. meta' \in Metas
    BY <1>17, <1>a DEF SetupCommit, ReqType, Metas
  <2> QED
    BY <1>17, <2>1, <2>2 DEF SetupCommit, TypeOK, tokens
<1>18. ASSUME NEW t \in Requests, EnableCommit(t)
       PROVE  TypeOK'
  <2>1. req' \in [Requests -> ReqType]
    BY <1>18, GoType DEF EnableCommit, Return
  <2>2. meta' \in Metas
    BY <1>18, <1>a DEF EnableCommit, ReqType, Metas
  <2> QED
    BY <1>18, <2>1, <2>2 DEF EnableCommit, TypeOK, tokens
<1>19. CASE Tick
  BY <1>19, BoundsAssumption DEF Tick, TypeOK, database, tokens, Seconds
<1>20. ASSUME NEW b \in Numbers, Lapse(b)
       PROVE  TypeOK'
  <2>1. keys' \in [Jtis -> Lives]
    BY <1>20 DEF Lapse, TypeOK, Lives
  <2> QED
    BY <1>20, <2>1 DEF Lapse, TypeOK, database
<1>21. ASSUME NEW p \in Procs, Restart(p)
       PROVE  TypeOK'
  <2>1. req' \in [Requests -> ReqType]
    BY <1>21, <1>a DEF Restart
  <2>2. events' \in 0 .. MaxEvents
    BY <1>21, CountType DEF Restart
  <2>3. revoked' \in [Procs -> SUBSET Jtis]
    BY <1>21 DEF Restart, TypeOK
  <2>4. history' \in [out : SUBSET Numbers, ended : SUBSET Numbers,
                      changed : SUBSET Numbers, interrupted : BOOLEAN]
    BY <1>21 DEF Restart, TypeOK
  <2> QED
    BY <1>21, <2>1, <2>2, <2>3, <2>4 DEF Restart, TypeOK, database
<1>22. CASE UNCHANGED vars
  BY <1>22 DEF vars, TypeOK, database, tokens
<1> QED
  BY <1>1, <1>2, <1>3, <1>4, <1>5, <1>6, <1>7, <1>8, <1>9, <1>10, <1>11, <1>12, <1>13, <1>14,
     <1>15, <1>16, <1>17, <1>18, <1>19, <1>20, <1>21, <1>22 DEF Next

(* ---------------------------------------------------------------------- *)
(* Tokens and rows.  Most steps write neither a row nor a bundle: they     *)
(* leave every request as it was or send it where it knows what it works   *)
(* on, and put out only tokens that no open row names.                     *)
LEMMA QuietUsage ==
  ASSUME UsageInv, rows' = rows, bundles' = bundles,
         \A t \in Requests : /\ Sound(req'[t])
                             /\ req'[t].at = "write" => /\ req[t].at = "write"
                                                        /\ req'[t].fresh = req[t].fresh,
         \A b \in history'.out : b \in history.out \/ (b \in Handed /\ RowsOf(b) = {})
  PROVE  UsageInv'
<1>1. Handed' = Handed /\ \A b : RowsOf(b)' = RowsOf(b)
  BY DEF Handed, RowsOf
<1>2. SoundRequests'
  BY <1>1 DEF SoundRequests, Sound
<1>3. OneRecorder' /\ OneRow' /\ OutStays'
  BY <1>1 DEF UsageInv, OneRecorder, OneRow, OutStays
<1> QED
  BY <1>2, <1>3 DEF UsageInv

(* A request that is sent somewhere else than to record. *)
LEMMA GoUsage ==
  ASSUME TypeOK, UsageInv, rows' = rows, bundles' = bundles,
         NEW t \in Requests, NEW r, Go(t, r), Sound(r), r.at # "write",
         \A b \in history'.out : b \in history.out \/ (b \in Handed /\ RowsOf(b) = {})
  PROVE  UsageInv'
<1>1. req' = [u \in Requests |-> IF u = t THEN r ELSE req[u]]
  BY DEF TypeOK, Go
<1>2. \A u \in Requests : Sound(req[u])
  BY DEF UsageInv, SoundRequests
<1>3. \A u \in Requests : /\ Sound(req'[u])
                          /\ req'[u].at = "write" => /\ req[u].at = "write"
                                                     /\ req'[u].fresh = req[u].fresh
  BY <1>1, <1>2
<1> QED
  BY <1>3, QuietUsage

(* Closing rows, and putting out the tokens that are in no other row. *)
LEMMA CloseUsage ==
  ASSUME TypeOK, UsageInv, bundles' = bundles, NEW S, Close(S), NEW t \in Requests, Return(t),
         \A b \in history'.out : \/ b \in history.out
                                 \/ b \in Handed /\ RowsOf(b) \subseteq S
  PROVE  UsageInv'
<1>1. /\ DOMAIN rows' = DOMAIN rows
      /\ \A r \in DOMAIN rows : /\ rows'[r].jti = rows[r].jti
                                /\ rows'[r].open = (rows[r].open /\ r \notin S)
  BY CloseRows DEF TypeOK
<1>2. Handed' = Handed /\ \A b : RowsOf(b)' = RowsOf(b) \ S
  BY <1>1 DEF Handed, RowsOf
<1>3. req' = [u \in Requests |-> IF u = t THEN Idle ELSE req[u]]
  BY DEF TypeOK, Return, Go
<1>4. SoundRequests'
  BY <1>1, <1>2, <1>3 DEF UsageInv, SoundRequests, Sound, Idle
<1>5. OneRecorder'
  BY <1>3 DEF UsageInv, OneRecorder, Idle
<1>6. OneRow'
  BY <1>1, <1>2 DEF UsageInv, OneRow
<1>7. OutStays'
  BY <1>2 DEF UsageInv, OutStays
<1> QED
  BY <1>4, <1>5, <1>6, <1>7 DEF UsageInv

(* Issuing a bundle: it is new, so no other request is about to record it. *)
LEMMA IssueUsage ==
  ASSUME TypeOK, UsageInv, NEW t \in Requests, Issue(t)
  PROVE  UsageInv'
<1> DEFINE n == Len(bundles) + 1
<1>1. PICK r \in OneOf(RowsOn(req[t].device)) :
        Go(t, [req[t] EXCEPT !.at = "write", !.fresh = n, !.row = r])
  BY DEF Issue
<1>2. r \in DOMAIN rows \cup {0}
  BY DEF OneOf, RowsOn
<1>3. /\ bundles' = Append(bundles, Issued(t)) /\ rows' = rows /\ history' = history
  BY DEF Issue, database
<1>4. /\ DOMAIN bundles' = DOMAIN bundles \cup {n} /\ n \notin DOMAIN bundles
      /\ \A b \in DOMAIN bundles : bundles'[b] = bundles[b]
      /\ bundles'[n] = Issued(t)
  BY <1>3, BundleFacts DEF TypeOK
<1>5. Handed' = Handed /\ n \notin Handed
  BY <1>4 DEF Handed, Issued
<1>6. \A b : RowsOf(b)' = RowsOf(b)
  BY <1>3 DEF RowsOf
<1> DEFINE new == [req[t] EXCEPT !.at = "write", !.fresh = n, !.row = r]
<1>7. /\ req[t] \in ReqType /\ Sound(req[t]) /\ req[t].at \in {"login", "refresh"}
      /\ req' = [u \in Requests |-> IF u = t THEN new ELSE req[u]]
  BY <1>1 DEF TypeOK, UsageInv, SoundRequests, Issue, Go
<1>8. /\ new.at = "write" /\ new.fresh = n /\ new.row = r /\ new.password = req[t].password
      /\ new.device = req[t].device /\ new.proc = req[t].proc
  BY <1>7 DEF ReqType
<1>9. bundles'[n].password = new.password
  BY <1>4, <1>8 DEF Issued
<1> HIDE DEF n, new
<1>10. ASSUME NEW u \in Requests PROVE Sound(req[u])'
  <2>1. CASE u = t
    <3>1. req'[u] = new
      BY <1>7, <2>1
    <3> QED
      BY <3>1, <1>2, <1>3, <1>4, <1>5, <1>7, <1>8, <1>9 DEF Sound
  <2>2. CASE u # t
    <3>1. req'[u] = req[u] /\ Sound(req[u])
      BY <1>7, <2>2 DEF UsageInv, SoundRequests
    <3> QED
      BY <3>1, <1>3, <1>4, <1>5 DEF Sound
  <2> QED
    BY <2>1, <2>2
<1>12. SoundRequests'
  BY <1>10 DEF SoundRequests
<1>13. \A u \in Requests : req[u].at = "write" => req[u].fresh \in DOMAIN bundles
  BY DEF UsageInv, SoundRequests, Sound
<1>14. OneRecorder'
  BY <1>4, <1>7, <1>8, <1>13 DEF UsageInv, OneRecorder
<1>15. OneRow' /\ OutStays'
  BY <1>3, <1>5, <1>6 DEF UsageInv, OneRow, OutStays
<1> QED
  BY <1>12, <1>14, <1>15 DEF UsageInv

(* Recording a session: the bundle is given to its client, and one row,    *)
(* new or open before, names it.                                           *)
LEMMA WriteFacts ==
  ASSUME TypeOK, UsageInv, NEW t \in Requests, SessionWrite(t)
  PROVE  LET q == req[t]
             f == q.fresh IN
         /\ q.at = "write" /\ f \in DOMAIN bundles \ Handed /\ bundles[f].password = q.password
         /\ DOMAIN bundles' = DOMAIN bundles
         /\ \A b \in DOMAIN bundles \ {f} : bundles'[b] = bundles[b]
         /\ bundles'[f] = [bundles[f] EXCEPT !.given = TRUE, !.raced = q.raced]
         /\ bundles[f] \in Bundles
         /\ \E w \in Nat :
              /\ DOMAIN rows' = DOMAIN rows \cup {w} /\ rows'[w].jti = f
              /\ \A r \in DOMAIN rows \ {w} : rows'[r] = rows[r]
              /\ w \in DOMAIN rows => rows'[w].open = rows[w].open
         /\ req' = [u \in Requests |-> IF u = t THEN Idle ELSE req[u]]
<1> DEFINE q == req[t]
           f == q.fresh
<1>1. /\ q \in ReqType /\ q.at = "write" /\ f \in DOMAIN bundles \ Handed
      /\ q.row \in DOMAIN rows \cup {0} /\ bundles[f] \in Bundles /\ bundles[f].password = q.password
  BY BundleFacts DEF TypeOK, UsageInv, SoundRequests, Sound, SessionWrite
<1>2. /\ DOMAIN bundles' = DOMAIN bundles
      /\ \A b \in DOMAIN bundles \ {f} : bundles'[b] = bundles[b]
      /\ bundles'[f] = [bundles[f] EXCEPT !.given = TRUE, !.raced = q.raced]
  BY <1>1, BundleFacts DEF SessionWrite, Bundles
<1>3. \E w \in Nat :
        /\ DOMAIN rows' = DOMAIN rows \cup {w} /\ rows'[w].jti = f
        /\ \A r \in DOMAIN rows \ {w} : rows'[r] = rows[r]
        /\ w \in DOMAIN rows => rows'[w].open = rows[w].open
  <2>1. CASE q.row = 0
    <3>1. rows' = Append(rows, [device |-> q.device, jti |-> f, open |-> TRUE])
      BY <2>1 DEF SessionWrite
    <3>2. Len(rows) + 1 \in Nat /\ Len(rows) + 1 \notin DOMAIN rows
      BY BundleFacts
    <3>3. /\ DOMAIN rows' = DOMAIN rows \cup {Len(rows) + 1}
          /\ rows'[Len(rows) + 1] = [device |-> q.device, jti |-> f, open |-> TRUE]
          /\ \A r \in DOMAIN rows : rows'[r] = rows[r]
      BY <3>1, BundleFacts DEF TypeOK
    <3> QED
      BY <3>2, <3>3
  <2>2. CASE q.row # 0
    <3>1. q.row \in DOMAIN rows /\ rows[q.row] \in Rows /\ q.row \in Nat
      BY <1>1, <2>2, BundleFacts
    <3>2. rows' = [rows EXCEPT ![q.row] = [rows[q.row] EXCEPT !.jti = f]]
      BY <2>2 DEF SessionWrite
    <3> QED
      BY <3>1, <3>2 DEF Rows
  <2> QED
    BY <2>1, <2>2
<1>4. req' = [u \in Requests |-> IF u = t THEN Idle ELSE req[u]]
  BY DEF TypeOK, SessionWrite, Return, Go
<1> QED
  BY <1>1, <1>2, <1>3, <1>4

(* No other request that works on a row's former token relies on it.       *)
LEMMA WriteUsage ==
  ASSUME TypeOK, UsageInv, NEW t \in Requests, SessionWrite(t)
  PROVE  UsageInv'
<1> DEFINE q == req[t]
           f == q.fresh
<1>1. q.at = "write" /\ f \in DOMAIN bundles \ Handed
  BY WriteFacts
<1>2. /\ DOMAIN bundles' = DOMAIN bundles
      /\ \A b \in DOMAIN bundles : /\ bundles'[b].given = (bundles[b].given \/ b = f)
                                   /\ bundles'[b].password = bundles[b].password
  <2>1. /\ DOMAIN bundles' = DOMAIN bundles /\ bundles[f] \in Bundles
        /\ \A b \in DOMAIN bundles \ {f} : bundles'[b] = bundles[b]
        /\ bundles'[f] = [bundles[f] EXCEPT !.given = TRUE, !.raced = q.raced]
    BY WriteFacts
  <2>2. \A b \in DOMAIN bundles : bundles[b].given \in BOOLEAN
    BY BundleFacts DEF Bundles
  <2>3. bundles'[f].given /\ bundles'[f].password = bundles[f].password
    BY <2>1 DEF Bundles
  <2> QED
    BY <2>1, <2>2, <2>3
<1>3. Handed' = Handed \cup {f}
  BY <1>1, <1>2 DEF Handed
<1>5. PICK w \in Nat :
        /\ DOMAIN rows' = DOMAIN rows \cup {w} /\ rows'[w].jti = f
        /\ \A r \in DOMAIN rows \ {w} : rows'[r] = rows[r]
        /\ w \in DOMAIN rows => rows'[w].open = rows[w].open
  BY WriteFacts
<1>6. req' = [u \in Requests |-> IF u = t THEN Idle ELSE req[u]]
  BY WriteFacts
<1>7. history' = history
  BY DEF SessionWrite
<1>8. \A r \in DOMAIN rows : rows[r].jti \in Handed
  BY DEF UsageInv, OneRow
<1>9. \A b \in Handed : RowsOf(b)' \subseteq RowsOf(b)
  BY <1>1, <1>5 DEF RowsOf
<1>10. ASSUME NEW u \in Requests PROVE Sound(req[u])'
  <2>1. CASE u = t
    BY <1>6, <2>1 DEF Sound, Idle
  <2>2. CASE u # t
    <3>1. req'[u] = req[u] /\ Sound(req[u])
      BY <1>6, <2>2 DEF UsageInv, SoundRequests
    <3>2. req[u].at = "write" => req[u].fresh # f
      BY <1>1, <2>2 DEF UsageInv, OneRecorder
    <3>3. req[u].at = "logout" => \A s \in DOMAIN rows' : rows'[s].jti = req[u].token => s = req[u].row
      BY <1>1, <1>5, <3>1 DEF Sound
    <3> QED
      BY <1>2, <1>3, <1>5, <3>1, <3>2, <3>3 DEF Sound
  <2> QED
    BY <2>1, <2>2
<1>11. SoundRequests'
  BY <1>10 DEF SoundRequests
<1>12. OneRecorder'
  BY <1>6 DEF UsageInv, OneRecorder, Idle
<1>13. OneRow'
  BY <1>1, <1>3, <1>5, <1>8 DEF UsageInv, OneRow
<1>14. OutStays'
  BY <1>3, <1>7, <1>9 DEF UsageInv, OutStays
<1> QED
  BY <1>11, <1>12, <1>13, <1>14 DEF UsageInv

(* The first state, and every step, keep the invariant. *)
LEMMA InitUsage == Init => UsageInv
<1> SUFFICES ASSUME Init PROVE UsageInv
  OBVIOUS
<1>1. \A t \in Requests : req[t].at = "idle"
  BY DEF Init, Idle
<1>2. DOMAIN rows = {} /\ history.out = {}
  BY DEF Init
<1> QED
  BY <1>1, <1>2 DEF UsageInv, SoundRequests, Sound, OneRecorder, OneRow, OutStays

(* Every step keeps the invariant of who works on which row. *)
LEMMA StepUsage == TypeOK /\ UsageInv /\ [Next]_vars => UsageInv'
<1> SUFFICES ASSUME TypeOK, UsageInv, [Next]_vars PROVE UsageInv'
  OBVIOUS
<1>a. \A t \in Requests : req[t] \in ReqType /\ Sound(req[t])
  BY DEF TypeOK, UsageInv, SoundRequests
<1>b. Sound(Idle) /\ Idle.at # "write"
  BY DEF Sound, Idle
<1>1. ASSUME NEW t \in Requests, NEW p \in Procs, NEW d \in Devices, LoginBegin(t, p, d)
      PROVE  UsageInv'
  <2> DEFINE r == [Idle EXCEPT !.at = "login", !.proc = p, !.device = d,
                               !.password = password, !.raced = Revoking]
  <2>1. Sound(r) /\ r.at # "write"
    BY DEF Sound, Idle
  <2> QED
    BY <1>1, <2>1, GoUsage DEF LoginBegin, database, tokens
<1>2. ASSUME NEW t \in Requests, NEW p \in Procs, NEW d \in Devices, NEW b \in Numbers,
             RefreshBegin(t, p, d, b)
      PROVE  UsageInv'
  <2> DEFINE r == [Idle EXCEPT !.at = "refresh", !.proc = p, !.device = d, !.token = b,
                               !.password = bundles[b].password,
                               !.raced = bundles[b].raced \/ Revoking]
  <2>1. Sound(r) /\ r.at # "write"
    BY DEF Sound, Idle
  <2> QED
    BY <1>2, <2>1, GoUsage DEF RefreshBegin, database, tokens
<1>3. ASSUME NEW p \in Procs, NEW b \in Numbers, RefreshRefused(p, b)
      PROVE  UsageInv'
  BY <1>3, <1>a, QuietUsage DEF RefreshRefused, database
<1>4. ASSUME NEW t \in Requests, Issue(t)
      PROVE  UsageInv'
  BY <1>4, IssueUsage
<1>5. ASSUME NEW t \in Requests, SessionWrite(t)
      PROVE  UsageInv'
  BY <1>5, WriteUsage
<1>6. ASSUME NEW t \in Requests, NEW p \in Procs, NEW a \in Numbers, NEW r \in 0 .. MaxBundles,
             NEW current \in BOOLEAN, LogoutBegin(t, p, a, r, current)
      PROVE  UsageInv'
  <2> DEFINE known == r # 0 /\ ~IsRevoked(p, <<"refresh", r>>)
  <2>1. rows' = rows /\ bundles' = bundles /\ r \in Handed \cup {0}
    BY <1>6 DEF LogoutBegin, database
  <2>2. CASE known /\ RowsOf(r) # {}
    <3>1. PICK s \in RowsOf(r) :
            Go(t, [Idle EXCEPT !.at = "logout", !.proc = p, !.token = r, !.row = s])
      BY <1>6, <2>2 DEF LogoutBegin
    <3>2. history' = history
      BY <1>6, <2>2 DEF LogoutBegin
    <3> DEFINE q == [Idle EXCEPT !.at = "logout", !.proc = p, !.token = r, !.row = s]
    <3>3. s \in DOMAIN rows /\ rows[s].jti = r /\ r \in Handed
      BY <2>1, <2>2 DEF RowsOf
    <3>4. \A u \in DOMAIN rows : rows[u].jti = r => u = s
      BY <3>3 DEF UsageInv, OneRow
    <3>5. q.at = "logout" /\ q.proc = p /\ q.token = r /\ q.row = s
      BY DEF Idle
    <3> HIDE DEF q
    <3>6. Sound(q) /\ q.at # "write"
      BY <3>3, <3>4, <3>5 DEF Sound
    <3> QED
      BY <2>1, <3>1, <3>2, <3>6, GoUsage DEF q
  <2>3. CASE ~(known /\ RowsOf(r) # {})
    <3>1. history' = Out(IF known THEN {r} ELSE {}) /\ req' = req
      BY <1>6, <2>3 DEF LogoutBegin
    <3>2. \A b \in history'.out : b \in history.out \/ (b \in Handed /\ RowsOf(b) = {})
      BY <2>1, <2>3, <3>1 DEF Out, TypeOK
    <3> QED
      BY <1>a, <2>1, <3>1, <3>2, QuietUsage
  <2> QED
    BY <2>2, <2>3
<1>7. ASSUME NEW t \in Requests, LogoutCommit(t)
      PROVE  UsageInv'
  <2>1. /\ req[t].token \in Handed
        /\ \A s \in DOMAIN rows : rows[s].jti = req[t].token => s = req[t].row
    BY <1>7, <1>a DEF LogoutCommit, Sound
  <2>2. RowsOf(req[t].token) \subseteq {req[t].row}
    BY <2>1 DEF RowsOf
  <2>3. history'.out = history.out \cup {req[t].token}
    BY <1>7 DEF LogoutCommit, Out, TypeOK
  <2> QED
    BY <1>7, <2>1, <2>2, <2>3, CloseUsage DEF LogoutCommit, tokens
<1>8. ASSUME NEW t \in Requests, NEW p \in Procs, NEW s \in Numbers, DeviceBegin(t, p, s)
      PROVE  UsageInv'
  <2> DEFINE r == [Idle EXCEPT !.at = "revoke", !.proc = p, !.row = s]
  <2>1. s \in DOMAIN rows
    BY <1>8 DEF DeviceBegin
  <2>2. Sound(r) /\ r.at # "write"
    BY <2>1 DEF Sound, Idle
  <2> QED
    BY <1>8, <2>2, GoUsage DEF DeviceBegin, database
<1>9. ASSUME NEW t \in Requests, DeviceCommit(t)
      PROVE  UsageInv'
  <2> DEFINE s == req[t].row
  <2>1. s \in DOMAIN rows
    BY <1>9, <1>a DEF DeviceCommit, Sound
  <2>2. rows[s].jti \in Handed /\ RowsOf(rows[s].jti) \subseteq {s}
    BY <2>1 DEF UsageInv, OneRow, RowsOf
  <2>3. history'.out = history.out \cup {rows[s].jti}
    BY <1>9 DEF DeviceCommit, Out, TypeOK
  <2> QED
    BY <1>9, <2>2, <2>3, CloseUsage DEF DeviceCommit, tokens
<1>10. CASE SetActive
  BY <1>10, <1>a, QuietUsage DEF SetActive, tokens
<1>c. ASSUME NEW t \in Requests, NEW p \in Procs, NEW a,
             NEW place \in {"password", "setup", "enable"}, Snapshot(t, place, p, a),
             rows' = rows, bundles' = bundles, history' = history
      PROVE  UsageInv'
  <2> DEFINE r == [Idle EXCEPT !.at = place, !.proc = p, !.token = a, !.meta = meta]
  <2>1. Sound(r) /\ r.at # "write"
    BY DEF Sound, Idle
  <2> QED
    BY <1>c, <2>1, GoUsage DEF Snapshot
<1>11. ASSUME NEW t \in Requests, NEW p \in Procs, ResetBegin(t, p)
       PROVE  UsageInv'
  BY <1>11, <1>c DEF ResetBegin, database, tokens
<1>12. ASSUME NEW t \in Requests, NEW p \in Procs, NEW a \in Numbers, ChangeBegin(t, p, a)
       PROVE  UsageInv'
  BY <1>12, <1>c DEF ChangeBegin, database, tokens
<1>13. ASSUME NEW t \in Requests, NEW p \in Procs, NEW a \in Numbers,
              NEW place \in {"setup", "enable"}, MfaBegin(t, p, a, place)
       PROVE  UsageInv'
  BY <1>13, <1>c DEF MfaBegin, database, tokens
<1>14. ASSUME NEW t \in Requests, PasswordCommit(t)
       PROVE  UsageInv'
  <2> DEFINE r == [req[t] EXCEPT !.at = "sessions"]
  <2>1. r.at = "sessions" /\ r.proc = req[t].proc
    BY <1>a DEF ReqType
  <2> HIDE DEF r
  <2>2. Sound(r) /\ r.at # "write"
    BY <1>14, <1>a, <2>1 DEF Sound, PasswordCommit
  <2> QED
    BY <1>14, <2>2, GoUsage DEF PasswordCommit, tokens, r
<1>15. ASSUME NEW t \in Requests, SessionsRead(t)
       PROVE  UsageInv'
  <2> DEFINE r == [req[t] EXCEPT !.at = "closing", !.meta = meta, !.seen = OpenRows, !.time = now]
  <2>1. r.at = "closing" /\ r.proc = req[t].proc /\ r.seen = OpenRows
    BY <1>a DEF ReqType
  <2> HIDE DEF r
  <2>2. Sound(r) /\ r.at # "write"
    BY <1>15, <1>a, <2>1 DEF Sound, SessionsRead, OpenRows
  <2>3. \A u \in Requests : LET v == [req[u] EXCEPT !.raced = TRUE] IN
          Sound(v) /\ v.at = req[u].at /\ v.fresh = req[u].fresh
    BY <1>a DEF Sound, ReqType
  <2>4. req' = [u \in Requests |-> IF u = t THEN r
                                   ELSE IF u \in Recording THEN [req[u] EXCEPT !.raced = TRUE]
                                   ELSE req[u]]
    BY <1>15 DEF SessionsRead, r
  <2>5. \A u \in Requests : /\ Sound(req'[u])
                            /\ req'[u].at = "write" => /\ req[u].at = "write"
                                                       /\ req'[u].fresh = req[u].fresh
    BY <1>a, <2>2, <2>3, <2>4
  <2> QED
    BY <1>15, <2>5, QuietUsage DEF SessionsRead, database
<1>16. ASSUME NEW t \in Requests, SessionsCommit(t)
       PROVE  UsageInv'
  <2> DEFINE S == req[t].seen
  <2>1. S \subseteq DOMAIN rows
    BY <1>16, <1>a DEF SessionsCommit, Sound
  <2>2. \A s \in S : rows[s].jti \in Handed /\ RowsOf(rows[s].jti) \subseteq S
    BY <2>1 DEF UsageInv, OneRow, RowsOf
  <2>3. history'.out = history.out \cup {rows[s].jti : s \in S}
    BY <1>16 DEF SessionsCommit, TypeOK
  <2> QED
    BY <1>16, <2>2, <2>3, CloseUsage DEF SessionsCommit, tokens
<1>17. ASSUME NEW t \in Requests, SetupCommit(t)
       PROVE  UsageInv'
  BY <1>17, <1>b, GoUsage DEF SetupCommit, Return, tokens
<1>18. ASSUME NEW t \in Requests, EnableCommit(t)
       PROVE  UsageInv'
  BY <1>18, <1>b, GoUsage DEF EnableCommit, Return, tokens
<1>19. CASE Tick
  BY <1>19, <1>a, QuietUsage DEF Tick, database, tokens
<1>20. ASSUME NEW b \in Numbers, Lapse(b)
       PROVE  UsageInv'
  BY <1>20, <1>a, QuietUsage DEF Lapse, database
<1>21. ASSUME NEW p \in Procs, Restart(p)
       PROVE  UsageInv'
  <2>1. \A u \in Requests : req'[u] = Idle \/ req'[u] = req[u]
    BY <1>21 DEF Restart
  <2>2. history'.out = history.out
    BY <1>21 DEF Restart, TypeOK
  <2> QED
    BY <1>21, <1>a, <1>b, <2>1, <2>2, QuietUsage DEF Restart, database
<1>22. CASE UNCHANGED vars
  BY <1>22, <1>a, QuietUsage DEF vars, database, tokens
<1> QED
  BY <1>1, <1>2, <1>3, <1>4, <1>5, <1>6, <1>7, <1>8, <1>9, <1>10, <1>11, <1>12, <1>13, <1>14,
     <1>15, <1>16, <1>17, <1>18, <1>19, <1>20, <1>21, <1>22 DEF Next

(* The inductive invariant holds throughout. *)
LEMMA Invariance == Spec => [](TypeOK /\ UsageInv)
<1>1. Init => TypeOK /\ UsageInv
  BY InitTyped, InitUsage
<1>2. TypeOK /\ UsageInv /\ [Next]_vars => (TypeOK /\ UsageInv)'
  BY StepTyped, StepUsage DEF UsageInv
<1> QED
  BY <1>1, <1>2, PTL DEF Spec

(* The variables of Sessions have their types: a request works on rows and *)
(* tokens that exist, whatever is interleaved.                             *)
THEOREM TypeCorrect == Spec => []TypeOK
BY Invariance, PTL

(* A refresh token that was logged out, or whose session was revoked,      *)
(* yields nothing in any process, for any number of requests, processes    *)
(* and restarts and whatever becomes of the revocation keys: the rows      *)
(* alone see to it.                                                        *)
THEOREM OutForGood == Spec => []RevokedStayOut
<1>1. UsageInv => RevokedStayOut
  BY DEF UsageInv, OutStays, RevokedStayOut, Refreshable
<1> QED
  BY <1>1, Invariance, PTL

(* ---------------------------------------------------------------------- *)
(***************************************************************************)
(* Revocation of access tokens.  The mark in the metadata is past every    *)
(* token it has ended, and so is the mark in every copy of the metadata    *)
(* that a request will write back.                                         *)
(***************************************************************************)
IssuedInPast == \A b \in DOMAIN bundles : bundles[b].iat <= now

Ends(time) == \A b \in history.ended : b \in DOMAIN bundles /\ bundles[b].iat <= time

Copies(r) ==
  /\ r.at \in {"password", "closing", "setup", "enable"} => Ends(r.meta.revokedAt)
  /\ r.at = "closing" => Ends(r.time)

MarkInv == IssuedInPast /\ Ends(meta.revokedAt) /\ \A t \in Requests : Copies(req[t])

(* A step that ends no token and keeps the mark past those ended. *)
LEMMA KeepsMark ==
  ASSUME MarkInv, history'.ended = history.ended, IssuedInPast',
         \A b \in DOMAIN bundles : b \in DOMAIN bundles' /\ bundles'[b].iat = bundles[b].iat,
         Ends(meta'.revokedAt), \A t \in Requests : Copies(req'[t])
  PROVE  MarkInv'
<1>1. \A time : Ends(time) => Ends(time)'
  BY DEF Ends
<1>2. Ends(meta.revokedAt)'
  BY DEF Ends
<1>3. \A t \in Requests : Copies(req[t])'
  BY DEF Copies, Ends
<1> QED
  BY <1>2, <1>3 DEF MarkInv

(* In particular one that sends one request on and leaves the rest alone. *)
LEMMA GoKeepsMark ==
  ASSUME TypeOK, MarkInv, history'.ended = history.ended, meta' = meta, bundles' = bundles, now' = now,
         NEW t \in Requests, NEW r, Go(t, r), Copies(r)
  PROVE  MarkInv'
<1>1. IssuedInPast'
  BY DEF MarkInv, IssuedInPast
<1>2. \A u \in Requests : Copies(req'[u])
  BY DEF MarkInv, TypeOK, Go
<1> QED
  BY <1>1, <1>2, KeepsMark DEF MarkInv

(* Initially no row is there and nobody holds a copy of one. *)
LEMMA InitMark == Init => MarkInv
BY DEF Init, MarkInv, IssuedInPast, Ends, Copies, Idle

(* Every step keeps what the marks of ended access tokens say of the copies  *)
(* in hand.                                                                  *)
LEMMA StepMark == TypeOK /\ UsageInv /\ MarkInv /\ [Next]_vars => MarkInv'
<1> SUFFICES ASSUME TypeOK, UsageInv, MarkInv, [Next]_vars PROVE MarkInv'
  OBVIOUS
<1>a. /\ IssuedInPast /\ Ends(meta.revokedAt)
      /\ \A t \in Requests : Copies(req[t]) /\ req[t] \in ReqType
  BY DEF MarkInv, TypeOK
<1>b. Copies(Idle)
  BY DEF Copies, Idle
<1>1. ASSUME NEW t \in Requests, NEW p \in Procs, NEW d \in Devices, LoginBegin(t, p, d)
      PROVE  MarkInv'
  <2> DEFINE r == [Idle EXCEPT !.at = "login", !.proc = p, !.device = d,
                               !.password = password, !.raced = Revoking]
  <2>1. Copies(r)
    BY DEF Copies, Idle
  <2> QED
    BY <1>1, <2>1, GoKeepsMark DEF LoginBegin, database, tokens
<1>2. ASSUME NEW t \in Requests, NEW p \in Procs, NEW d \in Devices, NEW b \in Numbers,
             RefreshBegin(t, p, d, b)
      PROVE  MarkInv'
  <2> DEFINE r == [Idle EXCEPT !.at = "refresh", !.proc = p, !.device = d, !.token = b,
                               !.password = bundles[b].password,
                               !.raced = bundles[b].raced \/ Revoking]
  <2>1. Copies(r)
    BY DEF Copies, Idle
  <2> QED
    BY <1>2, <2>1, GoKeepsMark DEF RefreshBegin, database, tokens
<1>3. ASSUME NEW p \in Procs, NEW b \in Numbers, RefreshRefused(p, b)
      PROVE  MarkInv'
  BY <1>3, <1>a, KeepsMark DEF RefreshRefused, database, IssuedInPast
<1>4. ASSUME NEW t \in Requests, Issue(t)
      PROVE  MarkInv'
  <2>1. bundles' = Append(bundles, Issued(t))
    BY <1>4 DEF Issue
  <2>2. now \in Nat /\ Issued(t).iat = now
    BY BoundsAssumption DEF TypeOK, Seconds, Issued
  <2>3. /\ \A b \in DOMAIN bundles : b \in DOMAIN bundles' /\ bundles'[b] = bundles[b]
        /\ \A b \in DOMAIN bundles' : b \in DOMAIN bundles \/ bundles'[b].iat = now
    BY <2>1, <2>2, BundleFacts DEF TypeOK
  <2>4. IssuedInPast'
    BY <1>4, <1>a, <2>2, <2>3 DEF Issue, IssuedInPast
  <2>5. PICK r \in OneOf(RowsOn(req[t].device)) :
          Go(t, [req[t] EXCEPT !.at = "write", !.fresh = Len(bundles) + 1, !.row = r])
    BY <1>4 DEF Issue
  <2>6. \A u \in Requests : req'[u] = req[u] \/ req'[u].at = "write"
    BY <2>5, <1>a DEF Go, TypeOK, ReqType
  <2>7. \A u \in Requests : Copies(req'[u])
    BY <2>6, <1>a DEF Copies
  <2> QED
    BY <1>4, <1>a, <2>3, <2>4, <2>7, KeepsMark DEF Issue, database
<1>5. ASSUME NEW t \in Requests, SessionWrite(t)
      PROVE  MarkInv'
  <2> DEFINE f == req[t].fresh
  <2>1. /\ DOMAIN bundles' = DOMAIN bundles /\ bundles[f] \in Bundles
        /\ \A b \in DOMAIN bundles \ {f} : bundles'[b] = bundles[b]
        /\ bundles'[f] = [bundles[f] EXCEPT !.given = TRUE, !.raced = req[t].raced]
        /\ req' = [u \in Requests |-> IF u = t THEN Idle ELSE req[u]]
    BY <1>5, WriteFacts
  <2>2. bundles'[f].iat = bundles[f].iat
    BY <2>1 DEF Bundles
  <2>3. IssuedInPast'
    BY <1>5, <1>a, <2>1, <2>2 DEF IssuedInPast, SessionWrite
  <2>4. \A u \in Requests : Copies(req'[u])
    BY <1>a, <1>b, <2>1
  <2> QED
    BY <1>5, <1>a, <2>1, <2>2, <2>3, <2>4, KeepsMark DEF SessionWrite
<1>6. ASSUME NEW t \in Requests, NEW p \in Procs, NEW a \in Numbers, NEW r \in 0 .. MaxBundles,
             NEW current \in BOOLEAN, LogoutBegin(t, p, a, r, current)
      PROVE  MarkInv'
  <2> DEFINE known == r # 0 /\ ~IsRevoked(p, <<"refresh", r>>)
  <2>1. CASE known /\ RowsOf(r) # {}
    <3>1. PICK s \in RowsOf(r) :
            Go(t, [Idle EXCEPT !.at = "logout", !.proc = p, !.token = r, !.row = s])
      BY <1>6, <2>1 DEF LogoutBegin
    <3>2. Copies([Idle EXCEPT !.at = "logout", !.proc = p, !.token = r, !.row = s])
      BY DEF Copies, Idle
    <3>3. history' = history
      BY <1>6, <2>1 DEF LogoutBegin
    <3> QED
      BY <1>6, <3>1, <3>2, <3>3, GoKeepsMark DEF LogoutBegin, database
  <2>2. CASE ~(known /\ RowsOf(r) # {})
    <3>1. history' = Out(IF known THEN {r} ELSE {}) /\ req' = req
      BY <1>6, <2>2 DEF LogoutBegin
    <3>2. history'.ended = history.ended
      BY <3>1 DEF Out, TypeOK
    <3> QED
      BY <1>6, <1>a, <3>1, <3>2, KeepsMark DEF LogoutBegin, database, IssuedInPast
  <2> QED
    BY <2>1, <2>2
<1>7. ASSUME NEW t \in Requests, LogoutCommit(t)
      PROVE  MarkInv'
  <2>1. history'.ended = history.ended
    BY <1>7 DEF LogoutCommit, Out, TypeOK
  <2> QED
    BY <1>7, <1>b, <2>1, GoKeepsMark DEF LogoutCommit, Return, tokens
<1>8. ASSUME NEW t \in Requests, NEW p \in Procs, NEW s \in Numbers, DeviceBegin(t, p, s)
      PROVE  MarkInv'
  <2> DEFINE r == [Idle EXCEPT !.at = "revoke", !.proc = p, !.row = s]
  <2>1. Copies(r)
    BY DEF Copies, Idle
  <2> QED
    BY <1>8, <2>1, GoKeepsMark DEF DeviceBegin, database
<1>9. ASSUME NEW t \in Requests, DeviceCommit(t)
      PROVE  MarkInv'
  <2>1. history'.ended = history.ended
    BY <1>9 DEF DeviceCommit, Out, TypeOK
  <2> QED
    BY <1>9, <1>b, <2>1, GoKeepsMark DEF DeviceCommit, Return, tokens
<1>10. CASE SetActive
  BY <1>10, <1>a, KeepsMark DEF SetActive, tokens, IssuedInPast
<1>c. ASSUME NEW t \in Requests, NEW p \in Procs, NEW a,
             NEW place \in {"password", "setup", "enable"}, Snapshot(t, place, p, a),
             meta' = meta, bundles' = bundles, history' = history, now' = now
      PROVE  MarkInv'
  <2> DEFINE r == [Idle EXCEPT !.at = place, !.proc = p, !.token = a, !.meta = meta]
  <2>1. r.at = place /\ r.meta = meta
    BY DEF Idle
  <2> HIDE DEF r
  <2>2. Copies(r)
    BY <1>a, <2>1 DEF Copies
  <2> QED
    BY <1>c, <2>2, GoKeepsMark DEF Snapshot, r
<1>11. ASSUME NEW t \in Requests, NEW p \in Procs, ResetBegin(t, p)
       PROVE  MarkInv'
  BY <1>11, <1>c DEF ResetBegin, database, tokens
<1>12. ASSUME NEW t \in Requests, NEW p \in Procs, NEW a \in Numbers, ChangeBegin(t, p, a)
       PROVE  MarkInv'
  BY <1>12, <1>c DEF ChangeBegin, database, tokens
<1>13. ASSUME NEW t \in Requests, NEW p \in Procs, NEW a \in Numbers,
              NEW place \in {"setup", "enable"}, MfaBegin(t, p, a, place)
       PROVE  MarkInv'
  BY <1>13, <1>c DEF MfaBegin, database, tokens
<1>d. ASSUME NEW t \in Requests, NEW r, Go(t, r), Copies(r), Ends(meta'.revokedAt),
             bundles' = bundles, history' = history, now' = now
      PROVE  MarkInv'
  <2>1. \A u \in Requests : Copies(req'[u])
    BY <1>a, <1>d DEF TypeOK, Go
  <2> QED
    BY <1>a, <1>d, <2>1, KeepsMark DEF IssuedInPast
<1>14. ASSUME NEW t \in Requests, PasswordCommit(t)
       PROVE  MarkInv'
  <2>1. Ends(meta'.revokedAt)
    BY <1>14, <1>a DEF PasswordCommit, Copies
  <2>2. Copies([req[t] EXCEPT !.at = "sessions"])
    BY <1>a DEF Copies, ReqType
  <2> QED
    BY <1>14, <1>d, <2>1, <2>2 DEF PasswordCommit, tokens
<1>15. ASSUME NEW t \in Requests, SessionsRead(t)
       PROVE  MarkInv'
  <2> DEFINE r == [req[t] EXCEPT !.at = "closing", !.meta = meta, !.seen = OpenRows, !.time = now]
  <2>1. r.meta = meta /\ r.time = now
    BY <1>a DEF ReqType
  <2>2. Ends(now)
    BY <1>a DEF Ends, IssuedInPast
  <2> HIDE DEF r
  <2>3. Copies(r)
    BY <1>a, <2>1, <2>2 DEF Copies
  <2>4. \A u \in Requests : Copies([req[u] EXCEPT !.raced = TRUE])
    BY <1>a DEF Copies, ReqType
  <2>5. req' = [u \in Requests |-> IF u = t THEN r
                                   ELSE IF u \in Recording THEN [req[u] EXCEPT !.raced = TRUE]
                                   ELSE req[u]]
    BY <1>15 DEF SessionsRead, r
  <2>6. \A u \in Requests : Copies(req'[u])
    BY <1>a, <2>3, <2>4, <2>5
  <2> QED
    BY <1>15, <1>a, <2>6, KeepsMark DEF SessionsRead, database, IssuedInPast
<1>16. ASSUME NEW t \in Requests, SessionsCommit(t)
       PROVE  MarkInv'
  <2> DEFINE q == req[t]
             some == q.seen # {}
  <2>1. /\ meta' = IF some THEN [q.meta EXCEPT !.revokedAt = q.time] ELSE meta
        /\ bundles' = bundles /\ now' = now
        /\ history'.ended = IF some /\ Holding(t) = {} THEN history.ended \cup IssuedBy(q.time)
                                                       ELSE history.ended
        /\ req' = [u \in Requests |-> IF u = t THEN Idle ELSE req[u]]
    BY <1>16 DEF SessionsCommit, tokens, TypeOK, Return, Go
  <2>2. Ends(q.time) /\ q.meta \in Metas
    BY <1>16, <1>a DEF SessionsCommit, Copies, ReqType
  <2>3. CASE ~(some /\ Holding(t) = {})
    <3>1. Ends(meta'.revokedAt)
      BY <1>a, <2>1, <2>2 DEF Metas
    <3>2. \A u \in Requests : Copies(req'[u])
      BY <1>a, <1>b, <2>1
    <3> QED
      BY <1>a, <2>1, <2>3, <3>1, <3>2, KeepsMark DEF IssuedInPast
  <2>4. CASE some /\ Holding(t) = {}
    <3>1. meta'.revokedAt = q.time
      BY <2>1, <2>2, <2>4 DEF Metas
    <3>2. \A u \in Requests : req'[u].at \notin {"password", "closing", "setup", "enable"}
      BY <2>1, <2>4 DEF Holding, Idle
    <3>3. Ends(meta.revokedAt)'
      BY <2>1, <2>2, <2>4, <3>1 DEF Ends, IssuedBy
    <3>4. \A u \in Requests : Copies(req[u])'
      BY <3>2 DEF Copies
    <3>5. IssuedInPast'
      BY <1>a, <2>1 DEF IssuedInPast
    <3> QED
      BY <3>3, <3>4, <3>5 DEF MarkInv
  <2> QED
    BY <2>3, <2>4
<1>17. ASSUME NEW t \in Requests, SetupCommit(t)
       PROVE  MarkInv'
  <2>1. meta'.revokedAt = req[t].meta.revokedAt
    BY <1>17, <1>a DEF SetupCommit, ReqType, Metas
  <2>2. Ends(meta'.revokedAt)
    BY <1>17, <1>a, <2>1 DEF SetupCommit, Copies
  <2> QED
    BY <1>17, <1>b, <1>d, <2>2 DEF SetupCommit, Return, tokens
<1>18. ASSUME NEW t \in Requests, EnableCommit(t)
       PROVE  MarkInv'
  <2>1. meta'.revokedAt = req[t].meta.revokedAt
    BY <1>18, <1>a DEF EnableCommit, ReqType, Metas
  <2>2. Ends(meta'.revokedAt)
    BY <1>18, <1>a, <2>1 DEF EnableCommit, Copies
  <2> QED
    BY <1>18, <1>b, <1>d, <2>2 DEF EnableCommit, Return, tokens
<1>19. CASE Tick
  <2>1. now \in Nat /\ now' = now + 1 /\ bundles' = bundles
    BY <1>19, BoundsAssumption DEF Tick, tokens, TypeOK, Seconds
  <2>2. \A b \in DOMAIN bundles : bundles[b].iat \in Nat
    BY BundleFacts, BoundsAssumption DEF Bundles, Seconds
  <2>3. IssuedInPast'
    BY <1>a, <2>1, <2>2 DEF IssuedInPast
  <2> QED
    BY <1>19, <1>a, <2>3, KeepsMark DEF Tick, database, tokens
<1>20. ASSUME NEW b \in Numbers, Lapse(b)
       PROVE  MarkInv'
  BY <1>20, <1>a, KeepsMark DEF Lapse, database, IssuedInPast
<1>21. ASSUME NEW p \in Procs, Restart(p)
       PROVE  MarkInv'
  <2>1. \A u \in Requests : req'[u] = Idle \/ req'[u] = req[u]
    BY <1>21 DEF Restart
  <2>2. history'.ended = history.ended
    BY <1>21 DEF Restart, TypeOK
  <2>3. \A u \in Requests : Copies(req'[u])
    BY <1>a, <1>b, <2>1
  <2> QED
    BY <1>21, <1>a, <2>2, <2>3, KeepsMark DEF Restart, database, IssuedInPast
<1>22. CASE UNCHANGED vars
  BY <1>22, <1>a, KeepsMark DEF vars, database, tokens, IssuedInPast
<1> QED
  BY <1>1, <1>2, <1>3, <1>4, <1>5, <1>6, <1>7, <1>8, <1>9, <1>10, <1>11, <1>12, <1>13, <1>14,
     <1>15, <1>16, <1>17, <1>18, <1>19, <1>20, <1>21, <1>22 DEF Next

(* After a reset or change that found an open session, and that no other   *)
(* request overlapped with a copy of the metadata, no access token issued  *)
(* up to then is served again, however requests interleave.                *)
THEOREM EndedForGood == Spec => []RevocationHolds
<1>1. TypeOK /\ MarkInv => RevocationHolds
  <2> SUFFICES ASSUME TypeOK, MarkInv, NEW b \in history.ended, NEW p \in Procs
               PROVE  ~Served(p, b)
    BY DEF RevocationHolds
  <2>1. b \in DOMAIN bundles /\ bundles[b].iat <= meta.revokedAt
    BY DEF MarkInv, Ends
  <2>2. bundles[b].iat \in Nat /\ bundles[b].iat >= 1 /\ meta.revokedAt \in Nat
    BY <2>1, BundleFacts, BoundsAssumption DEF Bundles, Seconds, TypeOK, Metas
  <2> QED
    BY <2>1, <2>2 DEF Served
<1>2. Init => MarkInv
  BY InitMark
<1>3. TypeOK /\ UsageInv /\ MarkInv /\ [Next]_vars => MarkInv'
  BY StepMark
<1> QED
  BY <1>1, <1>2, <1>3, Invariance, PTL DEF Spec

(* ---------------------------------------------------------------------- *)
(***************************************************************************)
(* The old password.  Unless a kill has cut a reset short, an open row is  *)
(* of a login with the present password, or raced, or will be closed: by a *)
(* request that has set the password and is to read the sessions, or by    *)
(* one that has read this row.  A request that is to record a session is   *)
(* likewise of the present password, or raced, or will be seen to race.    *)
(***************************************************************************)
Setting == \E u \in Requests : req[u].at = "sessions"

Fresh(r) == r.at \in {"login", "refresh", "write"} => r.password = password \/ r.raced \/ Setting

FreshRow(r) ==
  \/ bundles[rows[r].jti].password = password
  \/ bundles[rows[r].jti].raced
  \/ Setting
  \/ \E u \in Requests : req[u].at = "closing" /\ r \in req[u].seen

PasswordInv == history.interrupted \/
  /\ \A t \in Requests : Fresh(req[t])
  /\ \A r \in OpenRows : FreshRow(r)

(* A step that opens no row, issues no token and leaves those who are to   *)
(* close the sessions where they are.                                      *)
LEMMA KeepsFresh ==
  ASSUME PasswordInv, UsageInv, password' = password,
         history.interrupted => history'.interrupted,
         \A r \in OpenRows' : r \in OpenRows /\ rows'[r].jti = rows[r].jti,
         \A b \in DOMAIN bundles : bundles'[b] = bundles[b],
         \A t \in Requests : \/ history'.interrupted
                             \/ req[t].at \notin {"sessions", "closing"}
                             \/ req'[t] = req[t],
         \A t \in Requests : history.interrupted \/ Fresh(req'[t])
  PROVE  PasswordInv'
<1> SUFFICES ASSUME ~history'.interrupted PROVE PasswordInv'
  BY DEF PasswordInv
<1>1. ~history.interrupted
  OBVIOUS
<1>2. Setting => Setting'
  BY DEF Setting
<1>3. \A t \in Requests : Fresh(req[t])'
  BY <1>1, <1>2 DEF Fresh
<1>4. ASSUME NEW r \in OpenRows' PROVE FreshRow(r)'
  <2>1. r \in OpenRows /\ rows'[r].jti = rows[r].jti /\ FreshRow(r)
    BY <1>1 DEF PasswordInv
  <2>2. rows[r].jti \in DOMAIN bundles
    BY <2>1 DEF UsageInv, OneRow, OpenRows, Handed
  <2> QED
    BY <1>2, <2>1, <2>2 DEF FreshRow
<1> QED
  BY <1>3, <1>4 DEF PasswordInv

(* In particular one that sends one request on. *)
LEMMA GoKeepsFresh ==
  ASSUME TypeOK, UsageInv, PasswordInv, password' = password,
         history'.interrupted = history.interrupted,
         rows' = rows \/ (\E S : Close(S)), bundles' = bundles,
         NEW t \in Requests, NEW r, Go(t, r), req[t].at \notin {"sessions", "closing"},
         history.interrupted \/ Fresh(r)
  PROVE  PasswordInv'
<1>1. \A s \in OpenRows' : s \in OpenRows /\ rows'[s].jti = rows[s].jti
  <2>1. CASE rows' = rows
    BY <2>1 DEF OpenRows
  <2>2. ASSUME NEW S, Close(S)
        PROVE  \A s \in OpenRows' : s \in OpenRows /\ rows'[s].jti = rows[s].jti
    BY <2>2, CloseRows DEF TypeOK, OpenRows
  <2> QED
    BY <2>1, <2>2
<1>2. \A u \in Requests : req'[u] = IF u = t THEN r ELSE req[u]
  BY DEF TypeOK, Go
<1>3. \A u \in Requests : history.interrupted \/ Fresh(req'[u])
  BY <1>2 DEF PasswordInv
<1> QED
  BY <1>1, <1>2, <1>3, KeepsFresh

(* Initially nobody has logged in. *)
LEMMA InitPassword == Init => PasswordInv
BY DEF Init, PasswordInv, Fresh, Idle, OpenRows

(* Every step keeps the invariant of the former passwords. *)
LEMMA StepPassword == TypeOK /\ UsageInv /\ PasswordInv /\ [Next]_vars => PasswordInv'
<1> SUFFICES ASSUME TypeOK, UsageInv, PasswordInv, [Next]_vars PROVE PasswordInv'
  OBVIOUS
<1>a. \A t \in Requests : req[t] \in ReqType /\ (history.interrupted \/ Fresh(req[t]))
  BY DEF PasswordInv, TypeOK
<1>b. Fresh(Idle)
  BY DEF Fresh, Idle
(* Of the steps that write neither rows nor the password. *)
<1>c. ASSUME password' = password, rows' = rows, bundles' = bundles, req' = req,
             history'.interrupted = history.interrupted
      PROVE  PasswordInv'
  BY <1>a, <1>c, KeepsFresh DEF OpenRows
<1>1. ASSUME NEW t \in Requests, NEW p \in Procs, NEW d \in Devices, LoginBegin(t, p, d)
      PROVE  PasswordInv'
  <2> DEFINE r == [Idle EXCEPT !.at = "login", !.proc = p, !.device = d,
                               !.password = password, !.raced = Revoking]
  <2>1. Fresh(r)
    BY DEF Fresh, Idle
  <2> QED
    BY <1>1, <2>1, GoKeepsFresh DEF LoginBegin, Free, database, tokens
<1>2. ASSUME NEW t \in Requests, NEW p \in Procs, NEW d \in Devices, NEW b \in Numbers,
             RefreshBegin(t, p, d, b)
      PROVE  PasswordInv'
  <2> DEFINE r == [Idle EXCEPT !.at = "refresh", !.proc = p, !.device = d, !.token = b,
                               !.password = bundles[b].password,
                               !.raced = bundles[b].raced \/ Revoking]
  <2>1. PICK s \in OpenRows : rows[s].jti = b
    BY <1>2 DEF RefreshBegin, Refreshable, RowsOf, OpenRows
  <2>2. history.interrupted \/ FreshRow(s)
    BY DEF PasswordInv
  <2>3. r.password = bundles[b].password /\ r.raced = (bundles[b].raced \/ Revoking)
    BY DEF Idle
  <2>4. history.interrupted \/ Fresh(r)
    BY <2>1, <2>2, <2>3 DEF Fresh, FreshRow, Revoking
  <2> QED
    BY <1>2, <2>4, GoKeepsFresh DEF RefreshBegin, Free, database, tokens
<1>3. ASSUME NEW p \in Procs, NEW b \in Numbers, RefreshRefused(p, b)
      PROVE  PasswordInv'
  BY <1>3, <1>c DEF RefreshRefused, database
<1>4. ASSUME NEW t \in Requests, Issue(t)
      PROVE  PasswordInv'
  <2>1. PICK r \in OneOf(RowsOn(req[t].device)) :
          Go(t, [req[t] EXCEPT !.at = "write", !.fresh = Len(bundles) + 1, !.row = r])
    BY <1>4 DEF Issue
  <2> DEFINE q == [req[t] EXCEPT !.at = "write", !.fresh = Len(bundles) + 1, !.row = r]
  <2>2. q.at = "write" /\ q.password = req[t].password /\ q.raced = req[t].raced
    BY <1>a DEF ReqType
  <2> HIDE DEF q
  <2>3. history.interrupted \/ Fresh(q)
    BY <1>4, <1>a, <2>2 DEF Fresh, Issue
  <2>4. \A u \in Requests : req'[u] = IF u = t THEN q ELSE req[u]
    BY <2>1 DEF Go, TypeOK, q
  <2>5. \A b \in DOMAIN bundles : bundles'[b] = bundles[b]
    BY <1>4, BundleFacts DEF Issue, TypeOK
  <2>6. \A u \in Requests : history.interrupted \/ Fresh(req'[u])
    BY <1>a, <2>3, <2>4
  <2>7. \A u \in Requests : req[u].at \notin {"sessions", "closing"} \/ req'[u] = req[u]
    BY <1>4, <2>4 DEF Issue
  <2> QED
    BY <1>4, <2>5, <2>6, <2>7, KeepsFresh DEF Issue, database, OpenRows
<1>5. ASSUME NEW t \in Requests, SessionWrite(t)
      PROVE  PasswordInv'
  <2> SUFFICES ASSUME ~history.interrupted PROVE PasswordInv'
    BY <1>5 DEF SessionWrite, PasswordInv
  <2> DEFINE q == req[t]
             f == q.fresh
  <2>1. /\ q.at = "write" /\ f \in DOMAIN bundles \ Handed /\ bundles[f].password = q.password
        /\ bundles[f] \in Bundles
        /\ \A b \in DOMAIN bundles \ {f} : bundles'[b] = bundles[b]
        /\ bundles'[f] = [bundles[f] EXCEPT !.given = TRUE, !.raced = q.raced]
        /\ req' = [u \in Requests |-> IF u = t THEN Idle ELSE req[u]]
    BY <1>5, WriteFacts
  <2>2. bundles'[f].password = q.password /\ bundles'[f].raced = q.raced
    BY <2>1 DEF Bundles
  <2>3. PICK w \in Nat :
          /\ DOMAIN rows' = DOMAIN rows \cup {w} /\ rows'[w].jti = f
          /\ \A r \in DOMAIN rows \ {w} : rows'[r] = rows[r]
          /\ w \in DOMAIN rows => rows'[w].open = rows[w].open
    BY <1>5, WriteFacts
  <2>4. password' = password /\ history' = history
    BY <1>5 DEF SessionWrite
  <2>5. \A u \in Requests : req[u].at \in {"sessions", "closing"} => req'[u] = req[u]
    BY <2>1
  <2>6. Setting => Setting'
    BY <2>5 DEF Setting
  <2>7. Fresh(q)
    BY <1>a
  <2>8. \A u \in Requests : Fresh(req[u])'
    <3>1. \A u \in Requests : req'[u] = Idle \/ req'[u] = req[u]
      BY <2>1
    <3> QED
      BY <1>a, <1>b, <2>4, <2>6, <3>1 DEF Fresh
  <2>9. ASSUME NEW r \in OpenRows' PROVE FreshRow(r)'
    <3>1. CASE r = w
      BY <2>1, <2>2, <2>3, <2>4, <2>6, <2>7, <3>1 DEF Fresh, FreshRow
    <3>2. CASE r # w
      <4>1. r \in OpenRows /\ rows'[r].jti = rows[r].jti
        BY <2>3, <3>2 DEF OpenRows
      <4>2. rows[r].jti \in DOMAIN bundles \ {f} /\ FreshRow(r)
        BY <2>1, <4>1 DEF UsageInv, OneRow, OpenRows, Handed, PasswordInv
      <4> QED
        BY <2>1, <2>4, <2>5, <2>6, <4>1, <4>2 DEF FreshRow
    <3> QED
      BY <3>1, <3>2
  <2> QED
    BY <2>8, <2>9 DEF PasswordInv
<1>6. ASSUME NEW t \in Requests, NEW p \in Procs, NEW a \in Numbers, NEW r \in 0 .. MaxBundles,
             NEW current \in BOOLEAN, LogoutBegin(t, p, a, r, current)
      PROVE  PasswordInv'
  <2> DEFINE known == r # 0 /\ ~IsRevoked(p, <<"refresh", r>>)
  <2>1. CASE known /\ RowsOf(r) # {}
    <3>1. PICK s \in RowsOf(r) :
            Go(t, [Idle EXCEPT !.at = "logout", !.proc = p, !.token = r, !.row = s])
      BY <1>6, <2>1 DEF LogoutBegin
    <3>2. Fresh([Idle EXCEPT !.at = "logout", !.proc = p, !.token = r, !.row = s])
      BY DEF Fresh, Idle
    <3>3. history' = history
      BY <1>6, <2>1 DEF LogoutBegin
    <3> QED
      BY <1>6, <3>1, <3>2, <3>3, GoKeepsFresh DEF LogoutBegin, Free, database
  <2>2. CASE ~(known /\ RowsOf(r) # {})
    <3>1. history' = Out(IF known THEN {r} ELSE {}) /\ req' = req
      BY <1>6, <2>2 DEF LogoutBegin
    <3>2. history'.interrupted = history.interrupted
      BY <3>1 DEF Out, TypeOK
    <3> QED
      BY <1>6, <1>c, <3>1, <3>2 DEF LogoutBegin, database
  <2> QED
    BY <2>1, <2>2
<1>7. ASSUME NEW t \in Requests, LogoutCommit(t)
      PROVE  PasswordInv'
  <2>1. history'.interrupted = history.interrupted
    BY <1>7 DEF LogoutCommit, Out, TypeOK
  <2> QED
    BY <1>7, <1>b, <2>1, GoKeepsFresh DEF LogoutCommit, Return, tokens
<1>8. ASSUME NEW t \in Requests, NEW p \in Procs, NEW s \in Numbers, DeviceBegin(t, p, s)
      PROVE  PasswordInv'
  <2>1. Fresh([Idle EXCEPT !.at = "revoke", !.proc = p, !.row = s])
    BY DEF Fresh, Idle
  <2> QED
    BY <1>8, <2>1, GoKeepsFresh DEF DeviceBegin, Free, database
<1>9. ASSUME NEW t \in Requests, DeviceCommit(t)
      PROVE  PasswordInv'
  <2>1. history'.interrupted = history.interrupted
    BY <1>9 DEF DeviceCommit, Out, TypeOK
  <2> QED
    BY <1>9, <1>b, <2>1, GoKeepsFresh DEF DeviceCommit, Return, tokens
<1>10. CASE SetActive
  BY <1>10, <1>c DEF SetActive, tokens
<1>d. ASSUME NEW t \in Requests, NEW p \in Procs, NEW a, Free(t),
             NEW place \in {"password", "setup", "enable"}, Snapshot(t, place, p, a),
             password' = password, rows' = rows, bundles' = bundles, history' = history
      PROVE  PasswordInv'
  <2>1. Fresh([Idle EXCEPT !.at = place, !.proc = p, !.token = a, !.meta = meta])
    BY DEF Fresh, Idle
  <2> QED
    BY <1>d, <2>1, GoKeepsFresh DEF Snapshot, Free
<1>11. ASSUME NEW t \in Requests, NEW p \in Procs, ResetBegin(t, p)
       PROVE  PasswordInv'
  BY <1>11, <1>d DEF ResetBegin, database, tokens
<1>12. ASSUME NEW t \in Requests, NEW p \in Procs, NEW a \in Numbers, ChangeBegin(t, p, a)
       PROVE  PasswordInv'
  BY <1>12, <1>d DEF ChangeBegin, database, tokens
<1>13. ASSUME NEW t \in Requests, NEW p \in Procs, NEW a \in Numbers,
              NEW place \in {"setup", "enable"}, MfaBegin(t, p, a, place)
       PROVE  PasswordInv'
  BY <1>13, <1>d DEF MfaBegin, database, tokens
<1>14. ASSUME NEW t \in Requests, PasswordCommit(t)
       PROVE  PasswordInv'
  <2>1. req'[t].at = "sessions"
    BY <1>14, <1>a DEF PasswordCommit, Go, TypeOK, ReqType
  <2>2. Setting'
    BY <2>1 DEF Setting
  <2> QED
    BY <2>2 DEF PasswordInv, Fresh, FreshRow
<1>15. ASSUME NEW t \in Requests, SessionsRead(t)
       PROVE  PasswordInv'
  <2>1. /\ rows' = rows /\ history' = history
        /\ req'[t].at = "closing" /\ req'[t].seen = OpenRows
        /\ \A u \in Requests \ {t} : IF u \in Recording THEN req'[u] = [req[u] EXCEPT !.raced = TRUE]
                                                        ELSE req'[u] = req[u]
    BY <1>15, <1>a DEF SessionsRead, database, ReqType
  <2>2. \A u \in Recording : u # t /\ [req[u] EXCEPT !.raced = TRUE].raced
    BY <1>15, <1>a DEF SessionsRead, Recording, ReqType
  <2>3. \A u \in Requests : Fresh(req[u])'
    BY <2>1, <2>2 DEF Fresh, Recording
  <2>4. \A r \in OpenRows' : FreshRow(r)'
    BY <2>1 DEF FreshRow, OpenRows
  <2> QED
    BY <2>3, <2>4 DEF PasswordInv
<1>16. ASSUME NEW t \in Requests, SessionsCommit(t)
       PROVE  PasswordInv'
  <2> SUFFICES ASSUME ~history'.interrupted PROVE PasswordInv'
    BY DEF PasswordInv
  <2>1. /\ bundles' = bundles /\ password' = password
        /\ history'.interrupted = history.interrupted
        /\ req' = [u \in Requests |-> IF u = t THEN Idle ELSE req[u]]
        /\ req[t].at = "closing"
    BY <1>16 DEF SessionsCommit, tokens, TypeOK, Return, Go
  <2>2. \A r \in OpenRows' : r \in OpenRows /\ rows'[r].jti = rows[r].jti /\ r \notin req[t].seen
    BY <1>16, CloseRows DEF SessionsCommit, TypeOK, OpenRows
  <2>3. Setting => Setting'
    BY <2>1 DEF Setting
  <2>4. \A u \in Requests : Fresh(req[u])'
    <3>1. \A u \in Requests : req'[u] = Idle \/ req'[u] = req[u]
      BY <2>1
    <3> QED
      BY <1>a, <1>b, <2>1, <2>3, <3>1 DEF Fresh
  <2>5. ASSUME NEW r \in OpenRows' PROVE FreshRow(r)'
    <3>1. FreshRow(r)
      BY <2>1, <2>2 DEF PasswordInv
    <3> QED
      BY <2>1, <2>2, <2>3, <3>1 DEF FreshRow
  <2> QED
    BY <2>4, <2>5 DEF PasswordInv
<1>17. ASSUME NEW t \in Requests, SetupCommit(t)
       PROVE  PasswordInv'
  BY <1>17, <1>b, GoKeepsFresh DEF SetupCommit, Return, tokens
<1>18. ASSUME NEW t \in Requests, EnableCommit(t)
       PROVE  PasswordInv'
  BY <1>18, <1>b, GoKeepsFresh DEF EnableCommit, Return, tokens
<1>19. CASE Tick
  BY <1>19, <1>c DEF Tick, database, tokens
<1>20. ASSUME NEW b \in Numbers, Lapse(b)
       PROVE  PasswordInv'
  BY <1>20, <1>c DEF Lapse, database
<1>21. ASSUME NEW p \in Procs, Restart(p)
       PROVE  PasswordInv'
  <2>1. \A u \in Requests : req'[u] = IF req[u].proc = p THEN Idle ELSE req[u]
    BY <1>21 DEF Restart
  <2>2. history'.interrupted = (history.interrupted \/
          \E u \in Requests : req[u].proc = p /\ req[u].at \in {"sessions", "closing"})
    BY <1>21 DEF Restart, TypeOK
  <2>3. \A u \in Requests : \/ history'.interrupted
                            \/ req[u].at \notin {"sessions", "closing"}
                            \/ req'[u] = req[u]
    BY <2>1, <2>2
  <2>4. \A u \in Requests : history.interrupted \/ Fresh(req'[u])
    BY <1>a, <1>b, <2>1
  <2> QED
    BY <1>21, <2>2, <2>3, <2>4, KeepsFresh DEF Restart, database, OpenRows
<1>22. CASE UNCHANGED vars
  BY <1>22, <1>c DEF vars, database, tokens
<1> QED
  BY <1>1, <1>2, <1>3, <1>4, <1>5, <1>6, <1>7, <1>8, <1>9, <1>10, <1>11, <1>12, <1>13, <1>14,
     <1>15, <1>16, <1>17, <1>18, <1>19, <1>20, <1>21, <1>22 DEF Next

(* Once no reset or change is under way, and none was cut short, no        *)
(* session goes on from a login with a former password, except those whose *)
(* login or refresh raced a revocation: however many requests interleave   *)
(* between reading the sessions and closing them.                          *)
THEOREM FormerPasswordOut == Spec => []OldPasswordOut
<1>1. PasswordInv => OldPasswordOut
  <2> SUFFICES ASSUME PasswordInv, ~Changing, ~history.interrupted,
                      NEW b \in Handed, NEW p \in Procs, Refreshable(p, b)
               PROVE  bundles[b].password = password \/ bundles[b].raced
    BY DEF OldPasswordOut
  <2>1. PICK r \in OpenRows : rows[r].jti = b
    BY DEF Refreshable, RowsOf, OpenRows
  <2>2. FreshRow(r)
    BY DEF PasswordInv
  <2> QED
    BY <2>1, <2>2 DEF FreshRow, Setting, Changing
<1>2. Init => PasswordInv
  BY InitPassword
<1>3. TypeOK /\ UsageInv /\ PasswordInv /\ [Next]_vars => PasswordInv'
  BY StepPassword
<1> QED
  BY <1>1, <1>2, <1>3, Invariance, PTL DEF Spec
=============================================================================
