------------------------------ MODULE Sessions ------------------------------
(***************************************************************************)
(* One account: its password, its device sessions and its tokens, as the   *)
(* auth endpoints of backend/app.py and backend/auth/jwt_handler.py keep   *)
(* them.  Requests run in threads of several server processes; each reads  *)
(* the database, works on what it read and commits, with no lock in        *)
(* between.                                                                *)
(*                                                                         *)
(* A login or a refresh yields a bundle: an access token and a refresh     *)
(* token, named here by the bundle's number.  Access tokens are accepted   *)
(* unless revoked, refresh tokens if a session row names them.             *)
(***************************************************************************)
EXTENDS Naturals, Sequences, FiniteSets

CONSTANTS
  Requests,     \* requests in flight at the same time
  Procs,        \* server processes
  Devices,      \* device ids clients report
  MaxBundles,   \* bound on the bundles issued
  MaxPassword,  \* bound on the passwords set
  MaxTime,      \* bound on the clock, in seconds
  MaxEvents     \* bound on requests, events and (de)activations together

ASSUME BoundsAssumption ==
  /\ MaxBundles \in Nat /\ MaxPassword \in Nat \ {0}
  /\ MaxTime \in Nat \ {0} /\ MaxEvents \in Nat
ASSUME NamesAssumption == "none" \notin Procs \cup Devices

VARIABLES
  active,       \* users.is_active
  password,     \* which password users.hashed_password is of
  mfa,          \* users.mfa_enabled
  meta,         \* users.metadata, one JSON column
  rows,         \* the user_sessions rows of the account
  bundles,      \* the tokens issued
  revoked,      \* _REVOKED_JTIS of each process
  keys,         \* the revocation keys in Redis, by how long they live
  redis,        \* REDIS_URL is set
  req,          \* the requests in flight
  now,          \* the clock
  events,       \* events so far
  history       \* what has happened to tokens, read by the properties only

database == <<active, password, mfa, meta, rows>>
tokens == <<bundles, revoked, keys, redis>>
vars == <<database, tokens, req, now, events, history>>

-----------------------------------------------------------------------------
(* Types.  A bundle records the second it was issued in, whether it has    *)
(* been returned to its client, the password its login was made with, and  *)
(* whether it raced a revocation of all sessions.                          *)
Seconds == 1 .. MaxTime
Passwords == 1 .. MaxPassword
Numbers == 1 .. MaxBundles
Bundles == [iat : Seconds, given : BOOLEAN, password : Passwords, raced : BOOLEAN]

(* tokens_revoked_at (0: not set), mfa_pending_secret and mfa_secret. *)
Metas == [revokedAt : 0 .. MaxTime, pending : BOOLEAN, secret : BOOLEAN]
NoMeta == [revokedAt |-> 0, pending |-> FALSE, secret |-> FALSE]

Rows == [device : Devices, jti : Numbers, open : BOOLEAN]

Kinds == {"access", "refresh"}
Jtis == Kinds \X Numbers

(* A key lives as long as its token, or a day, which a refresh token outlives. *)
Lives == {"absent", "token", "day"}

(***************************************************************************)
(* A request: where it is, its process, the token it presented, the device *)
(* it reports, the password and the mark its new bundle inherits, the row  *)
(* it found, the bundle it issued, and what it read of the user and of the *)
(* sessions.                                                               *)
(***************************************************************************)
Places == {"idle", "login", "refresh", "write", "logout", "revoke",
           "password", "sessions", "closing", "setup", "enable"}

Idle == [at |-> "idle", proc |-> "none", token |-> 0, device |-> "none", password |-> 1, raced |-> FALSE,
         row |-> 0, fresh |-> 0, meta |-> NoMeta, seen |-> {}, time |-> 1]

ReqType == [at : Places, proc : Procs \cup {"none"}, token : 0 .. MaxBundles,
            device : Devices \cup {"none"}, password : Passwords, raced : BOOLEAN, row : Nat,
            fresh : 0 .. MaxBundles, meta : Metas,
            seen : SUBSET Nat, time : Seconds]

TypeOK ==
  /\ active \in BOOLEAN /\ mfa \in BOOLEAN /\ redis \in BOOLEAN
  /\ password \in Passwords
  /\ meta \in Metas
  /\ rows \in Seq(Rows)
  /\ bundles \in Seq(Bundles) /\ Len(bundles) <= MaxBundles
  /\ revoked \in [Procs -> SUBSET Jtis] /\ keys \in [Jtis -> Lives]
  /\ req \in [Requests -> ReqType]
  /\ now \in Seconds
  /\ events \in 0 .. MaxEvents
  /\ history \in [out : SUBSET Numbers, ended : SUBSET Numbers,
                  changed : SUBSET Numbers, interrupted : BOOLEAN]

Init ==
  /\ active = TRUE /\ password = 1 /\ mfa = FALSE
  /\ meta = NoMeta
  /\ rows = << >> /\ bundles = << >>
  /\ redis \in BOOLEAN
  /\ revoked = [p \in Procs |-> {}] /\ keys = [j \in Jtis |-> "absent"]
  /\ req = [t \in Requests |-> Idle]
  /\ now = 1 /\ events = 0
  /\ history = [out |-> {}, ended |-> {}, changed |-> {}, interrupted |-> FALSE]

-----------------------------------------------------------------------------
(* is_token_revoked and revoke_token_id, with the token's expiry or without. *)
IsRevoked(p, jti) == jti \in revoked[p] \/ (redis /\ keys[jti] # "absent")

Revoke(p, jtis, life) ==
  /\ revoked' = [revoked EXCEPT ![p] = @ \cup jtis]
  /\ keys' = [j \in Jtis |-> IF redis /\ j \in jtis THEN life ELSE keys[j]]

RefreshIds(S) == {<<"refresh", b>> : b \in S}

(* Bundles that a client has. *)
Handed == {b \in DOMAIN bundles : bundles[b].given}

(* Faulty variant: a token of the second of the revocation passes. *)
ServedInSecond(p, b) ==
  /\ ~IsRevoked(p, <<"access", b>>)
  /\ active
  /\ meta.revokedAt = 0 \/ bundles[b].iat >= meta.revokedAt

(* get_active_user: verify_token, then enforce_active_user.  iat is in     *)
(* whole seconds, tokens_revoked_at is within the second it names.         *)
Served(p, b) ==
  /\ ~IsRevoked(p, <<"access", b>>)
  /\ active
  /\ meta.revokedAt = 0 \/ bundles[b].iat > meta.revokedAt

(* _active_session_for_refresh; _record_device_session by device. *)
RowsOf(b) == {r \in DOMAIN rows : rows[r].jti = b /\ rows[r].open}
RowsOn(d) == {r \in DOMAIN rows : rows[r].device = d /\ rows[r].open}
OneOf(S) == IF S = {} THEN {0} ELSE S

Refreshable(p, b) ==
  /\ ~IsRevoked(p, <<"refresh", b>>)
  /\ active
  /\ RowsOf(b) # {}

(* A revocation of all sessions is under way. *)
Revoking == \E t \in Requests : req[t].at = "closing"

Go(t, r) == req' = [req EXCEPT ![t] = r]
Return(t) == Go(t, Idle)

Count == events < MaxEvents /\ events' = events + 1

Free(t) == req[t].at = "idle" /\ Count

-----------------------------------------------------------------------------
(***************************************************************************)
(* login and refresh_session.                                              *)
(***************************************************************************)
LoginBegin(t, p, d) ==
  /\ Free(t)
  /\ active
  /\ mfa => meta.secret
  /\ Go(t, [Idle EXCEPT !.at = "login", !.proc = p, !.device = d,
                        !.password = password, !.raced = Revoking])
  /\ UNCHANGED <<database, tokens, now, history>>

RefreshBegin(t, p, d, b) ==
  /\ Free(t)
  /\ b \in Handed
  /\ Refreshable(p, b)
  /\ Go(t, [Idle EXCEPT !.at = "refresh", !.proc = p, !.device = d, !.token = b,
                        !.password = bundles[b].password,
                        !.raced = bundles[b].raced \/ Revoking])
  /\ UNCHANGED <<database, tokens, now, history>>

(* No open session names the token: it is revoked on the spot. *)
RefreshRefused(p, b) ==
  /\ b \in Handed
  /\ ~IsRevoked(p, <<"refresh", b>>)
  /\ active
  /\ RowsOf(b) = {}
  /\ Revoke(p, RefreshIds({b}), "token")
  /\ UNCHANGED <<database, bundles, redis, req, now, events, history>>

(* Faulty variant: the time is taken from the second before. *)
IssuedEarly(t) == [iat |-> now - 1, given |-> FALSE, password |-> req[t].password,
                   raced |-> req[t].raced]

Issued(t) == [iat |-> now, given |-> FALSE, password |-> req[t].password,
              raced |-> req[t].raced]

(* _issue_token_bundle, and the look-up of _record_device_session. *)
Issue(t) ==
  /\ req[t].at \in {"login", "refresh"}
  /\ Len(bundles) < MaxBundles
  /\ bundles' = Append(bundles, Issued(t))
  /\ \E r \in OneOf(RowsOn(req[t].device)) :
       Go(t, [req[t] EXCEPT !.at = "write", !.fresh = Len(bundles) + 1, !.row = r])
  /\ IF req[t].at = "refresh"
     THEN Revoke(req[t].proc, RefreshIds({req[t].token}), "token")
     ELSE UNCHANGED <<revoked, keys>>
  /\ UNCHANGED <<database, redis, now, events, history>>

(* The commit of _record_device_session: by primary key, whatever has      *)
(* become of the row.                                                      *)
SessionWrite(t) ==
  /\ req[t].at = "write"
  /\ rows' = IF req[t].row = 0
             THEN Append(rows, [device |-> req[t].device, jti |-> req[t].fresh, open |-> TRUE])
             ELSE [rows EXCEPT ![req[t].row].jti = req[t].fresh]
  /\ bundles' = [bundles EXCEPT ![req[t].fresh].given = TRUE,
                             ![req[t].fresh].raced = req[t].raced]
  /\ Return(t)
  /\ UNCHANGED <<active, password, mfa, meta, revoked, keys, redis, now, events, history>>

-----------------------------------------------------------------------------
(* Tokens that are out for good from here on. *)
Out(S) == [history EXCEPT !.out = @ \cup S]

(***************************************************************************)
(* logout with the access token a, which is revoked if current, and the    *)
(* refresh token r, or none if r = 0.                                      *)
(***************************************************************************)
LogoutBegin(t, p, a, r, current) ==
  /\ Free(t)
  /\ a \in Handed /\ Served(p, a)
  /\ r \in Handed \cup {0}
  /\ LET known == r # 0 /\ ~IsRevoked(p, <<"refresh", r>>) IN
       /\ Revoke(p, (IF current THEN {<<"access", a>>} ELSE {})
                      \cup (IF known THEN RefreshIds({r}) ELSE {}), "token")
       /\ IF known /\ RowsOf(r) # {}
          THEN /\ \E s \in RowsOf(r) :
                    Go(t, [Idle EXCEPT !.at = "logout", !.proc = p, !.token = r, !.row = s])
               /\ UNCHANGED history
          ELSE /\ history' = Out(IF known THEN {r} ELSE {})
               /\ UNCHANGED req
  /\ UNCHANGED <<database, bundles, redis, now>>

(* revoked_at and ended_at are set. *)
Close(S) == rows' = [r \in DOMAIN rows |->
                       IF r \in S THEN [rows[r] EXCEPT !.open = FALSE] ELSE rows[r]]

(* Faulty variant: the tokens are revoked and the session stays open. *)
LogoutUncommitted(t) ==
  /\ req[t].at = "logout"
  /\ history' = Out({req[t].token})
  /\ Return(t)
  /\ UNCHANGED <<active, password, mfa, meta, rows, tokens, now, events>>

LogoutCommit(t) ==
  /\ req[t].at = "logout"
  /\ Close({req[t].row})
  /\ history' = Out({req[t].token})
  /\ Return(t)
  /\ UNCHANGED <<active, password, mfa, meta, tokens, now, events>>

(***************************************************************************)
(* revoke_device_session, by the account or by an administrator: the token *)
(* is revoked before the commit.                                           *)
(***************************************************************************)
DeviceBegin(t, p, s) ==
  /\ Free(t)
  /\ s \in DOMAIN rows
  /\ Go(t, [Idle EXCEPT !.at = "revoke", !.proc = p, !.row = s])
  /\ Revoke(p, RefreshIds({rows[s].jti}), "day")
  /\ UNCHANGED <<database, bundles, redis, now, history>>

DeviceCommit(t) ==
  /\ req[t].at = "revoke"
  /\ Close({req[t].row})
  /\ Return(t)
  /\ history' = Out({rows[req[t].row].jti})
  /\ UNCHANGED <<active, password, mfa, meta, tokens, now, events>>

(* update_user: an administrator disables or enables the account. *)
SetActive ==
  /\ Count
  /\ active' = ~active
  /\ UNCHANGED <<password, mfa, meta, rows, tokens, req, now, history>>

-----------------------------------------------------------------------------
(***************************************************************************)
(* reset_user_password by an administrator, change_password by the account *)
(* with an access token a.  Both set the password, then revoke all         *)
(* sessions (_revoke_user_sessions) on what they read afresh.              *)
(***************************************************************************)
Snapshot(t, place, p, a) ==
  Go(t, [Idle EXCEPT !.at = place, !.proc = p, !.token = a, !.meta = meta])

ResetBegin(t, p) ==
  /\ Free(t)
  /\ password < MaxPassword
  /\ Snapshot(t, "password", p, 0)
  /\ UNCHANGED <<database, tokens, now, history>>

ChangeBegin(t, p, a) ==
  /\ Free(t)
  /\ password < MaxPassword
  /\ a \in Handed /\ Served(p, a)
  /\ Snapshot(t, "password", p, a)
  /\ UNCHANGED <<database, tokens, now, history>>

PasswordCommit(t) ==
  /\ req[t].at = "password"
  /\ password < MaxPassword
  /\ password' = password + 1
  /\ meta' = req[t].meta
  /\ Go(t, [req[t] EXCEPT !.at = "sessions"])
  /\ UNCHANGED <<active, mfa, rows, tokens, now, events, history>>

(* Requests that will record a session after this moment race it. *)
Recording == {t \in Requests : req[t].at \in {"login", "refresh", "write"}}

(* Faulty variant: only one of the sessions is revoked. *)
FirstOpenRow == IF \E r \in DOMAIN rows : rows[r].open
                THEN {CHOOSE r \in DOMAIN rows : rows[r].open} ELSE {}

OpenRows == {r \in DOMAIN rows : rows[r].open}

SessionsRead(t) ==
  /\ req[t].at = "sessions"
  /\ req' = [u \in Requests |->
               IF u = t THEN [req[t] EXCEPT !.at = "closing", !.meta = meta,
                                            !.seen = OpenRows, !.time = now]
               ELSE IF u \in Recording THEN [req[u] EXCEPT !.raced = TRUE]
               ELSE req[u]]
  /\ Revoke(req[t].proc, RefreshIds({rows[r].jti : r \in OpenRows}), "day")
  /\ UNCHANGED <<database, bundles, redis, now, events, history>>

(* Others hold a copy of the metadata that they will write back. *)
Holding(t) == {u \in Requests \ {t} : req[u].at \in {"password", "closing", "setup", "enable"}}

IssuedBy(time) == {b \in DOMAIN bundles : bundles[b].iat <= time}

(* What has been read is written back only if a session was closed. *)
SessionsCommit(t) ==
  /\ req[t].at = "closing"
  /\ LET some == req[t].seen # {} IN
       /\ meta' = IF some THEN [req[t].meta EXCEPT !.revokedAt = req[t].time] ELSE meta
       /\ Close(req[t].seen)
       /\ history' = [history EXCEPT
            !.out = @ \cup {rows[r].jti : r \in req[t].seen},
            !.ended = IF some /\ Holding(t) = {} THEN @ \cup IssuedBy(req[t].time) ELSE @,
            !.changed = IF req[t].token # 0 THEN @ \cup IssuedBy(req[t].time) ELSE @]
  /\ Return(t)
  /\ UNCHANGED <<active, password, mfa, tokens, now, events>>

-----------------------------------------------------------------------------
(***************************************************************************)
(* setup_mfa and enable_mfa.                                               *)
(***************************************************************************)
MfaBegin(t, p, a, place) ==
  /\ Free(t)
  /\ a \in Handed /\ Served(p, a)
  /\ place = "enable" => meta.pending
  /\ Snapshot(t, place, p, a)
  /\ UNCHANGED <<database, tokens, now, history>>

SetupCommit(t) ==
  /\ req[t].at = "setup"
  /\ meta' = [req[t].meta EXCEPT !.pending = TRUE]
  /\ Return(t)
  /\ UNCHANGED <<active, password, mfa, rows, tokens, now, events, history>>

EnableCommit(t) ==
  /\ req[t].at = "enable"
  /\ meta' = [req[t].meta EXCEPT !.pending = FALSE, !.secret = TRUE]
  /\ mfa' = TRUE
  /\ Return(t)
  /\ UNCHANGED <<active, password, rows, tokens, now, events, history>>

-----------------------------------------------------------------------------
Tick ==
  /\ now < MaxTime
  /\ now' = now + 1
  /\ UNCHANGED <<database, tokens, req, events, history>>

(* In Redis, a key set without the token's expiry is gone after a day. *)
Lapse(b) ==
  /\ keys[<<"refresh", b>>] = "day"
  /\ keys' = [keys EXCEPT ![<<"refresh", b>>] = "absent"]
  /\ UNCHANGED <<database, bundles, revoked, redis, req, now, events, history>>

(* A process is killed and started again: its set of revoked ids and the   *)
(* requests it was working on are gone.                                    *)
Restart(p) ==
  /\ Count
  /\ revoked' = [revoked EXCEPT ![p] = {}]
  /\ req' = [t \in Requests |-> IF req[t].proc = p THEN Idle ELSE req[t]]
  /\ history' = [history EXCEPT !.interrupted =
       @ \/ \E t \in Requests : req[t].proc = p /\ req[t].at \in {"sessions", "closing"}]
  /\ UNCHANGED <<database, bundles, keys, redis, now>>

Next ==
  \/ \E t \in Requests, p \in Procs :
       \/ \E d \in Devices :
            \/ LoginBegin(t, p, d)
            \/ \E b \in Numbers : RefreshBegin(t, p, d, b)
       \/ \E a \in Numbers, r \in 0 .. MaxBundles, current \in BOOLEAN :
            LogoutBegin(t, p, a, r, current)
       \/ \E s \in Numbers : DeviceBegin(t, p, s)
       \/ ResetBegin(t, p)
       \/ \E a \in Numbers :
            \/ ChangeBegin(t, p, a)
            \/ \E place \in {"setup", "enable"} : MfaBegin(t, p, a, place)
  \/ \E t \in Requests :
       \/ Issue(t) \/ SessionWrite(t)
       \/ LogoutCommit(t) \/ DeviceCommit(t)
       \/ PasswordCommit(t) \/ SessionsRead(t) \/ SessionsCommit(t)
       \/ SetupCommit(t) \/ EnableCommit(t)
  \/ \E p \in Procs :
       \/ \E b \in Numbers : RefreshRefused(p, b)
       \/ Restart(p)
  \/ \E b \in Numbers : Lapse(b)
  \/ SetActive
  \/ Tick

Spec == Init /\ [][Next]_vars

-----------------------------------------------------------------------------
(* A refresh token that was logged out, or whose session was revoked, yields *)
(* nothing any more: in no process, whether revocations are shared or not,   *)
(* after restarts, and whatever logins and refreshes are still to write.     *)
RevokedStayOut == \A b \in history.out, p \in Procs : ~Refreshable(p, b)

(* After a password reset or change that found an open session, access     *)
(* tokens issued before are refused for good: nothing that starts later    *)
(* can bring them back.  Only a request that held a copy of the metadata   *)
(* when it committed could.                                                *)
RevocationHolds == \A b \in history.ended, p \in Procs : ~Served(p, b)

(* Once no reset or change is under way, every refresh token that still    *)
(* works goes back to a login with the present password, or its login or   *)
(* refresh raced the revocation, or a kill cut a reset short.              *)
Changing == \E t \in Requests : req[t].at \in {"sessions", "closing"}

OldPasswordOut ==
  Changing \/ history.interrupted \/
    \A b \in Handed, p \in Procs :
      Refreshable(p, b) => bundles[b].password = password \/ bundles[b].raced

(* Password changed, re-login required: no access token issued before a    *)
(* change of the password is served after it.                              *)
ReloginRequired == \A b \in history.changed, p \in Procs : ~Served(p, b)
=============================================================================
