------------------------------- MODULE Accounts -------------------------------
(***************************************************************************)
(* The panel's accounts (api/account.go, api/mfa_handlers.go, api/oauth.go,    *)
(* loginHandler and the user handlers of api/handlers.go, with their stores):  *)
(* sign-in with a password or a provider, the login throttle in Redis, the     *)
(* second factor, sessions, one-time password links, roles and states.         *)
(* A request is served by a goroutine; its statements interleave with those of *)
(* the other requests, and each may be the last one that succeeds.             *)
(***************************************************************************)
EXTENDS Integers, FiniteSets

CONSTANTS
    Handler,      \* goroutines that serve a request
    User,         \* rows the users table may hold
    Scenes,       \* where a behaviour may start, the kinds of requests that meet in it
    Limit,        \* failures that lock an account, and the client's address
    MaxRequest,   \* bound on requests
    MaxStep,      \* bound on the clock of the second factor
    MaxFault      \* bound on statements that fail

Kinds == {"login", "mfa", "oauth", "setup", "enable", "disable", "regenerate", "adminreset",
          "create", "invite", "reset", "forgot", "complete", "edit", "own", "delete"}
Ip == 0   \* the client's address
Key == User \cup {Ip}

ASSUME HandlerAssumption == IsFiniteSet(Handler)
ASSUME UserAssumption == User \subseteq Nat \ {0}
ASSUME BoundAssumption == {MaxRequest, MaxStep, MaxFault} \subseteq Nat
ASSUME LimitAssumption == Limit \in [Key -> Nat \ {0}]

\* Passwords, secrets, recovery codes, links and sessions carry the number of the request
\* that made them; those of the start carry 1, and 0 is none.
Id == 0 .. MaxRequest + 1

Account == [there : BOOLEAN, role : {"Admin", "User"}, status : {"Active", "Waiting", "Block"},
            pw : Id, totp : Id, pending : Id, last : 0 .. MaxStep + 1, codes : Id, left : BOOLEAN]

NoOne == [there |-> FALSE, role |-> "User", status |-> "Waiting", pw |-> 0, totp |-> 0,
          pending |-> 0, last |-> 0, codes |-> 0, left |-> FALSE]

\* A number without a row is blank, only users who are there are signed in, and an Admin is
\* there: without one nobody could make another.
ASSUME SceneAssumption ==
    \A scene \in Scenes :
        /\ scene \in [users : [User -> Account], signed : SUBSET User, clock : 1 .. MaxStep,
                      kinds : SUBSET Kinds]
        /\ \A u \in User : LET a == scene.users[u] IN
              /\ a.there \/ a = NoOne
              /\ {a.pw, a.totp, a.pending, a.codes} \subseteq {0, 1}
        /\ \A u \in scene.signed : scene.users[u].there
        /\ \E u \in User : LET a == scene.users[u] IN
              a.there /\ a.role = "Admin" /\ a.status = "Active"

VARIABLES
    users,        \* the users table with the columns of the second factor
    links,        \* user_tokens
    sessions,     \* user_sessions that are not revoked, each with the password of its sign-in
    challenges,   \* tokens handed out between the password and the second factor
    throttle,     \* Redis: the failure counters with their expiry, and the locks
    clock,        \* the step of the second factor's codes
    req,          \* the request each goroutine serves
    kinds,        \* the kinds of requests of this behaviour
    made,         \* requests begun
    faults,       \* statements that failed
    spent,        \* history: the codes and links of each user that were accepted, by which request
    guesses,      \* history: wrong passwords and codes judged since the key was last free
    excuse        \* history: races and failures after which a property gives up

vars == <<users, links, sessions, challenges, throttle, clock, req, kinds, made, faults, spent,
          guesses, excuse>>

NoCode == [secret |-> 0, step |-> 0]
Idle == [kind |-> "none", pc |-> "idle", id |-> 0, user |-> 0, by |-> 0, pw |-> 0, role |-> "User",
         status |-> "Waiting", code |-> NoCode, link |-> 0, stale |-> FALSE, key |-> 0]

Go(h, pc) == req' = [req EXCEPT ![h].pc = pc]
End(h) == req' = [req EXCEPT ![h] = Idle]
Active(u) == users[u].there /\ users[u].status = "Active"
IsAdmin(u) == Active(u) /\ users[u].role = "Admin"
Others == <<kinds, made, faults>>

-----------------------------------------------------------------------------
(* Requests begin.  The middleware looks the session up, with the user's state *)
(* and role of this moment; links, sign-in and challenges need no session.     *)

Begin(h, kind, r) ==
    /\ req[h].pc = "idle" /\ kind \in kinds /\ made <= MaxRequest
    /\ made' = made + 1
    /\ req' = [req EXCEPT ![h] = [r EXCEPT !.kind = kind, !.id = made + 1]]
    /\ UNCHANGED <<users, links, sessions, challenges, throttle, clock, kinds, faults, spent,
                   guesses, excuse>>

BySession(s) == s \in sessions /\ Active(s.user)
ByAdmin(s) == s \in sessions /\ IsAdmin(s.user)

\* A six-digit code of the user's secret or of the pending one, a recovery code, or neither.
Offered(u, secret) ==
    {NoCode} \cup {[secret |-> secret, step |-> t] : t \in (clock - 1 .. clock + 1) \ {0}}
             \cup {[secret |-> users[u].codes, step |-> 0]}

PasswordSignIn(h) == \E u \in User, known \in BOOLEAN :
    Begin(h, "login", [Idle EXCEPT !.pc = "lock", !.user = u, !.pw = IF known THEN users[u].pw ELSE 0])

SecondFactor(h) == \E c \in challenges : \E code \in Offered(c.user, users[c.user].totp) :
    Begin(h, "mfa", [Idle EXCEPT !.pc = "active", !.user = c.user, !.pw = c.pw, !.code = code])

ProviderSignIn(h) == \E u \in User : Begin(h, "oauth", [Idle EXCEPT !.pc = "find", !.user = u])

OwnFactor(h) == \E s \in sessions :
    /\ BySession(s)
    /\ \/ Begin(h, "setup", [Idle EXCEPT !.pc = "status", !.user = s.user])
       \/ \E code \in Offered(s.user, users[s.user].pending) :
            Begin(h, "enable", [Idle EXCEPT !.pc = "pending", !.user = s.user, !.code = code])

ChangeFactor(h) == \E s \in sessions :
    /\ BySession(s)
    /\ \E kind \in {"disable", "regenerate"}, code \in Offered(s.user, users[s.user].totp) :
         Begin(h, kind, [Idle EXCEPT !.pc = "lock", !.user = s.user, !.code = code])

\* A save of one's own profile may carry a new password; role and state come from the row
\* unless an Admin saves.
OwnSave(h) == \E s \in sessions, change \in BOOLEAN :
    /\ BySession(s)
    /\ Begin(h, "own", [Idle EXCEPT !.user = s.user, !.by = s.id, !.pw = IF change THEN made + 1 ELSE 0,
                        !.pc = IF IsAdmin(s.user) THEN "check" ELSE "load",
                        !.role = users[s.user].role, !.status = users[s.user].status])

\* A demotion, a block, a new password.
Edits == {[role |-> "User", status |-> "Active", password |-> FALSE],
          [role |-> "Admin", status |-> "Block", password |-> FALSE],
          [role |-> "Admin", status |-> "Active", password |-> TRUE]}

EditUser(h) == \E s \in sessions, u \in User, edit \in Edits :
    /\ ByAdmin(s) /\ u # s.user
    /\ Begin(h, "edit", [Idle EXCEPT !.pc = "check", !.user = u, !.role = edit.role,
                         !.status = edit.status, !.pw = IF edit.password THEN made + 1 ELSE 0])

RemoveUser(h) == \E s \in sessions, u \in User :
    ByAdmin(s) /\ Begin(h, "delete", [Idle EXCEPT !.pc = "check", !.user = u])

InviteNewUser(h) == \E s \in sessions, u \in User :
    /\ ByAdmin(s) /\ ~users[u].there
    /\ Begin(h, "create", [Idle EXCEPT !.pc = "insert", !.user = u])

ResetFactor(h) == \E s \in sessions, u \in User :
    ByAdmin(s) /\ Begin(h, "adminreset", [Idle EXCEPT !.pc = "disable", !.user = u])

LinkFor(h) == \E s \in sessions, u \in User, kind \in {"invite", "reset"} :
    ByAdmin(s) /\ Begin(h, kind, [Idle EXCEPT !.pc = "link", !.user = u])

ForgotPassword(h) == \E u \in User : Begin(h, "forgot", [Idle EXCEPT !.pc = "link", !.user = u])

CompletePassword(h) == \E l \in links :
    Begin(h, "complete", [Idle EXCEPT !.pc = "consume", !.user = l.user, !.link = l.id, !.pw = made + 1])

-----------------------------------------------------------------------------
(* The throttle: one counter and one lock for the account, one for the address. *)

\* Regression: only the address is looked at.
LockedAddress(u) == throttle[Ip].lock

Locked(u) == throttle[u].lock \/ throttle[Ip].lock

\* RetryAfter is asked before anything is judged; an error counts as no lock.
CheckLock(h) ==
    LET r == req[h] IN
    /\ r.pc = "lock"
    /\ IF Locked(r.user) THEN End(h)
       ELSE Go(h, CASE r.kind = "login" -> "password" [] r.code.step > 0 -> "secret" [] OTHER -> "recover")
    /\ UNCHANGED <<users, links, sessions, challenges, throttle, clock, spent, guesses, excuse, Others>>

\* A wrong guess has been judged: the account's counter goes first.
Wrong(h) ==
    /\ req' = [req EXCEPT ![h].pc = "incr", ![h].key = req[h].user]
    /\ guesses' = [guesses EXCEPT ![req[h].user] = @ + 1, ![Ip] = @ + 1]

NextKey(h) == IF req[h].key = Ip THEN End(h)
              ELSE req' = [req EXCEPT ![h].pc = "incr", ![h].key = Ip]

Increment(h) ==
    LET r == req[h]  n == throttle[r.key].n + 1 IN
    /\ r.pc = "incr"
    /\ throttle' = [throttle EXCEPT ![r.key].n = n]
    /\ IF n = 1 THEN Go(h, "expire") ELSE IF n >= Limit[r.key] THEN Go(h, "setlock") ELSE NextKey(h)
    /\ UNCHANGED <<users, links, sessions, challenges, clock, spent, guesses, excuse, Others>>

\* EXPIRE does nothing to a key that is gone.
SetExpiry(h) ==
    LET r == req[h] IN
    /\ r.pc = "expire"
    /\ throttle' = [throttle EXCEPT ![r.key].ttl = throttle[r.key].n > 0]
    /\ IF Limit[r.key] = 1 THEN Go(h, "setlock") ELSE NextKey(h)
    /\ UNCHANGED <<users, links, sessions, challenges, clock, spent, guesses, excuse, Others>>

SetLock(h) ==
    /\ req[h].pc = "setlock"
    /\ throttle' = [throttle EXCEPT ![req[h].key] = [n |-> 0, ttl |-> FALSE, lock |-> TRUE]]
    /\ NextKey(h)
    /\ UNCHANGED <<users, links, sessions, challenges, clock, spent, guesses, excuse, Others>>

\* Redis drops a counter or a lock when its time has come.
Expire(k) ==
    /\ \/ throttle[k].lock /\ throttle' = [throttle EXCEPT ![k].lock = FALSE]
       \/ throttle[k].ttl /\ throttle' = [throttle EXCEPT ![k].n = 0, ![k].ttl = FALSE]
    /\ guesses' = [guesses EXCEPT ![k] = 0]
    /\ UNCHANGED <<users, links, sessions, challenges, clock, req, spent, excuse, Others>>

RecordSuccess(h) ==
    /\ req[h].pc = "success"
    /\ throttle' = [throttle EXCEPT ![req[h].user].n = 0, ![req[h].user].ttl = FALSE]
    /\ guesses' = [guesses EXCEPT ![req[h].user] = 0]
    /\ End(h)
    /\ UNCHANGED <<users, links, sessions, challenges, clock, spent, excuse, Others>>

-----------------------------------------------------------------------------
(* Sign-in. *)

FindByCredentials(u, pw) == users[u].pw # 0 /\ pw = users[u].pw
FactorOn(u) == users[u].totp # 0

CheckPassword(h) ==
    LET r == req[h] IN
    /\ r.pc = "password"
    /\ IF ~FindByCredentials(r.user, r.pw) THEN Wrong(h)
       ELSE (IF Active(r.user) THEN Go(h, "factor") ELSE End(h)) /\ UNCHANGED guesses
    /\ UNCHANGED <<users, links, sessions, challenges, throttle, clock, spent, excuse, Others>>

AskFactor(h) ==
    LET r == req[h] IN
    /\ r.pc = "factor"
    /\ IF FactorOn(r.user)
       THEN challenges' = challenges \cup {[user |-> r.user, pw |-> r.pw]} /\ End(h)
       ELSE Go(h, "session") /\ UNCHANGED challenges
    /\ UNCHANGED <<users, links, sessions, throttle, clock, spent, guesses, excuse, Others>>

NewSession(r) == [id |-> r.id, user |-> r.user, pw |-> r.pw, late |-> r.pw # users[r.user].pw]

CreateSession(h) ==
    LET r == req[h] IN
    /\ r.pc = "session"
    /\ IF users[r.user].there
       THEN /\ sessions' = sessions \cup {NewSession(r)}
            /\ IF r.kind = "oauth" THEN End(h) ELSE Go(h, "success")
       ELSE End(h) /\ UNCHANGED sessions
    /\ UNCHANGED <<users, links, challenges, throttle, clock, spent, guesses, excuse, Others>>

\* The second half of a sign-in: the state is asked again, the password is not.
CheckActive(h) ==
    /\ req[h].pc = "active"
    /\ IF Active(req[h].user) THEN Go(h, "lock") ELSE End(h)
    /\ UNCHANGED <<users, links, sessions, challenges, throttle, clock, spent, guesses, excuse, Others>>

\* A code of step t is good within a step of the clock and after the last one taken.
Validates(code, secret, last) ==
    secret # 0 /\ code.secret = secret /\ code.step \in clock - 1 .. clock + 1 /\ code.step > last

ReadSecret(h) ==
    LET r == req[h] IN
    /\ r.pc = "secret"
    /\ IF Validates(r.code, users[r.user].totp, users[r.user].last)
       THEN Go(h, "advance") /\ UNCHANGED guesses ELSE Wrong(h)
    /\ UNCHANGED <<users, links, sessions, challenges, throttle, clock, spent, excuse, Others>>

Confirmed(h) == Go(h, CASE req[h].kind = "mfa" -> "session" [] req[h].kind = "disable" -> "disable"
                        [] OTHER -> "codes")
Accept(h, what) ==
    spent' = spent \cup {[kind |-> what, user |-> req[h].user, by |-> req[h].id,
                          code |-> IF what = "link" THEN [secret |-> req[h].link, step |-> 0]
                                   ELSE req[h].code]}

\* Regression: the step is written whatever the row holds by now.
AdvanceBlindly(h) ==
    LET r == req[h] IN
    /\ r.pc = "advance"
    /\ users' = [users EXCEPT ![r.user].last = r.code.step]
    /\ Accept(h, "code") /\ Confirmed(h)
    /\ UNCHANGED <<guesses, links, sessions, challenges, throttle, clock, excuse, Others>>

\* UPDATE ... WHERE totp_last_step < ?: of two requests with one code only one advances it.
AdvanceStep(h) ==
    LET r == req[h] IN
    /\ r.pc = "advance"
    /\ IF users[r.user].there /\ users[r.user].last < r.code.step
       THEN /\ users' = [users EXCEPT ![r.user].last = r.code.step]
            /\ Accept(h, "code") /\ Confirmed(h) /\ UNCHANGED guesses
       ELSE Wrong(h) /\ UNCHANGED <<users, spent>>
    /\ UNCHANGED <<links, sessions, challenges, throttle, clock, excuse, Others>>

ConsumeRecoveryCode(h) ==
    LET r == req[h]  a == users[r.user] IN
    /\ r.pc = "recover"
    /\ IF a.left /\ a.codes = r.code.secret
       THEN /\ users' = [users EXCEPT ![r.user].left = FALSE]
            /\ Accept(h, "code") /\ Confirmed(h) /\ UNCHANGED guesses
       ELSE Wrong(h) /\ UNCHANGED <<users, spent>>
    /\ UNCHANGED <<links, sessions, challenges, throttle, clock, excuse, Others>>

-----------------------------------------------------------------------------
(* The second factor is set up in two requests, and switched off. *)

CheckStatus(h) ==
    /\ req[h].pc = "status"
    /\ IF users[req[h].user].there /\ ~FactorOn(req[h].user) THEN Go(h, "setpending") ELSE End(h)
    /\ UNCHANGED <<users, links, sessions, challenges, throttle, clock, spent, guesses, excuse, Others>>

SetPendingSecret(h) ==
    LET r == req[h] IN
    /\ r.pc = "setpending"
    /\ users' = IF users[r.user].there THEN [users EXCEPT ![r.user].pending = r.id] ELSE users
    /\ End(h)
    /\ UNCHANGED <<links, sessions, challenges, throttle, clock, spent, guesses, excuse, Others>>

\* The pending secret is validated without a last step; nothing asks whether a secret is on.
ReadPending(h) ==
    LET r == req[h] IN
    /\ r.pc = "pending"
    /\ IF Validates(r.code, users[r.user].pending, 0) THEN Go(h, "enable") ELSE End(h)
    /\ UNCHANGED <<users, links, sessions, challenges, throttle, clock, spent, guesses, excuse, Others>>

\* The last step goes back while a request still relies on it: a code may be good again.
Rewinds(h, last) ==
    LET u == req[h].user IN
    excuse' = IF users[u].last > last /\
                 (\/ req[h].pc = "enable"
                  \/ \E g \in Handler \ {h} : req[g].user = u /\ req[g].pc \in {"advance", "enable"})
              THEN excuse \cup {"rewound"} ELSE excuse

Enable(h) ==
    LET r == req[h] IN
    /\ r.pc = "enable"
    /\ users' = IF users[r.user].there
                THEN [users EXCEPT ![r.user].totp = r.code.secret, ![r.user].pending = 0,
                                   ![r.user].last = r.code.step, ![r.user].codes = r.id,
                                   ![r.user].left = TRUE]
                ELSE users
    /\ Rewinds(h, r.code.step) /\ End(h)
    /\ UNCHANGED <<links, sessions, challenges, throttle, clock, spent, guesses, Others>>

Disable(h) ==
    LET r == req[h] IN
    /\ r.pc = "disable"
    /\ users' = IF users[r.user].there
                THEN [users EXCEPT ![r.user].totp = 0, ![r.user].pending = 0, ![r.user].last = 0,
                                   ![r.user].codes = 0, ![r.user].left = FALSE]
                ELSE users
    /\ Rewinds(h, 0) /\ End(h)
    /\ UNCHANGED <<links, sessions, challenges, throttle, clock, spent, guesses, Others>>

RegenerateRecoveryCodes(h) ==
    LET r == req[h] IN
    /\ r.pc = "codes"
    /\ users' = IF users[r.user].there
                THEN [users EXCEPT ![r.user].codes = r.id, ![r.user].left = TRUE] ELSE users
    /\ End(h)
    /\ UNCHANGED <<links, sessions, challenges, throttle, clock, spent, guesses, excuse, Others>>

-----------------------------------------------------------------------------
(* Rows of the users table.  A request that holds what it read of a row when    *)
(* another one writes is stale.                                                 *)

Writes == {"check", "write", "remove", "activate"}
Written(h, r) == [g \in Handler |->
    IF g = h THEN r ELSE IF req[g].pc \in Writes THEN [req[g] EXCEPT !.stale = TRUE] ELSE req[g]]

Raced(h) == excuse' = IF req[h].stale THEN excuse \cup {"raced"} ELSE excuse

FindForSignIn(h) ==
    LET r == req[h]  a == users[r.user] IN
    /\ r.pc = "find"
    /\ IF ~a.there
       THEN IF a = NoOne THEN Go(h, "insert") ELSE End(h)
       ELSE CASE a.status = "Block" -> End(h)
              [] a.status = "Waiting" ->
                   req' = [req EXCEPT ![h] = [r EXCEPT !.pc = "activate", !.pw = a.pw, !.role = a.role]]
              [] OTHER -> req' = [req EXCEPT ![h].pc = "factor", ![h].pw = a.pw]
    /\ UNCHANGED <<users, links, sessions, challenges, throttle, clock, spent, guesses, excuse, Others>>

\* A provider vouches for a user who waits: the row is written back with the state Active.
Activate(h) ==
    LET r == req[h] IN
    /\ r.pc = "activate"
    /\ IF users[r.user].there
       THEN /\ users' = [users EXCEPT ![r.user].role = r.role, ![r.user].status = "Active"]
            /\ req' = Written(h, [r EXCEPT !.pc = "factor"]) /\ Raced(h)
       ELSE End(h) /\ UNCHANGED <<users, excuse>>
    /\ UNCHANGED <<links, sessions, challenges, throttle, clock, spent, guesses, Others>>

\* A provider's new user is Active at once, one an Admin makes waits for an invitation.
Insert(h) ==
    LET r == req[h] IN
    /\ r.pc = "insert"
    /\ IF users[r.user] # NoOne THEN End(h) /\ UNCHANGED users
       ELSE /\ users' = [users EXCEPT ![r.user].there = TRUE,
                                      ![r.user].status = IF r.kind = "oauth" THEN "Active" ELSE "Waiting"]
            /\ Go(h, IF r.kind = "oauth" THEN "factor" ELSE "issue")
    /\ UNCHANGED <<links, sessions, challenges, throttle, clock, spent, guesses, excuse, Others>>

LoadOwn(h) ==
    LET r == req[h]  a == users[r.user] IN
    /\ r.pc = "load"
    /\ IF a.there
       THEN req' = [req EXCEPT ![h] = [r EXCEPT !.pc = "check", !.role = a.role, !.status = a.status]]
       ELSE End(h)
    /\ UNCHANGED <<users, links, sessions, challenges, throttle, clock, spent, guesses, excuse, Others>>

\* Regression: any Admin's row counts, whatever its state.
LastAnyAdmin(u, role, status, deleting) ==
    /\ IsAdmin(u) /\ (deleting \/ role # "Admin" \/ status # "Active")
    /\ \A v \in User \ {u} : ~users[v].there \/ users[v].role # "Admin"

LastActiveAdmin(u, role, status, deleting) ==
    /\ IsAdmin(u) /\ (deleting \/ role # "Admin" \/ status # "Active")
    /\ \A v \in User \ {u} : ~IsAdmin(v)

\* The change is refused when no other Admin would be left.  When the row cannot be read the
\* question is not asked.
CheckLastAdmin(h, asked) ==
    LET r == req[h] IN
    /\ r.pc = "check"
    /\ IF asked /\ LastActiveAdmin(r.user, r.role, r.status, r.kind = "delete") THEN End(h)
       ELSE req' = [req EXCEPT ![h].pc = IF r.kind = "delete" THEN "remove" ELSE "write",
                               ![h].stale = r.kind = "own" /\ @]
    /\ IF asked THEN UNCHANGED <<excuse, faults>>
       ELSE excuse' = excuse \cup {"unasked"} /\ faults < MaxFault /\ faults' = faults + 1
    /\ UNCHANGED <<users, links, sessions, challenges, throttle, clock, spent, guesses, kinds, made>>

\* The update writes name, role and state as the request holds them, and a password if it
\* brings one; then the user's servers are written and the other sessions revoked.
WriteUser(h) ==
    LET r == req[h] IN
    /\ r.pc = "write"
    /\ IF users[r.user].there
       THEN /\ users' = [users EXCEPT ![r.user].role = r.role, ![r.user].status = r.status,
                                      ![r.user].pw = IF r.pw = 0 THEN @ ELSE r.pw]
            /\ sessions' = {IF s.user = r.user /\ s.id = r.by /\ r.pw # 0 THEN [s EXCEPT !.pw = r.pw] ELSE s
                            : s \in sessions}
            /\ req' = Written(h, [r EXCEPT !.pc = "servers"]) /\ Raced(h)
       ELSE End(h) /\ UNCHANGED <<users, sessions, excuse>>
    /\ UNCHANGED <<links, challenges, throttle, clock, spent, guesses, Others>>

\* Regression: only a change of one's own password ends the sessions.
WriteServersAlone(h) ==
    /\ req[h].pc = "servers"
    /\ IF req[h].kind = "edit" \/ req[h].pw = 0 THEN End(h) ELSE Go(h, "revoke")
    /\ UNCHANGED <<users, links, sessions, challenges, throttle, clock, spent, guesses, excuse, Others>>

WriteServers(h) ==
    /\ req[h].pc = "servers"
    /\ IF req[h].pw = 0 THEN End(h) ELSE Go(h, "revoke")
    /\ UNCHANGED <<users, links, sessions, challenges, throttle, clock, spent, guesses, excuse, Others>>

Gone == [NoOne EXCEPT !.status = "Block"]   \* its number is not given again

\* Sessions, links and recovery codes go with the row.
DeleteUser(h) ==
    LET r == req[h] IN
    /\ r.pc = "remove"
    /\ IF users[r.user].there
       THEN /\ users' = [users EXCEPT ![r.user] = Gone] /\ req' = Written(h, Idle) /\ Raced(h)
            /\ links' = {l \in links : l.user # r.user}
            /\ sessions' = {s \in sessions : s.user # r.user}
       ELSE End(h) /\ UNCHANGED <<users, links, sessions, excuse>>
    /\ UNCHANGED <<challenges, throttle, clock, spent, guesses, Others>>

-----------------------------------------------------------------------------
(* One-time links. *)

\* Who may have a link, and of which purpose; a link asked for at the sign-in page goes by
\* mail to any user who is not blocked.
LoadForLink(h) ==
    LET r == req[h]  a == users[r.user] IN
    /\ r.pc = "link"
    /\ IF /\ a.there
          /\ r.kind # "reset" => a.status # "Block"
          /\ r.kind = "invite" => ~(a.pw # 0 /\ a.status = "Active")
       THEN req' = [req EXCEPT ![h].pc = "issue",
                               ![h].kind = IF @ = "forgot" /\ a.pw = 0 /\ a.status = "Waiting"
                                           THEN "invite" ELSE @]
       ELSE End(h)
    /\ UNCHANGED <<users, links, sessions, challenges, throttle, clock, spent, guesses, excuse, Others>>

Purpose(kind) == IF kind \in {"create", "invite"} THEN "invite" ELSE "reset"

\* One transaction: the user's open links of this purpose end, the new one is inserted.
IssueLink(h) ==
    LET r == req[h] IN
    /\ r.pc = "issue"
    /\ links' = IF users[r.user].there
                THEN {IF l.user = r.user /\ l.purpose = Purpose(r.kind)
                      THEN [l EXCEPT !.open = FALSE] ELSE l : l \in links}
                     \cup {[id |-> r.id, user |-> r.user, purpose |-> Purpose(r.kind), open |-> TRUE]}
                ELSE links
    /\ End(h)
    /\ UNCHANGED <<users, sessions, challenges, throttle, clock, spent, guesses, excuse, Others>>

\* A link that is not used up, of a user who is still there.
Lookup(link) == \E l \in links : l.id = link /\ l.open

\* SELECT ... FOR UPDATE and UPDATE in one transaction.
Consume(h) ==
    LET r == req[h] IN
    /\ r.pc = "consume"
    /\ IF Lookup(r.link)
       THEN /\ links' = {IF l.id = r.link THEN [l EXCEPT !.open = FALSE] ELSE l : l \in links}
            /\ Go(h, "setpassword") /\ Accept(h, "link")
       ELSE End(h) /\ UNCHANGED <<links, spent>>
    /\ UNCHANGED <<users, sessions, challenges, throttle, clock, guesses, excuse, Others>>

Invited(h) == \E l \in links : l.id = req[h].link /\ l.purpose = "invite"

\* Regression: an invitation makes its user Active, whatever the row says by now.
ActivatedAlways(h) == IF Invited(h) THEN "Active" ELSE users[req[h].user].status

Activated(h) == IF Invited(h) /\ users[req[h].user].status = "Waiting" THEN "Active"
                ELSE users[req[h].user].status

SetPassword(h) ==
    LET r == req[h] IN
    /\ r.pc = "setpassword"
    /\ IF users[r.user].there
       THEN /\ users' = [users EXCEPT ![r.user].pw = r.pw, ![r.user].status = Activated(h)]
            /\ req' = Written(h, [r EXCEPT !.pc = "revoke"])
       ELSE End(h) /\ UNCHANGED users
    /\ UNCHANGED <<links, sessions, challenges, throttle, clock, spent, guesses, excuse, Others>>

\* Every session of the user but the one the change came from.
RevokeAll(h) ==
    /\ req[h].pc = "revoke"
    /\ sessions' = {s \in sessions : s.user # req[h].user \/ s.id = req[h].by} /\ End(h)
    /\ UNCHANGED <<users, links, challenges, throttle, clock, spent, guesses, excuse, Others>>

\* Signing out: one session, or all but one, in a single statement.
SignOut(s) ==
    /\ s \in sessions
    /\ \/ sessions' = sessions \ {s}
       \/ sessions' = {t \in sessions : t.user # s.user \/ t.id = s.id}
    /\ UNCHANGED <<users, links, challenges, throttle, clock, req, spent, guesses, excuse, Others>>

-----------------------------------------------------------------------------
(* A statement fails, or the client goes and the request's context with it: the *)
(* handler returns.  What it has written stays.                                 *)

Uncounted == {"incr", "expire", "setlock"}

Fail(h) ==
    LET r == req[h] IN
    /\ r.pc # "idle" /\ faults < MaxFault /\ faults' = faults + 1
    /\ IF r.pc = "lock"
       THEN Go(h, CASE r.kind = "login" -> "password" [] r.code.step > 0 -> "secret" [] OTHER -> "recover")
       ELSE End(h)
    /\ excuse' = CASE r.pc \in Uncounted \/ r.pc = "lock" -> excuse \cup {"uncounted"}
                   [] r.pc \in {"servers", "revoke"} /\ r.pw # 0 -> excuse \cup {"unrevoked"}
                   [] OTHER -> excuse
    /\ UNCHANGED <<users, links, sessions, challenges, throttle, clock, kinds, made, spent, guesses>>

Tick ==
    /\ clock < MaxStep /\ clock' = clock + 1
    /\ UNCHANGED <<users, links, sessions, challenges, throttle, req, spent, guesses, excuse, Others>>

Init ==
    /\ \E scene \in Scenes :
         /\ users = scene.users /\ clock = scene.clock /\ kinds = scene.kinds
         /\ sessions = {[id |-> 1, user |-> u, pw |-> users[u].pw, late |-> FALSE] : u \in scene.signed}
    /\ links = {} /\ challenges = {} /\ spent = {} /\ excuse = {}
    /\ throttle = [k \in Key |-> [n |-> 0, ttl |-> FALSE, lock |-> FALSE]]
    /\ guesses = [k \in Key |-> 0]
    /\ made = 1 /\ faults = 0
    /\ req = [h \in Handler |-> Idle]

Serve(h) ==
    \/ PasswordSignIn(h) \/ SecondFactor(h) \/ ProviderSignIn(h) \/ OwnFactor(h) \/ ChangeFactor(h)
    \/ OwnSave(h) \/ EditUser(h) \/ RemoveUser(h) \/ InviteNewUser(h) \/ ResetFactor(h)
    \/ LinkFor(h) \/ ForgotPassword(h) \/ CompletePassword(h)
    \/ CheckLock(h) \/ Increment(h) \/ SetExpiry(h) \/ SetLock(h) \/ RecordSuccess(h)
    \/ CheckPassword(h) \/ AskFactor(h) \/ CreateSession(h) \/ CheckActive(h)
    \/ ReadSecret(h) \/ AdvanceStep(h) \/ ConsumeRecoveryCode(h)
    \/ CheckStatus(h) \/ SetPendingSecret(h) \/ ReadPending(h) \/ Enable(h) \/ Disable(h)
    \/ RegenerateRecoveryCodes(h)
    \/ FindForSignIn(h) \/ Activate(h) \/ Insert(h) \/ LoadOwn(h)
    \/ \E asked \in BOOLEAN : CheckLastAdmin(h, asked)
    \/ WriteUser(h) \/ WriteServers(h) \/ DeleteUser(h)
    \/ LoadForLink(h) \/ IssueLink(h) \/ Consume(h) \/ SetPassword(h) \/ RevokeAll(h)
    \/ Fail(h)

Next ==
    \/ \E h \in Handler : Serve(h)
    \/ \E k \in Key : Expire(k)
    \/ \E s \in sessions : SignOut(s)
    \/ Tick

Spec == Init /\ [][Next]_vars

-----------------------------------------------------------------------------
(* Properties. *)

\* However requests overlap, a code of the second factor, a recovery code and a one-time link
\* are accepted for one request only, as long as the last step was not set back by a second
\* confirmation of a setup or by switching the factor off while a code was being judged.
AcceptedOnce ==
    \A a, b \in spent :
        /\ a.kind = b.kind /\ a.user = b.user /\ a.code = b.code
        /\ a.code.step = 0 \/ "rewound" \notin excuse
        => a.by = b.by

\* Once a new password is set and its handler has revoked the sessions, every session that
\* is left signed in with that password, unless its sign-in overlapped the change.
SessionsFollowPassword ==
    \A s \in sessions :
        \/ s.pw = users[s.user].pw \/ s.late \/ "unrevoked" \in excuse
        \/ \E h \in Handler : req[h].user = s.user /\ req[h].pc \in {"servers", "revoke"} /\ req[h].pw # 0

\* The panel keeps an active Admin, unless two changes overlapped or the check was skipped
\* because the row could not be read.
AnAdminRemains == excuse \cap {"raced", "unasked"} # {} \/ \E u \in User : IsAdmin(u)

\* Wrong guesses go unpunished only as far as requests in flight reach: after the limit at
\* most one more for each other goroutine is judged before the key is free again.
GuessesBounded ==
    "uncounted" \in excuse \/ \A k \in Key : guesses[k] < Limit[k] + Cardinality(Handler)

\* Nothing but an Admin's save of that user lifts a block, or a request that had read the row
\* before it was blocked: links, invitations and providers do not.
BlockSticks ==
    [][\A u \in User : users[u].there /\ users[u].status = "Block" /\ users'[u].status # "Block" =>
          \E h \in Handler : /\ req[h].user = u /\ req[h].pc \in {"write", "activate"}
                             /\ req[h].kind = "edit" \/ req[h].stale]_vars
=============================================================================
