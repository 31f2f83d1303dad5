---------------------------- MODULE AccountsProofs ----------------------------
(***************************************************************************)
(* Proofs about the panel's accounts, for every set of users, of goroutines *)
(* and of scenes, and every value of the limits and bounds.                 *)
(***************************************************************************)
EXTENDS Accounts, FiniteSetTheorems, TLAPS

-----------------------------------------------------------------------------
(* Types.  Numbers are only natural here: the bounds play no part.           *)

Role == {"Admin", "User"}
Status == {"Active", "Waiting", "Block"}
Code == [secret : Nat, step : Nat]
Row == [there : BOOLEAN, role : Role, status : Status, pw : Nat, totp : Nat, pending : Nat,
        last : Nat, codes : Nat, left : BOOLEAN]

\* Past the lock, with a password or a code that is still to be judged.
Judging == {"password", "secret", "advance", "recover"}

\* Statements that a request may reach whatever it carries.
Plain == {"lock", "password", "secret", "recover", "active", "factor", "session", "success",
          "status", "setpending", "pending", "disable", "codes", "find", "insert", "activate",
          "servers", "revoke", "link", "issue"}

Steps == {"idle", "consume", "setpassword", "remove", "write", "check", "load", "advance",
          "enable", "incr", "expire", "setlock"} \cup Plain

Request == [kind : Kinds \cup {"none"}, pc : Steps, id : Nat, user : User \cup {0}, by : Nat,
            pw : Nat, role : Role, status : Status, code : Code, link : Nat, stale : BOOLEAN,
            key : Key]

\* What a request has in hand when it is about to run a statement.
Ready(r) ==
    /\ r.pc # "idle" => r.user \in User
    /\ r.pc \in {"consume", "setpassword"} => r.by = 0 /\ r.pw # 0
    /\ r.pc = "remove" => r.kind = "delete"
    /\ r.pc = "write" => r.kind \in {"edit", "own"}
    /\ r.pc = "check" => r.kind \in {"edit", "own", "delete"}
    /\ r.pc = "load" => r.kind = "own"
    /\ r.pc \in {"advance", "enable"} => r.code.secret # 0 /\ r.code.step > 0
    /\ r.pc \in Uncounted => r.key \in {r.user, Ip}

Shape(r) == r \in Request /\ Ready(r)

UsersOK == users \in [User -> Row]
ReqOK == req \in [Handler -> Request] /\ \A h \in Handler : Ready(req[h])
Session == [id : Nat, user : User, pw : Nat, late : BOOLEAN]
Link == [id : Nat, user : User, purpose : {"invite", "reset"}, open : BOOLEAN]
Acceptance == [kind : {"code", "link"}, user : User, by : Nat, code : Code]
TablesOK ==
    /\ sessions \subseteq Session
    /\ links \subseteq Link
    /\ challenges \subseteq [user : User, pw : Nat]
    /\ spent \subseteq Acceptance
CountersOK ==
    /\ throttle \in [Key -> [n : Nat, ttl : BOOLEAN, lock : BOOLEAN]]
    /\ guesses \in [Key -> Nat]
    /\ clock \in Nat \ {0} /\ made \in Nat \ {0} /\ faults \in Nat

TypeInv == UsersOK /\ ReqOK /\ TablesOK /\ CountersOK

USE UserAssumption, BoundAssumption, LimitAssumption DEF Ip, Key

-----------------------------------------------------------------------------
(* How a request moves. *)

\* A goroutine that serves no request is idle.
LEMMA IdleShape == Shape(Idle)
  BY DEF Shape, Request, Ready, Idle, NoCode, Code, Steps, Plain, Uncounted, Role, Status

\* One goroutine moves on, the others stay.
LEMMA ReqStep ==
    ASSUME ReqOK, NEW h \in Handler, NEW r, Shape(r), req' = [req EXCEPT ![h] = r]
    PROVE  ReqOK'
  BY DEF ReqOK, Shape

\* A request goes to a statement.
LEMMA GoReady ==
    ASSUME ReqOK, NEW h \in Handler, NEW p \in Steps, Go(h, p), Ready([req[h] EXCEPT !.pc = p])
    PROVE  ReqOK'
<1> DEFINE r == [req[h] EXCEPT !.pc = p]
<1>1. Shape(r)
  BY DEF ReqOK, Shape, Request
<1>2. req' = [req EXCEPT ![h] = r]
  BY DEF ReqOK, Go
<1> HIDE DEF r
<1> QED
  BY <1>1, <1>2, ReqStep

\* A request goes to a statement that needs nothing in hand.
LEMMA GoPlain ==
    ASSUME ReqOK, NEW h \in Handler, req[h].pc # "idle", NEW p \in Plain, Go(h, p)
    PROVE  ReqOK'
<1>1. p \in Steps
  BY DEF Steps
<1>2. Ready([req[h] EXCEPT !.pc = p])
  BY DEF ReqOK, Ready, Request, Plain, Uncounted
<1> QED
  BY <1>1, <1>2, GoReady

\* A request ends.
LEMMA EndReq == ASSUME ReqOK, NEW h \in Handler, End(h) PROVE ReqOK'
  BY ReqStep, IdleShape DEF End

\* A request begins.
LEMMA BeginReq ==
    ASSUME ReqOK, made \in Nat, NEW h \in Handler, NEW kind \in Kinds, NEW r \in Request,
           Ready([r EXCEPT !.kind = kind, !.id = made + 1]), Begin(h, kind, r)
    PROVE  ReqOK'
<1> DEFINE q == [r EXCEPT !.kind = kind, !.id = made + 1]
<1>1. q \in Request /\ Ready(q)
  <2>1. \A n \in Nat : [r EXCEPT !.kind = kind, !.id = n] \in Request
    BY DEF Request
  <2>2. made + 1 \in Nat
    OBVIOUS
  <2>3. q \in Request
    BY ONLY <2>1, <2>2
  <2> QED
    BY <2>3, Zenon
<1>2. req' = [req EXCEPT ![h] = q]
  BY DEF Begin
<1> HIDE DEF q
<1> QED
  BY <1>1, <1>2, ReqStep DEF Shape

\* A row is written: requests that hold what they read of one become stale.
LEMMA WrittenReq ==
    ASSUME ReqOK, NEW h \in Handler, NEW r, Shape(r), req' = Written(h, r)
    PROVE  ReqOK'
<1>1. \A g \in Handler : Shape([req[g] EXCEPT !.stale = TRUE])
  BY ZenonT(60) DEF ReqOK, Shape, Ready, Request
<1>2. \A g \in Handler : Shape(req'[g])
  BY <1>1 DEF Written, ReqOK, Shape
<1> QED
  BY <1>2 DEF Written, ReqOK, Shape

\* A request that starts with a statement that needs nothing in hand.
LEMMA BeginPlain ==
    ASSUME ReqOK, made \in Nat, NEW h \in Handler, NEW kind \in Kinds, NEW r \in Request,
           r.pc \in Plain, r.user \in User, Begin(h, kind, r)
    PROVE  ReqOK'
<1>1. Ready([r EXCEPT !.kind = kind, !.id = made + 1])
  BY DEF Ready, Request, Plain, Uncounted
<1> QED
  BY <1>1, BeginReq

\* The codes a client may offer.
LEMMA OfferedCode ==
    ASSUME UsersOK, CountersOK, NEW u \in User, NEW n \in Nat, NEW code \in Offered(u, n)
    PROVE  code \in Code
  BY DEF UsersOK, CountersOK, Row, Offered, NoCode, Code

\* The requests that begin.
Beginning(h) ==
    \/ PasswordSignIn(h) \/ SecondFactor(h) \/ ProviderSignIn(h) \/ OwnFactor(h) \/ ChangeFactor(h)
    \/ OwnSave(h) \/ EditUser(h) \/ RemoveUser(h) \/ InviteNewUser(h) \/ ResetFactor(h)
    \/ LinkFor(h) \/ ForgotPassword(h) \/ CompletePassword(h)

LEMMA BeginningReq == ASSUME TypeInv, NEW h \in Handler, Beginning(h) PROVE ReqOK'
<1> USE DEF TypeInv
<1>0. /\ Idle \in Request /\ made \in Nat /\ made + 1 \in Nat
      /\ \A u \in User : users[u] \in Row /\ u \in User \cup {0}
  BY IdleShape DEF Shape, CountersOK, UsersOK
<1>1. CASE PasswordSignIn(h)
  <2>1. PICK u \in User, n \in Nat : Begin(h, "login", [Idle EXCEPT !.pc = "lock", !.user = u, !.pw = n])
    BY <1>0, <1>1 DEF PasswordSignIn, Row
  <2>2. [Idle EXCEPT !.pc = "lock", !.user = u, !.pw = n] \in Request
    BY <1>0 DEF Request, Steps, Plain
  <2> QED
    BY <2>1, <2>2, <1>0, BeginPlain DEF Kinds, Plain, Request, Idle
<1>2. CASE SecondFactor(h)
  <2>1. PICK c \in challenges : \E code \in Offered(c.user, users[c.user].totp) :
          Begin(h, "mfa", [Idle EXCEPT !.pc = "active", !.user = c.user, !.pw = c.pw, !.code = code])
    BY <1>2 DEF SecondFactor
  <2>2. PICK code \in Offered(c.user, users[c.user].totp) :
          Begin(h, "mfa", [Idle EXCEPT !.pc = "active", !.user = c.user, !.pw = c.pw, !.code = code])
    BY <2>1
  <2>3. c.user \in User /\ c.pw \in Nat
    BY DEF TablesOK, Session, Link, Acceptance
  <2>4. code \in Code
    BY <1>0, <2>3, OfferedCode DEF Row
  <2>5. [Idle EXCEPT !.pc = "active", !.user = c.user, !.pw = c.pw, !.code = code] \in Request
    BY <1>0, <2>3, <2>4 DEF Request, Steps, Plain
  <2> QED
    BY <2>2, <2>3, <2>5, <1>0, BeginPlain DEF Kinds, Plain, Request, Idle
<1>3. CASE ProviderSignIn(h)
  <2>1. PICK u \in User : Begin(h, "oauth", [Idle EXCEPT !.pc = "find", !.user = u])
    BY <1>3 DEF ProviderSignIn
  <2>2. [Idle EXCEPT !.pc = "find", !.user = u] \in Request
    BY <1>0 DEF Request, Steps, Plain
  <2> QED
    BY <2>1, <2>2, <1>0, BeginPlain DEF Kinds, Plain, Request, Idle
<1>4. CASE OwnFactor(h)
  <2>1. PICK s \in sessions :
          \/ Begin(h, "setup", [Idle EXCEPT !.pc = "status", !.user = s.user])
          \/ \E code \in Offered(s.user, users[s.user].pending) :
               Begin(h, "enable", [Idle EXCEPT !.pc = "pending", !.user = s.user, !.code = code])
    BY <1>4 DEF OwnFactor
  <2>2. s.user \in User
    BY DEF TablesOK, Session, Link, Acceptance
  <2>3. [Idle EXCEPT !.pc = "status", !.user = s.user] \in Request
    BY <1>0, <2>2 DEF Request, Steps, Plain
  <2>4. ASSUME NEW code \in Offered(s.user, users[s.user].pending)
        PROVE  [Idle EXCEPT !.pc = "pending", !.user = s.user, !.code = code] \in Request
    <3>1. code \in Code
      BY <1>0, <2>2, OfferedCode DEF Row
    <3> QED
      BY <1>0, <2>2, <3>1 DEF Request, Steps, Plain
  <2>5. CASE Begin(h, "setup", [Idle EXCEPT !.pc = "status", !.user = s.user])
    BY <2>2, <2>3, <2>5, <1>0, BeginPlain DEF Kinds, Plain, Request, Idle
  <2>6. ASSUME NEW code \in Offered(s.user, users[s.user].pending),
               Begin(h, "enable", [Idle EXCEPT !.pc = "pending", !.user = s.user, !.code = code])
        PROVE  ReqOK'
    BY <2>2, <2>4, <2>6, <1>0, BeginPlain DEF Kinds, Plain, Request, Idle
  <2> QED
    BY <2>1, <2>5, <2>6
<1>5. CASE ChangeFactor(h)
  <2>1. PICK s \in sessions, kind \in {"disable", "regenerate"} :
          \E code \in Offered(s.user, users[s.user].totp) :
            Begin(h, kind, [Idle EXCEPT !.pc = "lock", !.user = s.user, !.code = code])
    BY <1>5 DEF ChangeFactor
  <2>2. PICK code \in Offered(s.user, users[s.user].totp) :
          Begin(h, kind, [Idle EXCEPT !.pc = "lock", !.user = s.user, !.code = code])
    BY <2>1
  <2>3. s.user \in User
    BY DEF TablesOK, Session, Link, Acceptance
  <2>4. code \in Code
    BY <1>0, <2>3, OfferedCode DEF Row
  <2> DEFINE r == [Idle EXCEPT !.pc = "lock", !.user = s.user, !.code = code]
  <2>5. r \in Request /\ r.pc \in Plain /\ r.user \in User /\ kind \in Kinds
    BY <1>0, <2>3, <2>4 DEF Request, Steps, Plain, Kinds
  <2>6. Begin(h, kind, r)
    BY <2>2
  <2> HIDE DEF r
  <2> QED
    BY <2>5, <2>6, <1>0, BeginPlain
<1>6. CASE OwnSave(h)
  <2>1. PICK s \in sessions, n \in Nat, p \in {"check", "load"} :
          Begin(h, "own", [Idle EXCEPT !.user = s.user, !.by = s.id, !.pw = n, !.pc = p,
                           !.role = users[s.user].role, !.status = users[s.user].status])
    BY <1>0, <1>6 DEF OwnSave
  <2> DEFINE r == [Idle EXCEPT !.user = s.user, !.by = s.id, !.pw = n, !.pc = p,
                               !.role = users[s.user].role, !.status = users[s.user].status]
  <2>2. s.user \in User /\ s.id \in Nat
    BY DEF TablesOK, Session, Link, Acceptance
  <2>3. users[s.user].role \in Role /\ users[s.user].status \in Status
    BY <1>0, <2>2 DEF Row
  <2>4. r \in Request
    BY <1>0, <2>2, <2>3 DEF Request, Steps
  <2>5. r.user \in User /\ r.pc \in {"check", "load"}
    BY <2>2 DEF Idle
  <2> HIDE DEF r
  <2>6. Ready([r EXCEPT !.kind = "own", !.id = made + 1])
    BY <2>4, <2>5 DEF Ready, Request, Uncounted
  <2>7. Begin(h, "own", r)
    BY <2>1 DEF r
  <2> QED
    BY <2>4, <2>6, <2>7, <1>0, BeginReq DEF Kinds
<1>7. CASE EditUser(h)
  <2>1. PICK u \in User, edit \in Edits, n \in Nat :
          Begin(h, "edit", [Idle EXCEPT !.pc = "check", !.user = u, !.role = edit.role,
                            !.status = edit.status, !.pw = n])
    BY <1>0, <1>7 DEF EditUser
  <2> DEFINE r == [Idle EXCEPT !.pc = "check", !.user = u, !.role = edit.role,
                               !.status = edit.status, !.pw = n]
  <2>2. edit.role \in Role /\ edit.status \in Status
    BY DEF Edits, Role, Status
  <2>3. r \in Request
    BY <1>0, <2>2 DEF Request, Steps
  <2>4. r.user \in User /\ r.pc = "check"
    BY DEF Idle
  <2> HIDE DEF r
  <2>5. Ready([r EXCEPT !.kind = "edit", !.id = made + 1])
    BY <2>3, <2>4 DEF Ready, Request, Uncounted
  <2>6. Begin(h, "edit", r)
    BY <2>1 DEF r
  <2> QED
    BY <2>3, <2>5, <2>6, <1>0, BeginReq DEF Kinds
<1>8. CASE RemoveUser(h)
  <2>1. PICK u \in User : Begin(h, "delete", [Idle EXCEPT !.pc = "check", !.user = u])
    BY <1>8 DEF RemoveUser
  <2> DEFINE r == [Idle EXCEPT !.pc = "check", !.user = u]
  <2>2. r \in Request /\ r.user \in User /\ r.pc = "check"
    BY <1>0 DEF Request, Steps
  <2> HIDE DEF r
  <2>3. Ready([r EXCEPT !.kind = "delete", !.id = made + 1])
    BY <2>2 DEF Ready, Request, Uncounted
  <2>4. Begin(h, "delete", r)
    BY <2>1 DEF r
  <2> QED
    BY <2>2, <2>3, <2>4, <1>0, BeginReq DEF Kinds
<1>9. CASE InviteNewUser(h)
  <2>1. PICK u \in User : Begin(h, "create", [Idle EXCEPT !.pc = "insert", !.user = u])
    BY <1>9 DEF InviteNewUser
  <2>2. [Idle EXCEPT !.pc = "insert", !.user = u] \in Request
    BY <1>0 DEF Request, Steps, Plain
  <2> QED
    BY <2>1, <2>2, <1>0, BeginPlain DEF Kinds, Plain, Request, Idle
<1>10. CASE ResetFactor(h)
  <2>1. PICK u \in User : Begin(h, "adminreset", [Idle EXCEPT !.pc = "disable", !.user = u])
    BY <1>10 DEF ResetFactor
  <2>2. [Idle EXCEPT !.pc = "disable", !.user = u] \in Request
    BY <1>0 DEF Request, Steps, Plain
  <2> QED
    BY <2>1, <2>2, <1>0, BeginPlain DEF Kinds, Plain, Request, Idle
<1>11. CASE LinkFor(h) \/ ForgotPassword(h)
  <2>1. PICK u \in User, kind \in {"invite", "reset", "forgot"} :
          Begin(h, kind, [Idle EXCEPT !.pc = "link", !.user = u])
    BY <1>11 DEF LinkFor, ForgotPassword
  <2> DEFINE r == [Idle EXCEPT !.pc = "link", !.user = u]
  <2>2. r \in Request /\ r.pc \in Plain /\ r.user \in User /\ kind \in Kinds
    BY <1>0, ZenonT(60) DEF Request, Steps, Plain, Kinds
  <2>3. Begin(h, kind, r)
    BY <2>1
  <2> HIDE DEF r
  <2> QED
    BY <2>2, <2>3, <1>0, BeginPlain
<1>12. CASE CompletePassword(h)
  <2>1. PICK l \in links :
          Begin(h, "complete", [Idle EXCEPT !.pc = "consume", !.user = l.user, !.link = l.id,
                                !.pw = made + 1])
    BY <1>12 DEF CompletePassword
  <2> DEFINE n == made + 1
  <2> DEFINE r == [Idle EXCEPT !.pc = "consume", !.user = l.user, !.link = l.id, !.pw = n]
  <2>2. Begin(h, "complete", r)
    BY <2>1
  <2>3. n \in Nat /\ n # 0
    BY <1>0
  <2> HIDE DEF n
  <2>4. l.user \in User /\ l.id \in Nat
    BY DEF TablesOK, Session, Link, Acceptance
  <2>5. r \in Request /\ r.user \in User /\ r.pc = "consume" /\ r.by = 0 /\ r.pw # 0
    <3>1. r \in Request
      BY <1>0, <2>3, <2>4 DEF Request, Steps
    <3> QED
      BY <2>3, <2>4, <3>1 DEF Idle
  <2> HIDE DEF r
  <2>6. Ready([r EXCEPT !.kind = "complete", !.id = made + 1])
    BY <2>5 DEF Ready, Request, Uncounted
  <2> QED
    BY <2>2, <2>5, <2>6, <1>0, BeginReq DEF Kinds
<1> QED
  BY <1>1, <1>2, <1>3, <1>4, <1>5, <1>6, <1>7, <1>8, <1>9, <1>10, <1>11, <1>12 DEF Beginning

\* A wrong guess has been judged, or the next key's turn has come.
LEMMA KeyReq ==
    ASSUME ReqOK, NEW h \in Handler, req[h].pc # "idle", NEW k \in {req[h].user, Ip},
           req' = [req EXCEPT ![h].pc = "incr", ![h].key = k]
    PROVE  ReqOK'
<1> DEFINE r == [req[h] EXCEPT !.pc = "incr", !.key = k]
<1>1. req[h] \in Request /\ req[h].user \in User /\ k \in Key
  BY DEF ReqOK, Ready
<1>2. r \in Request
  BY <1>1 DEF Request, Steps
<1>3. r.pc = "incr" /\ r.key = k /\ r.user = req[h].user
  BY <1>1 DEF Request
<1>4. req' = [req EXCEPT ![h] = r]
  BY DEF ReqOK
<1> HIDE DEF r
<1>5. Ready(r)
  BY <1>1, <1>3 DEF Ready, Uncounted
<1> QED
  BY <1>2, <1>4, <1>5, ReqStep DEF Shape

LEMMA WrongReq == ASSUME ReqOK, NEW h \in Handler, req[h].pc # "idle", Wrong(h) PROVE ReqOK'
  BY KeyReq DEF Wrong

LEMMA NextKeyReq == ASSUME ReqOK, NEW h \in Handler, req[h].pc # "idle", NextKey(h) PROVE ReqOK'
<1>1. CASE End(h)
  BY <1>1, EndReq
<1>2. CASE req' = [req EXCEPT ![h].pc = "incr", ![h].key = Ip]
  BY <1>2, KeyReq
<1> QED
  BY <1>1, <1>2 DEF NextKey

\* The statements of the throttle, of sign-in and of the second factor.
Guarding(h) ==
    \/ CheckLock(h) \/ Increment(h) \/ SetExpiry(h) \/ SetLock(h) \/ RecordSuccess(h)
    \/ CheckPassword(h) \/ AskFactor(h) \/ CreateSession(h) \/ CheckActive(h)
    \/ ReadSecret(h) \/ AdvanceStep(h) \/ ConsumeRecoveryCode(h)
    \/ CheckStatus(h) \/ SetPendingSecret(h) \/ ReadPending(h) \/ Enable(h) \/ Disable(h)
    \/ RegenerateRecoveryCodes(h)

LEMMA GuardingReq == ASSUME TypeInv, NEW h \in Handler, Guarding(h) PROVE ReqOK'
<1> USE DEF TypeInv
<1>0. req[h] \in Request /\ Ready(req[h])
  BY DEF ReqOK
<1>1. ASSUME req[h].pc # "idle", NEW p \in Plain, Go(h, p) PROVE ReqOK'
  BY <1>1, GoPlain
<1>2. CASE CheckLock(h)
  <2>1. End(h) \/ \E p \in Plain : Go(h, p)
    BY <1>2 DEF CheckLock, Plain
  <2> QED
    BY <1>1, <1>2, <2>1, EndReq DEF CheckLock
<1>3. CASE Increment(h)
  <2>1. ASSUME NEW p \in {"expire", "setlock"}, Go(h, p) PROVE ReqOK'
    <3>1. Ready([req[h] EXCEPT !.pc = p]) /\ p \in Steps
      BY <1>0, <1>3 DEF Increment, Ready, Request, Uncounted, Steps
    <3> QED
      BY <2>1, <3>1, GoReady
  <2>2. Go(h, "expire") \/ Go(h, "setlock") \/ NextKey(h)
    BY <1>3 DEF Increment
  <2> QED
    BY <1>3, <2>1, <2>2, NextKeyReq DEF Increment
<1>4. CASE SetExpiry(h)
  <2>1. ASSUME Go(h, "setlock") PROVE ReqOK'
    <3>1. Ready([req[h] EXCEPT !.pc = "setlock"]) /\ "setlock" \in Steps
      BY <1>0, <1>4 DEF SetExpiry, Ready, Request, Uncounted, Steps
    <3> QED
      BY <2>1, <3>1, GoReady
  <2>2. Go(h, "setlock") \/ NextKey(h)
    BY <1>4 DEF SetExpiry
  <2> QED
    BY <1>4, <2>1, <2>2, NextKeyReq DEF SetExpiry
<1>5. CASE SetLock(h)
  BY <1>5, NextKeyReq DEF SetLock
<1>6. CASE RecordSuccess(h) \/ SetPendingSecret(h) \/ Enable(h) \/ Disable(h) \/ RegenerateRecoveryCodes(h)
  BY <1>6, EndReq DEF RecordSuccess, SetPendingSecret, Enable, Disable, RegenerateRecoveryCodes
<1>7. CASE CheckPassword(h)
  <2>1. Wrong(h) \/ End(h) \/ Go(h, "factor")
    BY <1>7 DEF CheckPassword
  <2> QED
    BY <1>1, <1>7, <2>1, WrongReq, EndReq DEF CheckPassword, Plain
<1>8. CASE AskFactor(h)
  <2>1. End(h) \/ Go(h, "session")
    BY <1>8 DEF AskFactor
  <2> QED
    BY <1>1, <1>8, <2>1, EndReq DEF AskFactor, Plain
<1>9. CASE CreateSession(h)
  <2>1. End(h) \/ Go(h, "success")
    BY <1>9 DEF CreateSession
  <2> QED
    BY <1>1, <1>9, <2>1, EndReq DEF CreateSession, Plain
<1>10. CASE CheckActive(h)
  <2>1. End(h) \/ Go(h, "lock")
    BY <1>10 DEF CheckActive
  <2> QED
    BY <1>1, <1>10, <2>1, EndReq DEF CheckActive, Plain
<1>11. CASE ReadSecret(h)
  <2>1. ASSUME Go(h, "advance"), Validates(req[h].code, users[req[h].user].totp, users[req[h].user].last)
        PROVE  ReqOK'
    <3>1. req[h].code.secret # 0 /\ req[h].code.step > 0
      <4>1. users[req[h].user].last \in Nat /\ req[h].code \in Code
        BY <1>0, <1>11 DEF ReadSecret, Ready, UsersOK, Row, Request
      <4> QED
        BY <2>1, <4>1 DEF Validates, Code
    <3>2. Ready([req[h] EXCEPT !.pc = "advance"]) /\ "advance" \in Steps
      BY <1>0, <1>11, <3>1 DEF ReadSecret, Ready, Request, Uncounted, Steps
    <3> QED
      BY <2>1, <3>2, GoReady
  <2> QED
    BY <1>11, <2>1, WrongReq DEF ReadSecret
<1>12. CASE AdvanceStep(h)
  <2>1. Wrong(h) \/ \E p \in Plain : Go(h, p)
    BY <1>12 DEF AdvanceStep, Confirmed, Plain
  <2> QED
    BY <1>1, <1>12, <2>1, WrongReq DEF AdvanceStep
<1>13. CASE ConsumeRecoveryCode(h)
  <2>1. Wrong(h) \/ \E p \in Plain : Go(h, p)
    BY <1>13 DEF ConsumeRecoveryCode, Confirmed, Plain
  <2> QED
    BY <1>1, <1>13, <2>1, WrongReq DEF ConsumeRecoveryCode
<1>14. CASE CheckStatus(h)
  <2>1. End(h) \/ Go(h, "setpending")
    BY <1>14 DEF CheckStatus
  <2> QED
    BY <1>1, <1>14, <2>1, EndReq DEF CheckStatus, Plain
<1>15. CASE ReadPending(h)
  <2>1. ASSUME Go(h, "enable"), Validates(req[h].code, users[req[h].user].pending, 0)
        PROVE  ReqOK'
    <3>1. req[h].code.secret # 0 /\ req[h].code.step > 0
      BY <1>0, <2>1 DEF Validates, Request, Code
    <3>2. Ready([req[h] EXCEPT !.pc = "enable"]) /\ "enable" \in Steps
      BY <1>0, <1>15, <3>1 DEF ReadPending, Ready, Request, Uncounted, Steps
    <3> QED
      BY <2>1, <3>2, GoReady
  <2> QED
    BY <1>15, <2>1, EndReq DEF ReadPending
<1> QED
  BY <1>2, <1>3, <1>4, <1>5, <1>6, <1>7, <1>8, <1>9, <1>10, <1>11, <1>12, <1>13, <1>14, <1>15
  DEF Guarding

\* The statements on rows and links.
Keeping(h) ==
    \/ FindForSignIn(h) \/ Activate(h) \/ Insert(h) \/ LoadOwn(h)
    \/ \E asked \in BOOLEAN : CheckLastAdmin(h, asked)
    \/ WriteUser(h) \/ WriteServers(h) \/ DeleteUser(h)
    \/ LoadForLink(h) \/ IssueLink(h) \/ Consume(h) \/ SetPassword(h) \/ RevokeAll(h)
    \/ Fail(h)

LEMMA KeepingReq == ASSUME TypeInv, NEW h \in Handler, Keeping(h) PROVE ReqOK'
<1> USE DEF TypeInv
<1>0. req[h] \in Request /\ Ready(req[h])
  BY DEF ReqOK
<1>1. ASSUME req[h].pc # "idle", NEW p \in Plain, Go(h, p) PROVE ReqOK'
  BY <1>1, GoPlain
<1>2. CASE FindForSignIn(h)
  <2> DEFINE a == users[req[h].user]
  <2>0. a \in Row /\ req[h].user \in User
    BY <1>0, <1>2 DEF FindForSignIn, Ready, UsersOK
  <2>1. ASSUME req' = [req EXCEPT ![h] = [req[h] EXCEPT !.pc = "activate", !.pw = a.pw, !.role = a.role]]
        PROVE  ReqOK'
    <3> DEFINE r == [req[h] EXCEPT !.pc = "activate", !.pw = a.pw, !.role = a.role]
    <3>1. r \in Request /\ r.pc = "activate" /\ r.user \in User
      BY <1>0, <2>0 DEF Request, Row, Steps, Plain
    <3> HIDE DEF r
    <3>2. Ready(r)
      BY <3>1 DEF Ready, Uncounted
    <3> QED
      BY <2>1, <3>1, <3>2, ReqStep DEF Shape, r
  <2>2. ASSUME req' = [req EXCEPT ![h].pc = "factor", ![h].pw = a.pw]
        PROVE  ReqOK'
    <3> DEFINE r == [req[h] EXCEPT !.pc = "factor", !.pw = a.pw]
    <3>1. r \in Request /\ r.pc = "factor" /\ r.user \in User
      BY <1>0, <2>0 DEF Request, Row, Steps, Plain
    <3>2. req' = [req EXCEPT ![h] = r]
      BY <2>2 DEF ReqOK
    <3> HIDE DEF r
    <3>3. Ready(r)
      BY <3>1 DEF Ready, Uncounted
    <3> QED
      BY <3>1, <3>2, <3>3, ReqStep DEF Shape
  <2>3. \/ End(h) \/ Go(h, "insert")
        \/ req' = [req EXCEPT ![h] = [req[h] EXCEPT !.pc = "activate", !.pw = a.pw, !.role = a.role]]
        \/ req' = [req EXCEPT ![h].pc = "factor", ![h].pw = a.pw]
    BY <1>2 DEF FindForSignIn
  <2> QED
    BY <1>1, <1>2, <2>1, <2>2, <2>3, EndReq DEF FindForSignIn, Plain
<1>3. CASE Activate(h)
  <2>1. ASSUME req' = Written(h, [req[h] EXCEPT !.pc = "factor"]) PROVE ReqOK'
    <3> DEFINE r == [req[h] EXCEPT !.pc = "factor"]
    <3>1. r \in Request /\ r.pc = "factor" /\ r.user \in User
      BY <1>0, <1>3 DEF Activate, Ready, Request, Steps, Plain
    <3> HIDE DEF r
    <3>2. Ready(r)
      BY <3>1 DEF Ready, Uncounted
    <3> QED
      BY <2>1, <3>1, <3>2, WrittenReq DEF Shape, r
  <2> QED
    BY <1>3, <2>1, EndReq DEF Activate
<1>4. CASE Insert(h)
  <2>1. End(h) \/ \E p \in Plain : Go(h, p)
    BY <1>4 DEF Insert, Plain
  <2> QED
    BY <1>1, <1>4, <2>1, EndReq DEF Insert
<1>5. CASE LoadOwn(h)
  <2> DEFINE a == users[req[h].user]
             r == [req[h] EXCEPT !.pc = "check", !.role = a.role, !.status = a.status]
  <2>1. a \in Row /\ req[h].user \in User /\ req[h].kind = "own"
    BY <1>0, <1>5 DEF LoadOwn, Ready, UsersOK
  <2>2. r \in Request /\ r.pc = "check" /\ r.kind = "own" /\ r.user \in User
    BY <1>0, <2>1 DEF Request, Row, Steps
  <2>3. req' = [req EXCEPT ![h] = r] \/ End(h)
    BY <1>5 DEF LoadOwn
  <2> HIDE DEF r
  <2>4. Ready(r)
    BY <2>2 DEF Ready, Uncounted
  <2> QED
    BY <2>2, <2>3, <2>4, ReqStep, EndReq DEF Shape
<1>6. CASE \E asked \in BOOLEAN : CheckLastAdmin(h, asked)
  <2> DEFINE r(b) == [req[h] EXCEPT !.pc = IF req[h].kind = "delete" THEN "remove" ELSE "write", !.stale = b]
  <2>1. req[h].kind \in {"edit", "own", "delete"} /\ req[h].user \in User
    BY <1>0, <1>6 DEF CheckLastAdmin, Ready
  <2>2. ASSUME NEW b \in BOOLEAN, NEW p \in {"remove", "write"}, p = "remove" <=> req[h].kind = "delete",
               req' = [req EXCEPT ![h].pc = p, ![h].stale = b]
        PROVE  ReqOK'
    <3> DEFINE q == [req[h] EXCEPT !.pc = p, !.stale = b]
    <3>1. q \in Request /\ q.pc = p /\ q.kind = req[h].kind /\ q.user = req[h].user
      BY <1>0 DEF Request, Steps
    <3>2. req' = [req EXCEPT ![h] = q]
      BY <2>2 DEF ReqOK
    <3> HIDE DEF q
    <3>3. Ready(q)
      BY <2>1, <2>2, <3>1 DEF Ready, Uncounted
    <3> QED
      BY <3>1, <3>2, <3>3, ReqStep DEF Shape
  <2>3. req[h].stale \in BOOLEAN
    BY <1>0 DEF Request
  <2>4. \/ End(h)
        \/ \E b \in BOOLEAN, p \in {"remove", "write"} :
              /\ p = "remove" <=> req[h].kind = "delete"
              /\ req' = [req EXCEPT ![h].pc = p, ![h].stale = b]
    BY <1>6, <2>3 DEF CheckLastAdmin
  <2> QED
    BY <2>2, <2>4, EndReq
<1>7. CASE WriteUser(h)
  <2>1. ASSUME req' = Written(h, [req[h] EXCEPT !.pc = "servers"]) PROVE ReqOK'
    <3> DEFINE r == [req[h] EXCEPT !.pc = "servers"]
    <3>1. r \in Request /\ r.pc = "servers" /\ r.user \in User
      BY <1>0, <1>7 DEF WriteUser, Ready, Request, Steps, Plain
    <3> HIDE DEF r
    <3>2. Ready(r)
      BY <3>1 DEF Ready, Uncounted
    <3> QED
      BY <2>1, <3>1, <3>2, WrittenReq DEF Shape, r
  <2> QED
    BY <1>7, <2>1, EndReq DEF WriteUser
<1>8. CASE WriteServers(h)
  <2>1. End(h) \/ Go(h, "revoke")
    BY <1>8 DEF WriteServers
  <2> QED
    BY <1>1, <1>8, <2>1, EndReq DEF WriteServers, Plain
<1>9. CASE DeleteUser(h)
  BY <1>9, WrittenReq, IdleShape, EndReq DEF DeleteUser
<1>10. CASE LoadForLink(h)
  <2>1. ASSUME NEW k \in {"invite", "reset", "forgot", req[h].kind},
               req' = [req EXCEPT ![h].pc = "issue", ![h].kind = k]
        PROVE  ReqOK'
    <3> DEFINE r == [req[h] EXCEPT !.pc = "issue", !.kind = k]
    <3>0. k \in Kinds \cup {"none"}
      BY <1>0, <2>1 DEF Request, Kinds
    <3>1. r \in Request /\ r.pc = "issue" /\ r.user \in User
      BY <1>0, <1>10, <3>0 DEF LoadForLink, Ready, Request, Steps, Plain
    <3>2. req' = [req EXCEPT ![h] = r]
      BY <2>1 DEF ReqOK
    <3> HIDE DEF r
    <3>3. Ready(r)
      BY <3>1 DEF Ready, Uncounted
    <3> QED
      BY <3>1, <3>2, <3>3, ReqStep DEF Shape
  <2>2. End(h) \/ \E k \in {"invite", "reset", "forgot", req[h].kind} :
                     req' = [req EXCEPT ![h].pc = "issue", ![h].kind = k]
    BY <1>10 DEF LoadForLink
  <2> QED
    BY <2>1, <2>2, EndReq
<1>11. CASE IssueLink(h) \/ RevokeAll(h)
  BY <1>11, EndReq DEF IssueLink, RevokeAll
<1>12. CASE Consume(h)
  <2>1. ASSUME Go(h, "setpassword") PROVE ReqOK'
    <3>1. Ready([req[h] EXCEPT !.pc = "setpassword"]) /\ "setpassword" \in Steps
      BY <1>0, <1>12 DEF Consume, Ready, Request, Uncounted, Steps
    <3> QED
      BY <2>1, <3>1, GoReady
  <2> QED
    BY <1>12, <2>1, EndReq DEF Consume
<1>13. CASE SetPassword(h)
  <2>1. ASSUME req' = Written(h, [req[h] EXCEPT !.pc = "revoke"]) PROVE ReqOK'
    <3> DEFINE r == [req[h] EXCEPT !.pc = "revoke"]
    <3>1. r \in Request /\ r.pc = "revoke" /\ r.user \in User
      BY <1>0, <1>13 DEF SetPassword, Ready, Request, Steps, Plain
    <3> HIDE DEF r
    <3>2. Ready(r)
      BY <3>1 DEF Ready, Uncounted
    <3> QED
      BY <2>1, <3>1, <3>2, WrittenReq DEF Shape, r
  <2> QED
    BY <1>13, <2>1, EndReq DEF SetPassword
<1>14. CASE Fail(h)
  <2>1. End(h) \/ \E p \in Plain : Go(h, p)
    BY <1>14 DEF Fail, Plain
  <2> QED
    BY <1>1, <1>14, <2>1, EndReq DEF Fail
<1> QED
  BY <1>2, <1>3, <1>4, <1>5, <1>6, <1>7, <1>8, <1>9, <1>10, <1>11, <1>12, <1>13, <1>14 DEF Keeping

-----------------------------------------------------------------------------
(* The rows, the tables and the counters. *)

\* What leaves the rows alone.
QuietForUsers(h) ==
    \/ Beginning(h)
    \/ CheckLock(h) \/ Increment(h) \/ SetExpiry(h) \/ SetLock(h) \/ RecordSuccess(h)
    \/ CheckPassword(h) \/ AskFactor(h) \/ CreateSession(h) \/ CheckActive(h) \/ ReadSecret(h)
    \/ CheckStatus(h) \/ ReadPending(h) \/ FindForSignIn(h) \/ LoadOwn(h)
    \/ \E asked \in BOOLEAN : CheckLastAdmin(h, asked)
    \/ WriteServers(h) \/ LoadForLink(h) \/ IssueLink(h) \/ Consume(h) \/ RevokeAll(h) \/ Fail(h)

LEMMA QuietUsers == ASSUME NEW h \in Handler, QuietForUsers(h) PROVE users' = users
<1>1. CASE Beginning(h)
  BY <1>1 DEF Beginning, Begin, PasswordSignIn, SecondFactor, ProviderSignIn, OwnFactor, ChangeFactor,
     OwnSave, EditUser, RemoveUser, InviteNewUser, ResetFactor, LinkFor, ForgotPassword, CompletePassword
<1>2. CASE \/ CheckLock(h) \/ Increment(h) \/ SetExpiry(h) \/ SetLock(h) \/ RecordSuccess(h)
           \/ CheckPassword(h) \/ AskFactor(h) \/ CreateSession(h) \/ CheckActive(h) \/ ReadSecret(h)
           \/ CheckStatus(h) \/ ReadPending(h)
  BY <1>2 DEF CheckLock, Increment, SetExpiry, SetLock, RecordSuccess, CheckPassword, AskFactor,
     CreateSession, CheckActive, ReadSecret, CheckStatus, ReadPending
<1>3. CASE \/ FindForSignIn(h) \/ LoadOwn(h) \/ \E asked \in BOOLEAN : CheckLastAdmin(h, asked)
           \/ WriteServers(h) \/ LoadForLink(h) \/ IssueLink(h) \/ Consume(h) \/ RevokeAll(h)
           \/ Fail(h)
  BY <1>3 DEF FindForSignIn, LoadOwn, CheckLastAdmin, WriteServers, LoadForLink, IssueLink, Consume,
     RevokeAll, Fail
<1> QED
  BY <1>1, <1>2, <1>3 DEF QuietForUsers

\* A row is written.
LEMMA RowWritten ==
    ASSUME UsersOK, NEW u \in User, NEW a \in Row, users' \in {users, [users EXCEPT ![u] = a]}
    PROVE  UsersOK'
  BY DEF UsersOK

LEMMA ServeUsers == ASSUME TypeInv, NEW h \in Handler, Serve(h) PROVE UsersOK'
<1> USE DEF TypeInv
<1> DEFINE r == req[h]  u == r.user
<1>0. r \in Request /\ Ready(r)
  BY DEF ReqOK
<1>1. CASE QuietForUsers(h)
  BY <1>1, QuietUsers DEF UsersOK
<1>2. ASSUME r.pc # "idle" PROVE u \in User /\ users[u] \in Row
  BY <1>0, <1>2 DEF Ready, UsersOK
<1>3. CASE AdvanceStep(h)
  BY <1>0, <1>2, <1>3 DEF AdvanceStep, UsersOK, Row, Request, Code
<1>4. CASE ConsumeRecoveryCode(h)
  <2> DEFINE a == [users[u] EXCEPT !.left = FALSE]
  <2>1. u \in User /\ a \in Row
    BY <1>2, <1>4 DEF ConsumeRecoveryCode, Row
  <2>2. users' \in {users, [users EXCEPT ![u] = a]}
    BY <1>4 DEF ConsumeRecoveryCode
  <2> QED
    BY ONLY UsersOK, <2>1, <2>2, RowWritten
<1>5. CASE SetPendingSecret(h)
  BY <1>0, <1>2, <1>5 DEF SetPendingSecret, UsersOK, Row, Request
<1>6. CASE Enable(h)
  BY <1>0, <1>2, <1>6 DEF Enable, UsersOK, Row, Request, Code
<1>7. CASE Disable(h)
  BY <1>0, <1>2, <1>7 DEF Disable, UsersOK, Row
<1>8. CASE RegenerateRecoveryCodes(h)
  BY <1>0, <1>2, <1>8 DEF RegenerateRecoveryCodes, UsersOK, Row, Request
<1>9. CASE Activate(h)
  BY <1>0, <1>2, <1>9 DEF Activate, UsersOK, Row, Request, Role, Status
<1>10. CASE Insert(h)
  <2> DEFINE a(st) == [users[u] EXCEPT !.there = TRUE, !.status = st]
  <2>1. u \in User /\ a("Active") \in Row /\ a("Waiting") \in Row
    BY <1>2, <1>10 DEF Insert, Row, Status
  <2>2. users' \in {users, [users EXCEPT ![u] = a("Active")], [users EXCEPT ![u] = a("Waiting")]}
    BY <1>2, <1>10 DEF Insert, UsersOK
  <2> QED
    BY ONLY UsersOK, <2>1, <2>2, RowWritten
<1>11. CASE WriteUser(h)
  BY <1>0, <1>2, <1>11 DEF WriteUser, UsersOK, Row, Request
<1>12. CASE DeleteUser(h)
  <2>1. u \in User /\ Gone \in Row
    BY <1>2, <1>12 DEF DeleteUser, Row, Gone, NoOne, Role, Status
  <2>2. users' \in {users, [users EXCEPT ![u] = Gone]}
    BY <1>12 DEF DeleteUser
  <2> QED
    BY ONLY UsersOK, <2>1, <2>2, RowWritten
<1>13. CASE SetPassword(h)
  <2>1. Activated(h) \in Status
    BY <1>2, <1>13 DEF SetPassword, Activated, Row, Status
  <2> QED
    BY <1>0, <1>2, <1>13, <2>1 DEF SetPassword, UsersOK, Row, Request
<1> QED
  BY <1>1, <1>3, <1>4, <1>5, <1>6, <1>7, <1>8, <1>9, <1>10, <1>11, <1>12, <1>13
  DEF Serve, QuietForUsers, Beginning

\* What a request leaves of the tables when it only moves on.
QuietForTables(h) ==
    \/ Beginning(h)
    \/ CheckLock(h) \/ Increment(h) \/ SetExpiry(h) \/ SetLock(h) \/ RecordSuccess(h)
    \/ CheckPassword(h) \/ CheckActive(h) \/ ReadSecret(h)
    \/ CheckStatus(h) \/ SetPendingSecret(h) \/ ReadPending(h) \/ Enable(h) \/ Disable(h)
    \/ RegenerateRecoveryCodes(h)
    \/ FindForSignIn(h) \/ Activate(h) \/ Insert(h) \/ LoadOwn(h)
    \/ \E asked \in BOOLEAN : CheckLastAdmin(h, asked)
    \/ WriteServers(h) \/ LoadForLink(h) \/ SetPassword(h) \/ Fail(h)

LEMMA QuietTables ==
    ASSUME NEW h \in Handler, QuietForTables(h)
    PROVE  UNCHANGED <<sessions, links, challenges, spent>>
<1>1. CASE Beginning(h)
  BY <1>1 DEF Beginning, Begin, PasswordSignIn, SecondFactor, ProviderSignIn, OwnFactor, ChangeFactor,
     OwnSave, EditUser, RemoveUser, InviteNewUser, ResetFactor, LinkFor, ForgotPassword, CompletePassword
<1>2. CASE \/ CheckLock(h) \/ Increment(h) \/ SetExpiry(h) \/ SetLock(h) \/ RecordSuccess(h)
           \/ CheckPassword(h) \/ CheckActive(h) \/ ReadSecret(h)
           \/ CheckStatus(h) \/ SetPendingSecret(h) \/ ReadPending(h)
  BY <1>2 DEF CheckLock, Increment, SetExpiry, SetLock, RecordSuccess, CheckPassword,
     CheckActive, ReadSecret, CheckStatus, SetPendingSecret, ReadPending
<1>3. CASE \/ Enable(h) \/ Disable(h) \/ RegenerateRecoveryCodes(h)
           \/ FindForSignIn(h) \/ Activate(h) \/ Insert(h) \/ LoadOwn(h)
           \/ \E asked \in BOOLEAN : CheckLastAdmin(h, asked)
           \/ WriteServers(h) \/ LoadForLink(h) \/ SetPassword(h) \/ Fail(h)
  BY <1>3 DEF Enable, Disable, RegenerateRecoveryCodes, FindForSignIn, Activate, Insert, LoadOwn,
     CheckLastAdmin, WriteServers, LoadForLink, SetPassword, Fail
<1> QED
  BY <1>1, <1>2, <1>3 DEF QuietForTables

LEMMA ServeTables == ASSUME TypeInv, NEW h \in Handler, Serve(h) PROVE TablesOK'
<1> USE DEF TypeInv
<1> DEFINE r == req[h]  u == r.user
<1>0. r \in Request /\ Ready(r)
  BY DEF ReqOK
<1>1. CASE QuietForTables(h)
  BY <1>1, QuietTables DEF TablesOK
<1>2. ASSUME r.pc # "idle" PROVE u \in User
  BY <1>0, <1>2 DEF Ready
<1>3. CASE AskFactor(h)
  BY <1>0, <1>2, <1>3 DEF AskFactor, TablesOK, Request
<1>4. CASE CreateSession(h)
  <2>1. NewSession(r) \in Session
    BY <1>0, <1>2, <1>4 DEF CreateSession, NewSession, Session, Request
  <2> QED
    BY <2>1, <1>4 DEF CreateSession, TablesOK
<1>5. CASE AdvanceStep(h) \/ ConsumeRecoveryCode(h)
  <2>1. Accept(h, "code") \/ spent' = spent
    BY <1>5 DEF AdvanceStep, ConsumeRecoveryCode
  <2>2. UNCHANGED <<sessions, links, challenges>> /\ u \in User
    BY <1>2, <1>5 DEF AdvanceStep, ConsumeRecoveryCode
  <2> DEFINE a == [kind |-> "code", user |-> u, by |-> r.id, code |-> r.code]
  <2>3. Accept(h, "code") => spent' = spent \cup {a}
    BY DEF Accept
  <2>4. a \in Acceptance
    BY <1>0, <2>2 DEF Acceptance, Request
  <2> HIDE DEF a
  <2> QED
    BY <2>1, <2>2, <2>3, <2>4 DEF TablesOK
<1>6. CASE WriteUser(h)
  <2>1. sessions' \in {sessions, {IF s.user = u /\ s.id = r.by /\ r.pw # 0 THEN [s EXCEPT !.pw = r.pw] ELSE s
                                  : s \in sessions}}
    BY <1>6 DEF WriteUser
  <2>2. UNCHANGED <<links, challenges, spent>>
    BY <1>6 DEF WriteUser
  <2>3. \A s \in Session : [s EXCEPT !.pw = r.pw] \in Session
    BY <1>0 DEF Session, Request
  <2> QED
    BY <2>1, <2>2, <2>3 DEF TablesOK
<1>7. CASE DeleteUser(h) \/ RevokeAll(h)
  BY <1>7 DEF DeleteUser, RevokeAll, TablesOK
<1>8. CASE IssueLink(h)
  <2> DEFINE n == [id |-> r.id, user |-> u, purpose |-> Purpose(r.kind), open |-> TRUE]
  <2>1. n \in Link
    BY <1>0, <1>2, <1>8 DEF Purpose, IssueLink, Link, Request
  <2>2. links' \in {links, {IF l.user = u /\ l.purpose = Purpose(r.kind) THEN [l EXCEPT !.open = FALSE] ELSE l
                           : l \in links} \cup {n}}
    BY <1>8 DEF IssueLink
  <2>3. UNCHANGED <<sessions, challenges, spent>>
    BY <1>8 DEF IssueLink
  <2>4. \A l \in Link : [l EXCEPT !.open = FALSE] \in Link
    BY DEF Link
  <2> HIDE DEF n
  <2> QED
    BY <2>1, <2>2, <2>3, <2>4 DEF TablesOK
<1>9. CASE Consume(h)
  <2> DEFINE a == [kind |-> "link", user |-> u, by |-> r.id, code |-> [secret |-> r.link, step |-> 0]]
  <2>1. spent' \in {spent, spent \cup {a}}
    BY <1>9 DEF Consume, Accept
  <2>2. a \in Acceptance
    BY <1>0, <1>2, <1>9 DEF Consume, Acceptance, Request, Code
  <2>3. UNCHANGED <<sessions, challenges>>
    BY <1>9 DEF Consume
  <2>4. links' \in {links, {IF l.id = r.link THEN [l EXCEPT !.open = FALSE] ELSE l : l \in links}}
    BY <1>9 DEF Consume
  <2>5. \A l \in Link : [l EXCEPT !.open = FALSE] \in Link
    BY DEF Link
  <2> HIDE DEF a
  <2> QED
    BY <2>1, <2>2, <2>3, <2>4, <2>5 DEF TablesOK
<1> QED
  BY <1>1, <1>3, <1>4, <1>5, <1>6, <1>7, <1>8, <1>9 DEF Serve, QuietForTables, Beginning

\* The throttle's statements, and the judgements, are all that count.
Judges(h) == CheckPassword(h) \/ ReadSecret(h) \/ AdvanceStep(h) \/ ConsumeRecoveryCode(h)
Throttles(h) == Increment(h) \/ SetExpiry(h) \/ SetLock(h) \/ RecordSuccess(h)

LEMMA QuietThrottle == ASSUME NEW h \in Handler, Serve(h), ~Throttles(h) PROVE throttle' = throttle
<1>1. CASE Beginning(h)
  BY <1>1 DEF Beginning, Begin, PasswordSignIn, SecondFactor, ProviderSignIn, OwnFactor, ChangeFactor,
     OwnSave, EditUser, RemoveUser, InviteNewUser, ResetFactor, LinkFor, ForgotPassword, CompletePassword
<1>2. CASE Guarding(h)
  BY <1>2 DEF Guarding, Throttles, CheckLock, CheckPassword, AskFactor, CreateSession, CheckActive, ReadSecret,
     AdvanceStep, ConsumeRecoveryCode, CheckStatus, SetPendingSecret, ReadPending, Enable, Disable,
     RegenerateRecoveryCodes
<1>3. CASE Keeping(h)
  BY <1>3 DEF Keeping, FindForSignIn, Activate, Insert, LoadOwn, CheckLastAdmin, WriteUser, WriteServers,
     DeleteUser, LoadForLink, IssueLink, Consume, SetPassword, RevokeAll, Fail
<1> QED
  BY <1>1, <1>2, <1>3 DEF Serve, Beginning, Guarding, Keeping

LEMMA QuietGuesses ==
    ASSUME NEW h \in Handler, Serve(h), ~RecordSuccess(h)
    PROVE  guesses' = guesses \/ (Judges(h) /\ Wrong(h))
<1>1. CASE Beginning(h)
  BY <1>1 DEF Beginning, Begin, PasswordSignIn, SecondFactor, ProviderSignIn, OwnFactor, ChangeFactor,
     OwnSave, EditUser, RemoveUser, InviteNewUser, ResetFactor, LinkFor, ForgotPassword, CompletePassword
<1>2. CASE Guarding(h)
  BY <1>2 DEF Guarding, Judges, CheckLock, Increment, SetExpiry, SetLock, CheckPassword, AskFactor, CreateSession,
     CheckActive, ReadSecret, AdvanceStep, ConsumeRecoveryCode, CheckStatus, SetPendingSecret, ReadPending,
     Enable, Disable, RegenerateRecoveryCodes
<1>3. CASE Keeping(h)
  BY <1>3 DEF Keeping, FindForSignIn, Activate, Insert, LoadOwn, CheckLastAdmin, WriteUser, WriteServers,
     DeleteUser, LoadForLink, IssueLink, Consume, SetPassword, RevokeAll, Fail
<1> QED
  BY <1>1, <1>2, <1>3 DEF Serve, Beginning, Guarding, Keeping

LEMMA QuietRest ==
    ASSUME NEW h \in Handler, Serve(h)
    PROVE  /\ clock' = clock /\ kinds' = kinds
           /\ \/ Beginning(h) /\ made' = made + 1
              \/ ~Beginning(h) /\ made' = made
           /\ faults' \in {faults, faults + 1}
<1>1. CASE Beginning(h)
  BY <1>1 DEF Beginning, Begin, PasswordSignIn, SecondFactor, ProviderSignIn, OwnFactor, ChangeFactor,
     OwnSave, EditUser, RemoveUser, InviteNewUser, ResetFactor, LinkFor, ForgotPassword, CompletePassword
<1>2. CASE Guarding(h) /\ ~Beginning(h)
  BY <1>2 DEF Guarding, Others, CheckLock, Increment, SetExpiry, SetLock, RecordSuccess, CheckPassword,
     AskFactor, CreateSession, CheckActive, ReadSecret, AdvanceStep, ConsumeRecoveryCode, CheckStatus,
     SetPendingSecret, ReadPending, Enable, Disable, RegenerateRecoveryCodes
<1>3. CASE Keeping(h) /\ ~Beginning(h)
  BY <1>3 DEF Keeping, Others, FindForSignIn, Activate, Insert, LoadOwn, CheckLastAdmin, WriteUser, WriteServers,
     DeleteUser, LoadForLink, IssueLink, Consume, SetPassword, RevokeAll, Fail
<1> QED
  BY <1>1, <1>2, <1>3 DEF Serve, Beginning, Guarding, Keeping

LEMMA ServeCounters == ASSUME TypeInv, NEW h \in Handler, Serve(h) PROVE CountersOK'
<1> USE DEF TypeInv
<1> DEFINE r == req[h]
<1>0. r \in Request /\ Ready(r)
  BY DEF ReqOK
<1>1. clock' \in Nat \ {0} /\ made' \in Nat \ {0} /\ faults' \in Nat
  BY QuietRest DEF CountersOK
<1>2. throttle' \in [Key -> [n : Nat, ttl : BOOLEAN, lock : BOOLEAN]]
  <2>1. CASE ~Throttles(h)
    BY <2>1, QuietThrottle DEF CountersOK
  <2>2. ASSUME r.pc # "idle" PROVE r.user \in Key /\ r.key \in Key
    BY <1>0, <2>2 DEF Ready, Request
  <2>3. CASE Increment(h)
    BY <2>2, <2>3 DEF Increment, CountersOK
  <2>4. CASE SetExpiry(h)
    <3> DEFINE b == throttle[r.key].n > 0
    <3>1. b \in BOOLEAN
      BY <2>2, <2>4 DEF SetExpiry, CountersOK
    <3>2. throttle' = [throttle EXCEPT ![r.key].ttl = b]
      BY <2>4 DEF SetExpiry
    <3> HIDE DEF b
    <3> QED
      BY <2>2, <2>4, <3>1, <3>2 DEF SetExpiry, CountersOK
  <2>5. CASE SetLock(h)
    BY <2>2, <2>5 DEF SetLock, CountersOK
  <2>6. CASE RecordSuccess(h)
    BY <2>2, <2>6 DEF RecordSuccess, CountersOK
  <2> QED
    BY <2>1, <2>3, <2>4, <2>5, <2>6 DEF Throttles
<1>3. guesses' \in [Key -> Nat]
  <2>1. CASE RecordSuccess(h)
    BY <2>1 DEF CountersOK, RecordSuccess
  <2>2. CASE Wrong(h)
    <3>1. \A k \in Key : guesses[k] + 1 \in Nat /\ guesses[k] + 1 + 1 \in Nat
      BY DEF CountersOK
    <3> QED
      BY <2>2 DEF CountersOK, Wrong
  <2> QED
    BY <2>1, <2>2, QuietGuesses DEF CountersOK
<1> QED
  BY <1>1, <1>2, <1>3 DEF CountersOK

-----------------------------------------------------------------------------
(* Every number is a number, every request can run its next statement.         *)

LEMMA TypeInit == Init => TypeInv
<1> SUFFICES ASSUME Init PROVE TypeInv
  OBVIOUS
<1>1. PICK scene \in Scenes :
        /\ users = scene.users /\ clock = scene.clock /\ kinds = scene.kinds
        /\ sessions = {[id |-> 1, user |-> u, pw |-> users[u].pw, late |-> FALSE] : u \in scene.signed}
  BY DEF Init
<1>2. scene \in [users : [User -> Account], signed : SUBSET User, clock : 1 .. MaxStep, kinds : SUBSET Kinds]
  BY SceneAssumption
<1>3. Account \subseteq Row
  BY DEF Account, Row, Id, Role, Status
<1>4. UsersOK
  BY <1>1, <1>2, <1>3 DEF UsersOK
<1>5. ReqOK
  BY IdleShape DEF Init, ReqOK, Shape
<1>6. TablesOK
  <2>1. \A u \in User : [id |-> 1, user |-> u, pw |-> users[u].pw, late |-> FALSE] \in Session
    BY <1>4 DEF UsersOK, Row, Session
  <2> QED
    BY <1>1, <1>2, <2>1 DEF Init, TablesOK
<1>7. CountersOK
  BY <1>1, <1>2 DEF Init, CountersOK
<1> QED
  BY <1>4, <1>5, <1>6, <1>7 DEF TypeInv

LEMMA TypeStep == TypeInv /\ [Next]_vars => TypeInv'
<1> SUFFICES ASSUME TypeInv, [Next]_vars PROVE TypeInv'
  OBVIOUS
<1>1. ASSUME NEW h \in Handler, Serve(h) PROVE TypeInv'
  <2>1. Beginning(h) \/ Guarding(h) \/ Keeping(h)
    BY <1>1 DEF Serve, Beginning, Guarding, Keeping
  <2> QED
    BY <1>1, <2>1, BeginningReq, GuardingReq, KeepingReq, ServeUsers, ServeTables, ServeCounters DEF TypeInv
<1>2. ASSUME NEW k \in Key, Expire(k) PROVE TypeInv'
  <2>1. CountersOK'
    <3> DEFINE q == [throttle[k] EXCEPT !.n = 0, !.ttl = FALSE]
               p == [throttle[k] EXCEPT !.lock = FALSE]
    <3>0. p \in [n : Nat, ttl : BOOLEAN, lock : BOOLEAN] /\ q \in [n : Nat, ttl : BOOLEAN, lock : BOOLEAN]
      BY ZenonT(60) DEF TypeInv, CountersOK
    <3>1. throttle' = [throttle EXCEPT ![k] = p] \/ throttle' = [throttle EXCEPT ![k] = q]
      BY <1>2 DEF Expire, TypeInv, CountersOK
    <3> HIDE DEF p, q
    <3>2. throttle' \in [Key -> [n : Nat, ttl : BOOLEAN, lock : BOOLEAN]]
      BY <3>0, <3>1 DEF TypeInv, CountersOK
    <3>3. guesses' = [guesses EXCEPT ![k] = 0] /\ UNCHANGED <<clock, made, faults>>
      BY <1>2 DEF Expire, Others
    <3> QED
      BY <3>2, <3>3 DEF TypeInv, CountersOK
  <2>2. UNCHANGED <<users, req, sessions, links, challenges, spent>>
    BY <1>2 DEF Expire
  <2>3. UsersOK' /\ ReqOK' /\ TablesOK'
    BY <2>2 DEF TypeInv, UsersOK, ReqOK, TablesOK
  <2> QED
    BY <2>1, <2>3 DEF TypeInv
<1>3. ASSUME NEW s \in sessions, SignOut(s) PROVE TypeInv'
  BY <1>3 DEF SignOut, Others, TypeInv, UsersOK, ReqOK, TablesOK, CountersOK
<1>4. CASE Tick
  BY <1>4 DEF Tick, Others, TypeInv, UsersOK, ReqOK, TablesOK, CountersOK
<1>5. CASE UNCHANGED vars
  BY <1>5 DEF vars, TypeInv, UsersOK, ReqOK, TablesOK, CountersOK
<1> QED
  BY <1>1, <1>2, <1>3, <1>4, <1>5 DEF Next

\* Every statement finds in its request and in the tables what it works on: a user, a key, a
\* code of its kind.
THEOREM TypeInvHolds == Spec => []TypeInv
  BY TypeInit, TypeStep, PTL DEF Spec

-----------------------------------------------------------------------------
(* What a step leaves as it was. *)

\* The other requests stay, but for the mark of a row that was written under them.
Untouched(g) ==
    \/ req'[g] = req[g]
    \/ req[g].pc \in Writes /\ req'[g] = [req[g] EXCEPT !.stale = TRUE]

LEMMA OthersStay ==
    ASSUME ReqOK, NEW h \in Handler, Serve(h), NEW g \in Handler \ {h}
    PROVE  Untouched(g)
<1>1. CASE \E r : req' = [req EXCEPT ![h] = r]
  BY <1>1 DEF ReqOK, Untouched
<1>2. CASE \E r : req' = Written(h, r)
  BY <1>2 DEF Written, Untouched
<1>3. CASE req' = req
  BY <1>3 DEF Untouched
<1>4. CASE Beginning(h)
  BY <1>1, <1>4 DEF Beginning, Begin, PasswordSignIn, SecondFactor, ProviderSignIn, OwnFactor, ChangeFactor,
     OwnSave, EditUser, RemoveUser, InviteNewUser, ResetFactor, LinkFor, ForgotPassword, CompletePassword
<1>5. ASSUME NEW p, Go(h, p) PROVE Untouched(g)
  BY <1>5 DEF Go, ReqOK, Untouched
<1>6. ASSUME End(h) PROVE Untouched(g)
  BY <1>6 DEF End, ReqOK, Untouched
<1>7. ASSUME Wrong(h) \/ NextKey(h) PROVE Untouched(g)
  BY <1>6, <1>7 DEF Wrong, NextKey, ReqOK, Untouched
<1>8. CASE Guarding(h)
  BY <1>5, <1>6, <1>7, <1>8 DEF Guarding, CheckLock, Increment, SetExpiry, SetLock, RecordSuccess,
     CheckPassword, AskFactor, CreateSession, CheckActive, ReadSecret, AdvanceStep, ConsumeRecoveryCode,
     Confirmed, CheckStatus, SetPendingSecret, ReadPending, Enable, Disable, RegenerateRecoveryCodes
<1>9. CASE FindForSignIn(h) \/ LoadOwn(h) \/ LoadForLink(h) \/ \E asked \in BOOLEAN : CheckLastAdmin(h, asked)
  BY <1>5, <1>6, <1>9 DEF FindForSignIn, LoadOwn, LoadForLink, CheckLastAdmin, ReqOK, Untouched
<1>10. CASE Activate(h) \/ WriteUser(h) \/ DeleteUser(h) \/ SetPassword(h)
  BY <1>2, <1>6, <1>10 DEF Activate, WriteUser, DeleteUser, SetPassword
<1>11. CASE Insert(h) \/ WriteServers(h) \/ IssueLink(h) \/ Consume(h) \/ RevokeAll(h) \/ Fail(h)
  BY <1>5, <1>6, <1>11 DEF Insert, WriteServers, IssueLink, Consume, RevokeAll, Fail
<1> QED
  BY <1>4, <1>8, <1>9, <1>10, <1>11 DEF Serve, Beginning, Guarding

\* A request in flight keeps its number, its user, its code and its link until it ends.
Moved(h) ==
    \/ req'[h] = Idle
    \/ /\ req[h].pc # "idle" /\ req'[h].pc # "idle"
       /\ req'[h].id = req[h].id /\ req'[h].user = req[h].user /\ req'[h].by = req[h].by
       /\ req'[h].code = req[h].code /\ req'[h].link = req[h].link

LEMMA InFlightMoves ==
    ASSUME ReqOK, NEW h \in Handler, Guarding(h) \/ Keeping(h)
    PROVE  Moved(h) /\ req[h].pc # "idle"
<1>0. req[h] \in Request
  BY DEF ReqOK
<1>1. ASSUME req[h].pc # "idle", NEW p \in Steps \ {"idle"}, Go(h, p) PROVE Moved(h)
  BY <1>0, <1>1 DEF Go, ReqOK, Request, Moved
<1>2. ASSUME End(h) PROVE Moved(h)
  BY <1>2 DEF End, ReqOK, Moved
<1>3. ASSUME req[h].pc # "idle", Wrong(h) \/ NextKey(h) PROVE Moved(h)
  BY <1>0, <1>2, <1>3 DEF Wrong, NextKey, ReqOK, Request, Moved
<1>4. CASE CheckLock(h) \/ Increment(h) \/ SetExpiry(h) \/ SetLock(h) \/ RecordSuccess(h)
  BY <1>1, <1>2, <1>3, <1>4 DEF CheckLock, Increment, SetExpiry, SetLock, RecordSuccess, Steps, Plain
<1>5. CASE CheckPassword(h) \/ AskFactor(h) \/ CreateSession(h) \/ CheckActive(h) \/ ReadSecret(h)
  BY <1>1, <1>2, <1>3, <1>5 DEF CheckPassword, AskFactor, CreateSession, CheckActive, ReadSecret, Steps, Plain
<1>6. CASE AdvanceStep(h) \/ ConsumeRecoveryCode(h)
  BY <1>1, <1>2, <1>3, <1>6 DEF AdvanceStep, ConsumeRecoveryCode, Confirmed, Steps, Plain
<1>7. CASE \/ CheckStatus(h) \/ SetPendingSecret(h) \/ ReadPending(h) \/ Enable(h) \/ Disable(h)
           \/ RegenerateRecoveryCodes(h)
  BY <1>1, <1>2, <1>7 DEF CheckStatus, SetPendingSecret, ReadPending, Enable, Disable,
     RegenerateRecoveryCodes, Steps, Plain
<1>8. CASE FindForSignIn(h)
  <2>1. ASSUME req' = [req EXCEPT ![h] = [req[h] EXCEPT !.pc = "activate", !.pw = users[req[h].user].pw,
                                                        !.role = users[req[h].user].role]]
        PROVE  Moved(h)
    BY <1>0, <1>8, <2>1 DEF FindForSignIn, ReqOK, Request, Moved
  <2>2. ASSUME req' = [req EXCEPT ![h].pc = "factor", ![h].pw = users[req[h].user].pw]
        PROVE  Moved(h)
    BY <1>0, <1>8, <2>2 DEF FindForSignIn, ReqOK, Request, Moved
  <2> QED
    BY <1>1, <1>2, <1>8, <2>1, <2>2 DEF FindForSignIn, Steps, Plain
<1>9. CASE LoadOwn(h) \/ LoadForLink(h)
  <2>1. ASSUME req[h].pc # "idle", NEW k, req' = [req EXCEPT ![h].pc = "issue", ![h].kind = k] PROVE Moved(h)
    BY <1>0, <2>1 DEF ReqOK, Request, Moved
  <2>2. ASSUME req[h].pc # "idle", NEW role, NEW status,
               req' = [req EXCEPT ![h] = [req[h] EXCEPT !.pc = "check", !.role = role, !.status = status]]
        PROVE  Moved(h)
    BY <1>0, <2>2 DEF ReqOK, Request, Moved
  <2>3. CASE LoadOwn(h)
    BY <1>2, <2>2, <2>3 DEF LoadOwn
  <2>4. CASE LoadForLink(h)
    BY <1>2, <2>1, <2>4 DEF LoadForLink
  <2> QED
    BY <1>9, <2>3, <2>4
<1>10. CASE \E asked \in BOOLEAN : CheckLastAdmin(h, asked)
  BY <1>0, <1>2, <1>10 DEF CheckLastAdmin, ReqOK, Request, Moved
<1>11. CASE Activate(h) \/ WriteUser(h) \/ DeleteUser(h) \/ SetPassword(h)
  <2>1. ASSUME req[h].pc # "idle", NEW p \in Steps \ {"idle"}, req' = Written(h, [req[h] EXCEPT !.pc = p])
        PROVE  Moved(h)
    BY <1>0, <2>1 DEF Written, Request, Moved
  <2>2. ASSUME req' = Written(h, Idle) PROVE Moved(h)
    BY <2>2 DEF Written, Moved
  <2> QED
    BY <1>2, <1>11, <2>1, <2>2 DEF Activate, WriteUser, DeleteUser, SetPassword, Steps, Plain
<1>12. CASE Insert(h) \/ WriteServers(h) \/ IssueLink(h) \/ Consume(h) \/ RevokeAll(h) \/ Fail(h)
  BY <1>1, <1>2, <1>12 DEF Insert, WriteServers, IssueLink, Consume, RevokeAll, Fail, Steps, Plain
<1>13. req[h].pc # "idle"
  BY DEF Guarding, Keeping, CheckLock, Increment, SetExpiry, SetLock, RecordSuccess,
     CheckPassword, AskFactor, CreateSession, CheckActive, ReadSecret, AdvanceStep, ConsumeRecoveryCode,
     CheckStatus, SetPendingSecret, ReadPending, Enable, Disable, RegenerateRecoveryCodes,
     FindForSignIn, Activate, Insert, LoadOwn, CheckLastAdmin, WriteUser, WriteServers, DeleteUser,
     LoadForLink, IssueLink, Consume, SetPassword, RevokeAll, Fail
<1> QED
  BY <1>4, <1>5, <1>6, <1>7, <1>8, <1>9, <1>10, <1>11, <1>12, <1>13 DEF Guarding, Keeping

\* What a request may bring: it starts with a first statement, holds no stale row, and its
\* code was made by an earlier request, if it has one.
Firsts == {"lock", "active", "find", "status", "pending", "load", "check", "disable", "insert", "link",
           "consume"}
Known(n) == n = 0 \/ \E u \in User : n \in {users[u].totp, users[u].pending, users[u].codes}
Fresh(r) ==
    /\ r.pc \in Firsts /\ ~r.stale /\ Known(r.code.secret)
    /\ (r.pc = "check" /\ r.kind = "own") => Active(r.user) /\ r.status = users[r.user].status

LEMMA OfferedKnown ==
    ASSUME NEW u \in User, NEW n \in {users[u].totp, users[u].pending}, NEW code \in Offered(u, n)
    PROVE  Known(code.secret)
  BY DEF Offered, Known, NoCode

LEMMA BeginNew ==
    ASSUME TypeInv, NEW h \in Handler, Beginning(h)
    PROVE  /\ req[h].pc = "idle" /\ made' = made + 1
           /\ UNCHANGED <<users, links, sessions, challenges, throttle, clock, spent, guesses, excuse>>
           /\ \E r : req' = [req EXCEPT ![h] = r] /\ r.id = made + 1 /\ Fresh(r)
<1> DEFINE New(kind, r) == [r EXCEPT !.kind = kind, !.id = made + 1]
<1>1. ASSUME NEW kind, NEW r, Begin(h, kind, r), New(kind, r).id = made + 1, Fresh(New(kind, r))
      PROVE  /\ req[h].pc = "idle" /\ made' = made + 1
             /\ UNCHANGED <<users, links, sessions, challenges, throttle, clock, spent, guesses, excuse>>
             /\ \E q : req' = [req EXCEPT ![h] = q] /\ q.id = made + 1 /\ Fresh(q)
  BY <1>1 DEF Begin
<1> USE DEF Fresh, Firsts
<1>0. Known(NoCode.secret) /\ \A s \in sessions : s.user \in User
  BY DEF Known, NoCode, TypeInv, TablesOK, Session
<1>2. CASE PasswordSignIn(h)
  <2>1. PICK u \in User, known \in BOOLEAN :
          Begin(h, "login", [Idle EXCEPT !.pc = "lock", !.user = u, !.pw = IF known THEN users[u].pw ELSE 0])
    BY <1>2 DEF PasswordSignIn
  <2> QED
    BY <1>0, <1>1, <2>1 DEF Idle
<1>3. CASE SecondFactor(h)
  <2>1. PICK c \in challenges : \E code \in Offered(c.user, users[c.user].totp) :
          Begin(h, "mfa", [Idle EXCEPT !.pc = "active", !.user = c.user, !.pw = c.pw, !.code = code])
    BY <1>3 DEF SecondFactor
  <2>2. PICK code \in Offered(c.user, users[c.user].totp) :
          Begin(h, "mfa", [Idle EXCEPT !.pc = "active", !.user = c.user, !.pw = c.pw, !.code = code])
    BY <2>1
  <2>3. Known(code.secret)
    BY OfferedKnown DEF TypeInv, TablesOK
  <2> QED
    BY <1>1, <2>2, <2>3 DEF Idle
<1>4. CASE ProviderSignIn(h)
  <2>1. PICK u \in User : Begin(h, "oauth", [Idle EXCEPT !.pc = "find", !.user = u])
    BY <1>4 DEF ProviderSignIn
  <2> QED
    BY <1>0, <1>1, <2>1 DEF Idle
<1>5. CASE OwnFactor(h)
  <2>1. PICK s \in sessions :
          \/ Begin(h, "setup", [Idle EXCEPT !.pc = "status", !.user = s.user])
          \/ \E code \in Offered(s.user, users[s.user].pending) :
               Begin(h, "enable", [Idle EXCEPT !.pc = "pending", !.user = s.user, !.code = code])
    BY <1>5 DEF OwnFactor
  <2>2. CASE Begin(h, "setup", [Idle EXCEPT !.pc = "status", !.user = s.user])
    BY <1>0, <1>1, <2>2 DEF Idle
  <2>3. ASSUME NEW code \in Offered(s.user, users[s.user].pending),
               Begin(h, "enable", [Idle EXCEPT !.pc = "pending", !.user = s.user, !.code = code])
        PROVE  \E q : req' = [req EXCEPT ![h] = q] /\ q.id = made + 1 /\ Fresh(q)
    <3>1. Known(code.secret)
      BY <1>0, OfferedKnown
    <3> QED
      BY <1>1, <2>3, <3>1 DEF Idle
  <2> QED
    BY <2>1, <2>2, <2>3 DEF Begin
<1>6. CASE ChangeFactor(h)
  <2>1. PICK s \in sessions, kind \in {"disable", "regenerate"} :
          \E code \in Offered(s.user, users[s.user].totp) :
            Begin(h, kind, [Idle EXCEPT !.pc = "lock", !.user = s.user, !.code = code])
    BY <1>6 DEF ChangeFactor
  <2>2. PICK code \in Offered(s.user, users[s.user].totp) :
          Begin(h, kind, [Idle EXCEPT !.pc = "lock", !.user = s.user, !.code = code])
    BY <2>1
  <2>3. Known(code.secret)
    BY <1>0, OfferedKnown
  <2> QED
    BY <1>1, <2>2, <2>3 DEF Idle
<1>7. CASE OwnSave(h)
  <2>1. PICK s \in sessions, change \in BOOLEAN :
          /\ BySession(s)
          /\ Begin(h, "own", [Idle EXCEPT !.user = s.user, !.by = s.id, !.pw = IF change THEN made + 1 ELSE 0,
                              !.pc = IF IsAdmin(s.user) THEN "check" ELSE "load",
                              !.role = users[s.user].role, !.status = users[s.user].status])
    BY <1>7 DEF OwnSave
  <2> QED
    BY <1>0, <1>1, <2>1, ZenonT(60) DEF Idle, BySession
<1>8. CASE EditUser(h)
  <2>1. PICK u \in User, edit \in Edits, n \in {0, made + 1} :
          Begin(h, "edit", [Idle EXCEPT !.pc = "check", !.user = u, !.role = edit.role,
                            !.status = edit.status, !.pw = n])
    BY <1>8 DEF EditUser
  <2> QED
    BY <1>0, <1>1, <2>1, ZenonT(60) DEF Idle
<1>9. CASE RemoveUser(h)
  <2>1. PICK u \in User : Begin(h, "delete", [Idle EXCEPT !.pc = "check", !.user = u])
    BY <1>9 DEF RemoveUser
  <2> QED
    BY <1>0, <1>1, <2>1 DEF Idle
<1>10. CASE InviteNewUser(h)
  <2>1. PICK u \in User : Begin(h, "create", [Idle EXCEPT !.pc = "insert", !.user = u])
    BY <1>10 DEF InviteNewUser
  <2> QED
    BY <1>0, <1>1, <2>1 DEF Idle
<1>11. CASE ResetFactor(h)
  <2>1. PICK u \in User : Begin(h, "adminreset", [Idle EXCEPT !.pc = "disable", !.user = u])
    BY <1>11 DEF ResetFactor
  <2> QED
    BY <1>0, <1>1, <2>1 DEF Idle
<1>12. CASE LinkFor(h) \/ ForgotPassword(h)
  <2>1. PICK u \in User, kind \in {"invite", "reset", "forgot"} :
          Begin(h, kind, [Idle EXCEPT !.pc = "link", !.user = u])
    BY <1>12 DEF LinkFor, ForgotPassword
  <2> QED
    BY <1>0, <1>1, <2>1 DEF Idle
<1>13. CASE CompletePassword(h)
  <2>1. PICK l \in links :
          Begin(h, "complete", [Idle EXCEPT !.pc = "consume", !.user = l.user, !.link = l.id,
                                !.pw = made + 1])
    BY <1>13 DEF CompletePassword
  <2> QED
    BY <1>0, <1>1, <2>1 DEF Idle
<1> QED
  BY <1>2, <1>3, <1>4, <1>5, <1>6, <1>7, <1>8, <1>9, <1>10, <1>11, <1>12, <1>13 DEF Beginning

\* Role, state and password of a row change in five statements only.
Standing(u) == <<users[u].there, users[u].role, users[u].status, users[u].pw>>
Rows(h) == Activate(h) \/ Insert(h) \/ WriteUser(h) \/ DeleteUser(h) \/ SetPassword(h)

LEMMA StandingStays ==
    ASSUME TypeInv, NEW h \in Handler, Serve(h), ~Rows(h), NEW u \in User
    PROVE  Standing(u)' = Standing(u)
<1>0. users[u] \in Row /\ users \in [User -> Row]
  BY DEF TypeInv, UsersOK
<1>1. CASE QuietForUsers(h)
  BY <1>1, QuietUsers DEF Standing
<1>2. CASE AdvanceStep(h) \/ ConsumeRecoveryCode(h)
  BY <1>0, <1>2 DEF AdvanceStep, ConsumeRecoveryCode, Standing, Row
<1>3. CASE SetPendingSecret(h)
  BY <1>0, <1>3 DEF SetPendingSecret, Standing, Row
<1>4. CASE Enable(h)
  BY <1>0, <1>4 DEF Enable, Standing, Row
<1>5. CASE Disable(h)
  BY <1>0, <1>5 DEF Disable, Standing, Row
<1>6. CASE RegenerateRecoveryCodes(h)
  BY <1>0, <1>6 DEF RegenerateRecoveryCodes, Standing, Row
<1> QED
  BY <1>1, <1>2, <1>3, <1>4, <1>5, <1>6 DEF Serve, Rows, QuietForUsers, Beginning

LEMMA ExcuseGrows == ASSUME NEW h \in Handler, Serve(h) PROVE excuse \subseteq excuse'
<1>1. CASE Beginning(h)
  BY <1>1 DEF Beginning, Begin, PasswordSignIn, SecondFactor, ProviderSignIn, OwnFactor, ChangeFactor,
     OwnSave, EditUser, RemoveUser, InviteNewUser, ResetFactor, LinkFor, ForgotPassword, CompletePassword
<1>2. CASE Guarding(h)
  BY <1>2 DEF Guarding, Others, Rewinds, CheckLock, Increment, SetExpiry, SetLock, RecordSuccess, CheckPassword,
     AskFactor, CreateSession, CheckActive, ReadSecret, AdvanceStep, ConsumeRecoveryCode, CheckStatus,
     SetPendingSecret, ReadPending, Enable, Disable, RegenerateRecoveryCodes
<1>3. CASE Keeping(h)
  BY <1>3 DEF Keeping, Others, Raced, FindForSignIn, Activate, Insert, LoadOwn, CheckLastAdmin, WriteUser,
     WriteServers, DeleteUser, LoadForLink, IssueLink, Consume, SetPassword, RevokeAll, Fail
<1> QED
  BY <1>1, <1>2, <1>3 DEF Serve, Beginning, Guarding, Keeping

LEMMA QuietSessions ==
    ASSUME NEW h \in Handler, Serve(h),
           ~(CreateSession(h) \/ WriteUser(h) \/ DeleteUser(h) \/ RevokeAll(h))
    PROVE  sessions' = sessions
<1>1. CASE QuietForTables(h)
  BY <1>1, QuietTables
<1>2. CASE AskFactor(h) \/ AdvanceStep(h) \/ ConsumeRecoveryCode(h) \/ IssueLink(h) \/ Consume(h)
  BY <1>2 DEF AskFactor, AdvanceStep, ConsumeRecoveryCode, IssueLink, Consume
<1> QED
  BY <1>1, <1>2 DEF Serve, QuietForTables, Beginning

\* The statement a request stands before tells which statement it has just run.
Arrives(h) ==
    /\ req'[h].pc \in {"write", "remove"} => \E asked \in BOOLEAN : CheckLastAdmin(h, asked)
    /\ req'[h].pc = "activate" => FindForSignIn(h)
    /\ req'[h].pc = "check" => Beginning(h) \/ LoadOwn(h)
    /\ req'[h].pc = "advance" => ReadSecret(h)
    /\ req'[h].pc = "enable" => ReadPending(h)
    /\ req'[h].pc \in {"password", "secret", "recover"} => CheckLock(h) \/ Fail(h)

LEMMA ComesFrom == ASSUME TypeInv, NEW h \in Handler, Serve(h) PROVE Arrives(h)
<1>0. req[h] \in Request
  BY DEF TypeInv, ReqOK
<1>1. ASSUME NEW p, Go(h, p) PROVE req'[h].pc = p
  BY <1>0, <1>1 DEF Go, TypeInv, ReqOK, Request
<1>2. ASSUME End(h) PROVE Arrives(h)
  BY <1>2 DEF End, TypeInv, ReqOK, Arrives, Idle
<1>3. ASSUME Wrong(h) \/ NextKey(h) PROVE Arrives(h)
  BY <1>0, <1>2, <1>3 DEF Wrong, NextKey, TypeInv, ReqOK, Request, Arrives
<1>4. CASE Beginning(h)
  <2>1. PICK r : req' = [req EXCEPT ![h] = r] /\ Fresh(r)
    BY <1>4, BeginNew
  <2> QED
    BY <1>4, <2>1 DEF TypeInv, ReqOK, Fresh, Firsts, Arrives
<1>5. CASE CheckLock(h) \/ Increment(h) \/ SetExpiry(h) \/ SetLock(h) \/ RecordSuccess(h)
  BY <1>1, <1>2, <1>3, <1>5 DEF CheckLock, Increment, SetExpiry, SetLock, RecordSuccess, Arrives
<1>6. CASE CheckPassword(h) \/ AskFactor(h) \/ CreateSession(h) \/ CheckActive(h) \/ ReadSecret(h)
  BY <1>1, <1>2, <1>3, <1>6 DEF CheckPassword, AskFactor, CreateSession, CheckActive, ReadSecret, Arrives
<1>7. CASE AdvanceStep(h) \/ ConsumeRecoveryCode(h)
  BY <1>1, <1>2, <1>3, <1>7 DEF AdvanceStep, ConsumeRecoveryCode, Confirmed, Arrives
<1>8. CASE \/ CheckStatus(h) \/ SetPendingSecret(h) \/ ReadPending(h) \/ Enable(h) \/ Disable(h)
           \/ RegenerateRecoveryCodes(h)
  BY <1>1, <1>2, <1>8 DEF CheckStatus, SetPendingSecret, ReadPending, Enable, Disable,
     RegenerateRecoveryCodes, Arrives
<1>9. CASE FindForSignIn(h)
  <2>1. ASSUME req' = [req EXCEPT ![h].pc = "factor", ![h].pw = users[req[h].user].pw]
        PROVE  req'[h].pc = "factor"
    BY <1>0, <2>1 DEF TypeInv, ReqOK, Request
  <2>2. ASSUME NEW pw, NEW role, req' = [req EXCEPT ![h] = [req[h] EXCEPT !.pc = "activate", !.pw = pw, !.role = role]]
        PROVE  req'[h].pc = "activate"
    BY <1>0, <2>2 DEF TypeInv, ReqOK, Request
  <2> QED
    BY <1>1, <1>2, <1>9, <2>1, <2>2 DEF FindForSignIn, Arrives
<1>10. CASE LoadForLink(h)
  <2>1. ASSUME NEW k, req' = [req EXCEPT ![h].pc = "issue", ![h].kind = k] PROVE req'[h].pc = "issue"
    BY <1>0, <2>1 DEF TypeInv, ReqOK, Request
  <2> QED
    BY <1>2, <1>10, <2>1 DEF LoadForLink, Arrives
<1>11. CASE LoadOwn(h)
  <2>1. ASSUME NEW role, NEW status,
               req' = [req EXCEPT ![h] = [req[h] EXCEPT !.pc = "check", !.role = role, !.status = status]]
        PROVE  req'[h].pc = "check"
    BY <1>0, <2>1 DEF TypeInv, ReqOK, Request
  <2> QED
    BY <1>2, <1>11, <2>1 DEF LoadOwn, Arrives
<1>12. CASE \E asked \in BOOLEAN : CheckLastAdmin(h, asked)
  <2>1. ASSUME NEW p \in {"remove", "write"}, NEW b, req' = [req EXCEPT ![h].pc = p, ![h].stale = b]
        PROVE  req'[h].pc = p
    BY <1>0, <2>1 DEF TypeInv, ReqOK, Request
  <2>2. End(h) \/ \E p \in {"remove", "write"}, b \in BOOLEAN : req' = [req EXCEPT ![h].pc = p, ![h].stale = b]
    BY <1>0, <1>12 DEF CheckLastAdmin, Request
  <2> QED
    BY <1>2, <1>12, <2>1, <2>2 DEF Arrives
<1>13. CASE Activate(h) \/ WriteUser(h) \/ DeleteUser(h) \/ SetPassword(h)
  <2>1. ASSUME NEW p, req' = Written(h, [req[h] EXCEPT !.pc = p]) PROVE req'[h].pc = p
    BY <1>0, <2>1 DEF Written, Request
  <2>2. ASSUME req' = Written(h, Idle) PROVE Arrives(h)
    BY <2>2 DEF Written, Idle, Arrives
  <2> QED
    BY <1>2, <1>13, <2>1, <2>2 DEF Activate, WriteUser, DeleteUser, SetPassword, Arrives
<1>14. CASE Insert(h) \/ WriteServers(h) \/ IssueLink(h) \/ Consume(h) \/ RevokeAll(h)
  BY <1>1, <1>2, <1>14 DEF Insert, WriteServers, IssueLink, Consume, RevokeAll, Arrives
<1>15. CASE Fail(h)
  <2>1. End(h) \/ \E p \in {"password", "secret", "recover"} : Go(h, p)
    BY <1>15 DEF Fail
  <2> QED
    BY <1>1, <1>2, <1>15, <2>1 DEF Arrives
<1> QED
  BY <1>4, <1>5, <1>6, <1>7, <1>8, <1>9, <1>10, <1>11, <1>12, <1>13, <1>14, <1>15 DEF Serve, Beginning

-----------------------------------------------------------------------------
(* Requests carry the numbers from 2 on, each its own. *)

Numbered ==
    /\ \A h \in Handler : req[h].pc # "idle" => req[h].id > 1 /\ req[h].id <= made
    /\ \A g, h \in Handler :
          req[g].pc # "idle" /\ req[h].pc # "idle" /\ req[g].id = req[h].id => g = h

LEMMA NumberedStep == TypeInv /\ Numbered /\ [Next]_vars => Numbered'
<1> SUFFICES ASSUME TypeInv, Numbered, [Next]_vars PROVE Numbered'
  OBVIOUS
<1>0. made \in Nat \ {0} /\ req \in [Handler -> Request]
  BY DEF TypeInv, CountersOK, ReqOK
<1>1. ASSUME NEW h \in Handler, Serve(h) PROVE Numbered'
  <2>1. \A g \in Handler \ {h} : req'[g].pc = req[g].pc /\ req'[g].id = req[g].id
    <3>1. \A g \in Handler : [req[g] EXCEPT !.stale = TRUE].pc = req[g].pc
                             /\ [req[g] EXCEPT !.stale = TRUE].id = req[g].id
      BY <1>0 DEF Request
    <3> QED
      BY <1>1, <3>1, OthersStay DEF TypeInv, Untouched
  <2>2. CASE Beginning(h)
    <3>1. made' = made + 1 /\ req[h].pc = "idle" /\ req'[h].id = made + 1
      BY <1>0, <2>2, BeginNew
    <3> QED
      BY <1>0, <2>1, <3>1 DEF Numbered, Request
  <2>3. CASE Guarding(h) \/ Keeping(h)
    <3>1. Moved(h) /\ req[h].pc # "idle"
      BY <2>3, InFlightMoves DEF TypeInv
    <3>2. made' \in {made, made + 1}
      BY <1>1, QuietRest
    <3> QED
      BY <1>0, <2>1, <3>1, <3>2 DEF Numbered, Request, Moved, Idle
  <2> QED
    BY <1>1, <2>2, <2>3 DEF Serve, Beginning, Guarding, Keeping
<1>2. CASE UNCHANGED <<req, made>>
  BY <1>2 DEF Numbered
<1> QED
  BY <1>1, <1>2 DEF Next, Expire, SignOut, Tick, Others, vars

-----------------------------------------------------------------------------
(* Sessions follow the password: a session that does not is one that a request  *)
(* which has written a new password is about to revoke.                         *)

Revoking(h, s) ==
    /\ req[h].user = s.user /\ req[h].pc \in {"servers", "revoke"} /\ req[h].pw # 0
    /\ s.id # req[h].by

Follows(s) ==
    \/ s.pw = users[s.user].pw \/ s.late \/ "unrevoked" \in excuse
    \/ \E h \in Handler : Revoking(h, s)

FollowInv == \A s \in sessions : s.id # 0 /\ Follows(s)

\* The one who revokes goes on until he has revoked.
LEMMA RevokerStays ==
    ASSUME TypeInv, NEW h \in Handler, Serve(h), ~RevokeAll(h), NEW s, NEW g \in Handler, Revoking(g, s)
    PROVE  Revoking(g, s)' \/ "unrevoked" \in excuse'
<1>0. req \in [Handler -> Request] /\ req[g] \in Request
  BY DEF TypeInv, ReqOK
<1>1. CASE g # h
  <2>1. Untouched(g)
    BY <1>1, OthersStay DEF TypeInv
  <2> QED
    BY <1>0, <2>1 DEF Untouched, Revoking, Writes
<1>2. CASE g = h
  <2>1. WriteServers(h) \/ Fail(h)
    <3>1. ~Beginning(h)
      BY <1>2, BeginNew DEF Revoking
    <3>2. ~Guarding(h)
      BY <1>2 DEF Revoking, Guarding, CheckLock, Increment, SetExpiry, SetLock, RecordSuccess, CheckPassword,
         AskFactor, CreateSession, CheckActive, ReadSecret, AdvanceStep, ConsumeRecoveryCode, CheckStatus,
         SetPendingSecret, ReadPending, Enable, Disable, RegenerateRecoveryCodes
    <3>3. Keeping(h)
      BY <3>1, <3>2 DEF Serve, Beginning, Guarding, Keeping
    <3> QED
      BY <1>2, <3>3 DEF Revoking, Keeping, FindForSignIn, Activate, Insert, LoadOwn, CheckLastAdmin, WriteUser,
         DeleteUser, LoadForLink, IssueLink, Consume, SetPassword
  <2>2. CASE WriteServers(h)
    BY <1>0, <1>2, <2>2 DEF WriteServers, Go, Revoking, Request
  <2>3. CASE Fail(h)
    BY <1>2, <2>3 DEF Fail, Revoking
  <2> QED
    BY <2>1, <2>2, <2>3
<1> QED
  BY <1>1, <1>2

LEMMA FollowServe ==
    ASSUME TypeInv, Numbered, FollowInv, NEW h \in Handler, Serve(h)
    PROVE  FollowInv'
<1> USE DEF TypeInv
<1> DEFINE r == req[h]  u == r.user
<1>0. /\ req \in [Handler -> Request] /\ r \in Request /\ Ready(r)
      /\ users \in [User -> Row] /\ sessions \subseteq Session
  BY DEF ReqOK, UsersOK, TablesOK
<1>1. excuse \subseteq excuse'
  BY ExcuseGrows
<1>2. ASSUME NEW s \in sessions, s.pw = users[s.user].pw => s.pw = users'[s.user].pw, ~RevokeAll(h)
      PROVE  Follows(s)'
  BY <1>1, <1>2, RevokerStays DEF FollowInv, Follows
<1>3. CASE sessions' = sessions /\ ~Rows(h) /\ ~RevokeAll(h)
  <2>1. \A s \in sessions : users'[s.user].pw = users[s.user].pw
    BY <1>0, <1>3, StandingStays DEF Standing, Session
  <2> QED
    BY <1>2, <1>3, <2>1 DEF FollowInv
<1>4. CASE CreateSession(h)
  <2>1. users' = users /\ ~RevokeAll(h)
    BY <1>4 DEF CreateSession, RevokeAll
  <2>2. r.pc # "idle" /\ r.id # 0
    BY <1>0, <1>4 DEF CreateSession, Numbered, Request
  <2>3. sessions' \subseteq sessions \cup {NewSession(r)}
    BY <1>4 DEF CreateSession
  <2>4. ASSUME NEW n, n = NewSession(r) PROVE n.id # 0 /\ Follows(n)'
    <3>1. n.id # 0 /\ (n.pw = users[n.user].pw \/ n.late)
      BY <2>2, <2>4 DEF NewSession
    <3> QED
      BY <2>1, <3>1 DEF Follows
  <2>5. \A s \in sessions : s.id # 0 /\ Follows(s)'
    BY <1>2, <2>1 DEF FollowInv
  <2> QED
    BY <2>3, <2>4, <2>5 DEF FollowInv
<1>5. CASE RevokeAll(h)
  <2>1. sessions' = {s \in sessions : s.user # u \/ s.id = r.by} /\ users' = users
    BY <1>5 DEF RevokeAll
  <2>2. ASSUME NEW s \in sessions', NEW g \in Handler, Revoking(g, s) PROVE Revoking(g, s)'
    <3>1. g # h
      BY <2>1, <2>2 DEF Revoking
    <3>2. Untouched(g)
      BY <3>1, OthersStay
    <3> QED
      BY <1>0, <2>2, <3>2 DEF Untouched, Revoking, Writes
  <2> QED
    BY <1>1, <2>1, <2>2 DEF FollowInv, Follows
<1>6. CASE Activate(h) \/ Insert(h)
  <2>1. sessions' = sessions /\ ~RevokeAll(h)
    BY <1>6 DEF Activate, Insert, RevokeAll
  <2>2. \A v \in User : users'[v].pw = users[v].pw
    BY <1>0, <1>6 DEF Activate, Insert, Row
  <2> QED
    BY <1>0, <1>2, <2>1, <2>2 DEF FollowInv, Session
<1>7. CASE DeleteUser(h)
  <2>1. \/ sessions' = sessions /\ users' = users
        \/ sessions' = {s \in sessions : s.user # u} /\ users' = [users EXCEPT ![u] = Gone]
    BY <1>7 DEF DeleteUser
  <2>2. ~RevokeAll(h)
    BY <1>7 DEF DeleteUser, RevokeAll
  <2>3. ASSUME NEW s \in sessions' PROVE s \in sessions /\ users'[s.user].pw = users[s.user].pw
    <3>1. s \in sessions /\ (users' = users \/ (s.user # u /\ users' = [users EXCEPT ![u] = Gone]))
      BY <2>1
    <3>2. s.user \in User
      BY <1>0, <3>1 DEF Session
    <3> QED
      BY <1>0, <3>1, <3>2
  <2> QED
    BY <1>2, <2>2, <2>3 DEF FollowInv
<1>8. CASE SetPassword(h)
  <2>1. sessions' = sessions /\ ~RevokeAll(h) /\ r.pc = "setpassword"
    BY <1>8 DEF SetPassword, RevokeAll
  <2>2. CASE users' = users
    BY <1>2, <2>1, <2>2 DEF FollowInv
  <2>3. CASE users[u].there
    <3>1. u \in User /\ r.by = 0 /\ r.pw # 0
      BY <1>0, <2>1 DEF Ready
    <3>2. req'[h].user = u /\ req'[h].pc = "revoke" /\ req'[h].pw = r.pw /\ req'[h].by = r.by
      BY <1>0, <1>8, <2>3 DEF SetPassword, Written, Request
    <3>3. \A s \in sessions : s.user = u => Revoking(h, s)'
      BY <3>1, <3>2 DEF FollowInv, Revoking
    <3>4. \A s \in sessions : s.user # u => users'[s.user] = users[s.user]
      BY <1>0, <1>8, <2>3 DEF SetPassword, Session
    <3> QED
      BY <1>2, <2>1, <3>3, <3>4 DEF FollowInv, Follows
  <2> QED
    BY <1>8, <2>2, <2>3 DEF SetPassword
<1>9. CASE WriteUser(h)
  <2>1. ~RevokeAll(h) /\ r.pc = "write"
    BY <1>9 DEF WriteUser, RevokeAll
  <2>2. CASE ~users[u].there
    BY <1>2, <1>9, <2>1, <2>2 DEF FollowInv, WriteUser
  <2>3. CASE users[u].there
    <3> DEFINE m(s) == IF s.user = u /\ s.id = r.by /\ r.pw # 0 THEN [s EXCEPT !.pw = r.pw] ELSE s
    <3>1. u \in User
      BY <1>0, <2>1 DEF Ready
    <3>2. req'[h].user = u /\ req'[h].pc = "servers" /\ req'[h].pw = r.pw /\ req'[h].by = r.by
      BY <1>0, <1>9, <2>3 DEF WriteUser, Written, Request
    <3>3. /\ users'[u].pw = IF r.pw = 0 THEN users[u].pw ELSE r.pw
          /\ \A v \in User \ {u} : users'[v] = users[v]
      BY <1>0, <1>9, <2>3, <3>1 DEF WriteUser, Row
    <3>4. sessions' = {m(s) : s \in sessions}
      BY <1>9, <2>3 DEF WriteUser
    <3>5. ASSUME NEW s \in sessions, NEW t, t = m(s) PROVE t.id # 0 /\ Follows(t)'
      <4>0. s \in Session /\ s.id # 0 /\ s.user \in User
        BY <1>0 DEF FollowInv, Session
      <4>1. CASE s.user # u \/ r.pw = 0
        <5>1. t = s /\ (s.pw = users[s.user].pw => s.pw = users'[s.user].pw)
          BY <3>3, <3>5, <4>0, <4>1
        <5> QED
          BY <1>2, <2>1, <4>0, <5>1
      <4>2. CASE s.user = u /\ r.pw # 0 /\ s.id # r.by
        BY <3>2, <3>5, <4>0, <4>2 DEF Follows, Revoking
      <4>3. CASE s.user = u /\ r.pw # 0 /\ s.id = r.by
        <5>1. t.id = s.id /\ t.user = u /\ t.pw = r.pw
          BY <3>5, <4>0, <4>3 DEF Session
        <5> QED
          BY <3>3, <4>0, <4>3, <5>1 DEF Follows
      <4> QED
        BY <4>1, <4>2, <4>3
    <3> HIDE DEF m
    <3> QED
      BY <3>4, <3>5 DEF FollowInv
  <2> QED
    BY <2>2, <2>3
<1> QED
  BY <1>3, <1>4, <1>5, <1>6, <1>7, <1>8, <1>9, QuietSessions DEF Rows

\* However requests overlap, a session that outlives a change of password is one that signed in
\* with the new one, came from the change itself or overlapped it.
THEOREM SessionsFollowPasswordHolds == Spec => []SessionsFollowPassword
<1>1. Init => TypeInv /\ Numbered /\ FollowInv
  <2> SUFFICES ASSUME Init PROVE Numbered /\ FollowInv
    BY TypeInit
  <2>1. Numbered
    BY DEF Init, Numbered, Idle
  <2>2. FollowInv
    BY DEF Init, FollowInv, Follows
  <2> QED
    BY <2>1, <2>2
<1>2. TypeInv /\ Numbered /\ FollowInv /\ [Next]_vars => FollowInv'
  <2> SUFFICES ASSUME TypeInv, Numbered, FollowInv, [Next]_vars PROVE FollowInv'
    OBVIOUS
  <2>1. CASE \E h \in Handler : Serve(h)
    BY <2>1, FollowServe
  <2>2. CASE sessions' \subseteq sessions /\ UNCHANGED <<users, req, excuse>>
    BY <2>2 DEF FollowInv, Follows, Revoking
  <2> QED
    BY <2>1, <2>2 DEF Next, Expire, SignOut, Tick, Others, vars
<1>3. FollowInv => SessionsFollowPassword
  BY DEF FollowInv, Follows, Revoking, SessionsFollowPassword
<1> QED
  BY <1>1, <1>2, <1>3, TypeStep, NumberedStep, PTL DEF Spec

-----------------------------------------------------------------------------
(* Rows: what a request has read of one still holds when it writes, unless it is *)
(* stale.                                                                        *)

\* A change that was let through leaves an Admin; a user a provider vouches for still waits.
AdminSafe(h) ==
    ~req[h].stale =>
       /\ req[h].pc \in {"write", "remove"} =>
             ~LastActiveAdmin(req[h].user, req[h].role, req[h].status, req[h].kind = "delete")
       /\ req[h].pc = "activate" => ~IsAdmin(req[h].user)

AdminInv ==
    \/ excuse \cap {"raced", "unasked"} # {}
    \/ (\E u \in User : IsAdmin(u)) /\ \A h \in Handler : AdminSafe(h)

\* A request the rows of which are as they were is as safe as before.
LEMMA SafeStays ==
    ASSUME TypeInv, NEW h \in Handler, AdminSafe(h),
           req'[h].stale \/ (/\ req'[h] = req[h]
                             /\ \A u \in User : (~IsAdmin(u))' = ~IsAdmin(u))
    PROVE  AdminSafe(h)'
<1>1. CASE req'[h].stale
  BY <1>1 DEF AdminSafe
<1>2. CASE req'[h] = req[h] /\ \A u \in User : (~IsAdmin(u))' = ~IsAdmin(u)
  <2>1. req[h].pc # "idle" => req[h].user \in User
    BY DEF TypeInv, ReqOK, Ready
  <2> QED
    BY <1>2, <2>1 DEF AdminSafe, LastActiveAdmin
<1> QED
  BY <1>1, <1>2

LEMMA AdminServe == ASSUME TypeInv, AdminInv, NEW h \in Handler, Serve(h) PROVE AdminInv'
<1> USE DEF TypeInv
<1> DEFINE r == req[h]  u == r.user
<1>0. /\ req \in [Handler -> Request] /\ r \in Request /\ Ready(r)
      /\ users \in [User -> Row]
  BY DEF ReqOK, UsersOK
<1>1. excuse \subseteq excuse'
  BY ExcuseGrows
<1>2. CASE excuse \cap {"raced", "unasked"} # {}
  BY <1>1, <1>2 DEF AdminInv
<1>3. SUFFICES ASSUME excuse' \cap {"raced", "unasked"} = {}
      PROVE  (\E v \in User : IsAdmin(v)') /\ \A g \in Handler : AdminSafe(g)'
  BY DEF AdminInv
<1>4. (\E v \in User : IsAdmin(v)) /\ \A g \in Handler : AdminSafe(g)
  BY <1>1, <1>3 DEF AdminInv
<1>5. CASE ~Rows(h) \/ Insert(h)
  <2>1. \A v \in User : (~IsAdmin(v))' = ~IsAdmin(v)
    <3>1. CASE ~Rows(h)
      BY <3>1, StandingStays DEF Standing, IsAdmin, Active
    <3>2. CASE Insert(h)
      BY <1>0, <3>2 DEF Insert, IsAdmin, Active, NoOne, Row
    <3> QED
      BY <1>5, <3>1, <3>2
  <2>2. \E v \in User : IsAdmin(v)'
    BY <1>4, <2>1
  <2>3. ASSUME NEW g \in Handler \ {h} PROVE AdminSafe(g)'
    <3>1. Untouched(g)
      BY OthersStay
    <3>2. req[g] \in Request
      BY <1>0
    <3>3. req'[g].stale \/ req'[g] = req[g]
      BY <3>1, <3>2 DEF Untouched, Request
    <3> QED
      BY <1>4, <2>1, <3>3, SafeStays
  <2>4. AdminSafe(h)'
    <3>1. CASE \E asked \in BOOLEAN : CheckLastAdmin(h, asked)
      <4>1. PICK asked \in BOOLEAN : CheckLastAdmin(h, asked)
        BY <3>1
      <4>2. asked /\ users' = users
        BY <1>3, <4>1 DEF CheckLastAdmin
      <4>3. CASE End(h)
        BY <1>0, <4>3 DEF End, AdminSafe, Idle
      <4>4. CASE ~LastActiveAdmin(u, r.role, r.status, r.kind = "delete") /\ ~End(h)
        <5>1. req'[h].user = u /\ req'[h].role = r.role /\ req'[h].status = r.status /\ req'[h].kind = r.kind
              /\ req'[h].pc # "activate"
          BY <1>0, <4>1, <4>4 DEF CheckLastAdmin, Request
        <5> QED
          BY <4>2, <4>4, <5>1 DEF AdminSafe, LastActiveAdmin, IsAdmin, Active
      <4> QED
        BY <4>1, <4>2, <4>3, <4>4 DEF CheckLastAdmin
    <3>2. CASE FindForSignIn(h)
      <4>1. u \in User /\ users' = users
        BY <1>0, <3>2 DEF FindForSignIn, Ready
      <4>2. CASE req'[h].pc = "activate"
        <5>1. users[u].status = "Waiting" /\ req'[h].user = u
          <6>1. ASSUME NEW p \in {"insert"}, Go(h, p) PROVE FALSE
            BY <1>0, <4>2, <6>1 DEF Go, Request
          <6>2. ~End(h)
            BY <1>0, <4>2 DEF End, Idle
          <6>3. ~(req' = [req EXCEPT ![h].pc = "factor", ![h].pw = users[u].pw])
            BY <1>0, <4>2 DEF Request
          <6>4. /\ users[u].status = "Waiting"
                /\ req' = [req EXCEPT ![h] = [r EXCEPT !.pc = "activate", !.pw = users[u].pw, !.role = users[u].role]]
            BY <3>2, <6>1, <6>2, <6>3 DEF FindForSignIn
          <6> QED
            BY <1>0, <6>4 DEF Request
        <5> QED
          BY <4>1, <4>2, <5>1 DEF AdminSafe, IsAdmin, Active
      <4>3. CASE req'[h].pc # "activate"
        BY <3>2, <4>3, ComesFrom DEF Arrives, AdminSafe, FindForSignIn, CheckLastAdmin
      <4> QED
        BY <4>2, <4>3
    <3> QED
      BY <3>1, <3>2, ComesFrom DEF Arrives, AdminSafe
  <2> QED
    BY <2>2, <2>3, <2>4
<1>6. CASE users' = users /\ End(h)
  <2>1. \A v \in User : (~IsAdmin(v))' = ~IsAdmin(v)
    BY <1>6 DEF IsAdmin, Active
  <2>2. AdminSafe(h)' /\ \A g \in Handler \ {h} : req'[g] = req[g]
    BY <1>0, <1>6 DEF End, AdminSafe, Idle
  <2> QED
    BY <1>4, <2>1, <2>2, SafeStays
<1>7. ASSUME users[u].there, NEW q, req' = Written(h, q), q.pc \notin {"write", "remove", "activate"},
             \E v \in User : IsAdmin(v)'
      PROVE  \A g \in Handler : AdminSafe(g)'
  <2>1. AdminSafe(h)'
    BY <1>7 DEF Written, AdminSafe
  <2>2. ASSUME NEW g \in Handler \ {h} PROVE AdminSafe(g)'
    <3>1. req[g] \in Request
      BY <1>0
    <3>2. CASE req[g].pc \in Writes
      BY <1>7, <3>1, <3>2 DEF Written, AdminSafe, Request
    <3>3. CASE req[g].pc \notin Writes
      BY <1>7, <3>1, <3>3 DEF Written, AdminSafe, Writes
    <3> QED
      BY <3>2, <3>3
  <2> QED
    BY <2>1, <2>2
<1>8. ASSUME u \in User, \A v \in User \ {u} : users'[v] = users[v], \E v \in User \ {u} : IsAdmin(v)
      PROVE  \E v \in User : IsAdmin(v)'
  BY <1>8 DEF IsAdmin, Active
<1>9. CASE Activate(h) /\ users[u].there
  <2>1. r.pc = "activate" /\ u \in User /\ ~r.stale
    BY <1>0, <1>3, <1>9 DEF Activate, Raced, Ready
  <2>2. \E v \in User \ {u} : IsAdmin(v)
    BY <1>4, <2>1 DEF AdminSafe
  <2>3. \A v \in User \ {u} : users'[v] = users[v]
    BY <1>0, <1>9 DEF Activate
  <2>4. [r EXCEPT !.pc = "factor"].pc = "factor"
    BY <1>0 DEF Request
  <2>5. req' = Written(h, [r EXCEPT !.pc = "factor"])
    BY <1>9 DEF Activate
  <2> QED
    BY <1>7, <1>8, <1>9, <2>1, <2>2, <2>3, <2>4, <2>5
<1>10. CASE WriteUser(h) /\ users[u].there
  <2>1. r.pc = "write" /\ u \in User /\ ~r.stale /\ r.kind # "delete"
    BY <1>0, <1>3, <1>10 DEF WriteUser, Raced, Ready
  <2>2. ~LastActiveAdmin(u, r.role, r.status, FALSE)
    BY <1>4, <2>1 DEF AdminSafe
  <2>3. /\ \A v \in User \ {u} : users'[v] = users[v]
        /\ users'[u].there /\ users'[u].role = r.role /\ users'[u].status = r.status
    BY <1>0, <1>10, <2>1 DEF WriteUser, Row
  <2>4. \E v \in User : IsAdmin(v)'
    <3>1. CASE \E v \in User \ {u} : IsAdmin(v)
      BY <1>8, <2>1, <2>3, <3>1
    <3>2. CASE IsAdmin(u) /\ ~\E v \in User \ {u} : IsAdmin(v)
      <4>1. r.role = "Admin" /\ r.status = "Active"
        BY <2>2, <3>2 DEF LastActiveAdmin
      <4> QED
        BY <2>1, <2>3, <4>1 DEF IsAdmin, Active
    <3> QED
      BY <1>4, <3>1, <3>2
  <2>5. [r EXCEPT !.pc = "servers"].pc = "servers"
    BY <1>0 DEF Request
  <2>6. req' = Written(h, [r EXCEPT !.pc = "servers"])
    BY <1>10 DEF WriteUser
  <2> QED
    BY <1>7, <1>10, <2>4, <2>5, <2>6
<1>11. CASE DeleteUser(h) /\ users[u].there
  <2>1. r.pc = "remove" /\ u \in User /\ ~r.stale /\ r.kind = "delete"
    BY <1>0, <1>3, <1>11 DEF DeleteUser, Raced, Ready
  <2>2. ~LastActiveAdmin(u, r.role, r.status, TRUE)
    BY <1>4, <2>1 DEF AdminSafe
  <2>3. \E v \in User \ {u} : IsAdmin(v)
    BY <1>4, <2>2 DEF LastActiveAdmin
  <2>4. \A v \in User \ {u} : users'[v] = users[v]
    BY <1>0, <1>11 DEF DeleteUser
  <2>5. req' = Written(h, Idle) /\ Idle.pc = "idle"
    BY <1>11 DEF DeleteUser, Idle
  <2> QED
    BY <1>7, <1>8, <1>11, <2>1, <2>3, <2>4, <2>5
<1>12. CASE SetPassword(h) /\ users[u].there
  <2>1. r.pc = "setpassword" /\ u \in User
    BY <1>0, <1>12 DEF SetPassword, Ready
  <2>2. \A v \in User \ {u} : users'[v] = users[v]
    BY <1>0, <1>12 DEF SetPassword
  <2>3. ASSUME NEW v \in User, v = u, IsAdmin(v) PROVE IsAdmin(v)'
    BY <1>0, <1>12, <2>1, <2>3 DEF SetPassword, Activated, IsAdmin, Active, Row
  <2>4. \E v \in User : IsAdmin(v)'
    <3>1. PICK v \in User : IsAdmin(v)
      BY <1>4
    <3>2. CASE v = u
      BY <2>3, <3>1, <3>2
    <3>3. CASE v # u
      BY <2>2, <3>1, <3>3 DEF IsAdmin, Active
    <3> QED
      BY <3>2, <3>3
  <2>5. [r EXCEPT !.pc = "revoke"].pc = "revoke"
    BY <1>0 DEF Request
  <2>6. req' = Written(h, [r EXCEPT !.pc = "revoke"])
    BY <1>12 DEF SetPassword
  <2> QED
    BY <1>7, <1>12, <2>4, <2>5, <2>6
<1> QED
  BY <1>5, <1>6, <1>9, <1>10, <1>11, <1>12 DEF Rows, Activate, WriteUser, DeleteUser, SetPassword

\* However requests overlap, the panel keeps an active Admin, unless two changes overlapped or the
\* check was skipped.
THEOREM AnAdminRemainsHolds == Spec => []AnAdminRemains
<1>1. Init => AdminInv
  <2> SUFFICES ASSUME Init PROVE (\E u \in User : IsAdmin(u)) /\ \A h \in Handler : AdminSafe(h)
    BY DEF AdminInv
  <2>1. PICK scene \in Scenes : users = scene.users
    BY DEF Init
  <2>2. \E u \in User : IsAdmin(u)
    BY <2>1, SceneAssumption DEF IsAdmin, Active
  <2> QED
    BY <2>2 DEF Init, AdminSafe, Idle
<1>2. TypeInv /\ AdminInv /\ [Next]_vars => AdminInv'
  <2> SUFFICES ASSUME TypeInv, AdminInv, [Next]_vars PROVE AdminInv'
    OBVIOUS
  <2>1. CASE \E h \in Handler : Serve(h)
    BY <2>1, AdminServe
  <2>2. CASE UNCHANGED <<users, req, excuse>>
    BY <2>2 DEF AdminInv, AdminSafe, LastActiveAdmin, IsAdmin, Active
  <2> QED
    BY <2>1, <2>2 DEF Next, Expire, SignOut, Tick, Others, vars
<1>3. AdminInv => AnAdminRemains
  BY DEF AdminInv, AnAdminRemains
<1> QED
  BY <1>1, <1>2, <1>3, TypeInit, TypeStep, PTL DEF Spec

-----------------------------------------------------------------------------
(* A block is lifted by an Admin's save, or by a request that read the row before. *)

BlockSafe(h) ==
    ~req[h].stale =>
       /\ req[h].pc = "activate" => users[req[h].user].there /\ users[req[h].user].status = "Waiting"
       /\ req[h].pc \in {"check", "write"} /\ req[h].kind = "own" =>
             users[req[h].user].there /\ users[req[h].user].status = req[h].status

BlockInv == \A h \in Handler : BlockSafe(h)

LEMMA BlockServe == ASSUME TypeInv, BlockInv, NEW h \in Handler, Serve(h) PROVE BlockInv'
<1> USE DEF TypeInv
<1> DEFINE r == req[h]  u == r.user
<1>0. /\ req \in [Handler -> Request] /\ r \in Request /\ Ready(r)
      /\ users \in [User -> Row]
  BY DEF ReqOK, UsersOK
<1>1. ASSUME NEW g \in Handler, req'[g] = req[g],
             req[g].pc \in {"activate", "check", "write"} =>
                \A v \in User : users[v].there => users'[v].there /\ users'[v].status = users[v].status
      PROVE  BlockSafe(g)'
  <2>1. req[g].pc # "idle" => req[g].user \in User
    BY DEF ReqOK, Ready
  <2>2. CASE req[g].stale \/ req[g].pc \notin {"activate", "check", "write"}
    BY <1>1, <2>2 DEF BlockSafe
  <2>3. CASE ~req[g].stale /\ req[g].pc \in {"activate", "check", "write"}
    <3> DEFINE w == req[g].user
    <3>1. w \in User /\ (users[w].there => users'[w].there /\ users'[w].status = users[w].status)
      BY <1>1, <2>1, <2>3
    <3>2. BlockSafe(g)
      BY DEF BlockInv
    <3> QED
      BY <1>1, <2>3, <3>1, <3>2 DEF BlockSafe
  <2> QED
    BY <2>2, <2>3
<1>2. ASSUME NEW g \in Handler \ {h} PROVE BlockSafe(g)'
  <2>0. req[g] \in Request
    BY <1>0
  <2>1. Untouched(g)
    BY OthersStay
  <2>2. CASE req'[g] # req[g]
    BY <2>0, <2>1, <2>2 DEF Untouched, BlockSafe, Request
  <2>3. CASE req'[g] = req[g] /\ (~Rows(h) \/ Insert(h))
    <3>1. \A v \in User : users[v].there => users'[v].there /\ users'[v].status = users[v].status
      <4>1. CASE ~Rows(h)
        BY <4>1, StandingStays DEF Standing
      <4>2. CASE Insert(h)
        BY <1>0, <4>2 DEF Insert, NoOne
      <4> QED
        BY <2>3, <4>1, <4>2
    <3> QED
      BY <1>1, <2>3, <3>1
  <2>4. CASE req'[g] = req[g] /\ (Activate(h) \/ WriteUser(h) \/ DeleteUser(h) \/ SetPassword(h))
    <3>1. CASE users' = users
      BY <1>1, <2>4, <3>1
    <3>2. CASE \E q : req' = Written(h, q)
      BY <2>0, <2>4, <3>2 DEF Written, Writes, BlockSafe, Request
    <3> QED
      BY <2>4, <3>1, <3>2 DEF Activate, WriteUser, DeleteUser, SetPassword
  <2> QED
    BY <2>2, <2>3, <2>4 DEF Rows
<1>3. BlockSafe(h)'
  <2>1. CASE req'[h].pc = "activate"
    <3>1. FindForSignIn(h)
      BY <2>1, ComesFrom DEF Arrives
    <3>2. u \in User /\ users' = users
      BY <1>0, <3>1 DEF FindForSignIn, Ready
    <3>3. /\ users[u].status = "Waiting" /\ users[u].there
          /\ req' = [req EXCEPT ![h] = [r EXCEPT !.pc = "activate", !.pw = users[u].pw, !.role = users[u].role]]
      <4>1. ASSUME NEW p \in {"insert"}, Go(h, p) PROVE FALSE
        BY <1>0, <2>1, <4>1 DEF Go, Request
      <4>2. ~End(h)
        BY <1>0, <2>1 DEF End, Idle
      <4>3. ~(req' = [req EXCEPT ![h].pc = "factor", ![h].pw = users[u].pw])
        BY <1>0, <2>1 DEF Request
      <4> QED
        BY <3>1, <4>1, <4>2, <4>3 DEF FindForSignIn
    <3>4. req'[h].user = u
      BY <1>0, <3>3 DEF Request
    <3> QED
      BY <2>1, <3>2, <3>3, <3>4 DEF BlockSafe
  <2>2. CASE req'[h].pc = "check"
    <3>1. CASE Beginning(h)
      <4>1. PICK q : req' = [req EXCEPT ![h] = q] /\ Fresh(q)
        BY <3>1, BeginNew
      <4>2. req'[h] = q /\ users' = users
        BY <1>0, <3>1, <4>1, BeginNew
      <4> QED
        BY <2>2, <4>1, <4>2 DEF Fresh, Active, BlockSafe
    <3>2. CASE LoadOwn(h)
      <4>1. users' = users /\ ~End(h)
        BY <1>0, <2>2, <3>2 DEF LoadOwn, End, Idle
      <4>2. /\ users[u].there
            /\ req' = [req EXCEPT ![h] = [r EXCEPT !.pc = "check", !.role = users[u].role,
                                                   !.status = users[u].status]]
        BY <3>2, <4>1 DEF LoadOwn
      <4>3. req'[h].user = u /\ req'[h].status = users[u].status
        BY <1>0, <4>2 DEF Request
      <4> QED
        BY <2>2, <4>1, <4>2, <4>3 DEF BlockSafe
    <3> QED
      BY <2>2, <3>1, <3>2, ComesFrom DEF Arrives
  <2>3. CASE req'[h].pc = "write"
    <3>1. PICK asked \in BOOLEAN : CheckLastAdmin(h, asked)
      BY <2>3, ComesFrom DEF Arrives
    <3>2. ~End(h) /\ users' = users /\ r.pc = "check"
      BY <1>0, <2>3, <3>1 DEF CheckLastAdmin, End, Idle
    <3>3. req' = [req EXCEPT ![h].pc = IF r.kind = "delete" THEN "remove" ELSE "write",
                             ![h].stale = r.kind = "own" /\ @]
      BY <3>1, <3>2 DEF CheckLastAdmin
    <3>4. /\ req'[h].user = u /\ req'[h].status = r.status /\ req'[h].kind = r.kind
          /\ req'[h].stale = (r.kind = "own" /\ r.stale)
      BY <1>0, <3>3 DEF Request
    <3> QED
      BY <2>3, <3>2, <3>4 DEF BlockInv, BlockSafe
  <2> QED
    BY <2>1, <2>2, <2>3 DEF BlockSafe
<1> QED
  BY <1>2, <1>3 DEF BlockInv

\* The step itself.
Lifts(u) == users[u].there /\ users[u].status = "Block" /\ users'[u].status # "Block"
MayLift(h, u) ==
    req[h].user = u /\ req[h].pc \in {"write", "activate"} /\ (req[h].kind = "edit" \/ req[h].stale)

LEMMA BlockStep ==
    ASSUME TypeInv, BlockInv, NEW h \in Handler, Serve(h), NEW v \in User, Lifts(v)
    PROVE  MayLift(h, v)
<1> USE DEF TypeInv
<1> DEFINE r == req[h]  u == r.user
<1>0. /\ req \in [Handler -> Request] /\ r \in Request /\ Ready(r)
      /\ users \in [User -> Row]
  BY DEF ReqOK, UsersOK
<1>1. CASE ~Rows(h)
  BY <1>1, StandingStays DEF Standing, Lifts
<1>2. CASE Insert(h)
  BY <1>0, <1>2 DEF Insert, Lifts, NoOne
<1>3. CASE SetPassword(h)
  BY <1>0, <1>3 DEF SetPassword, Activated, Lifts, Row
<1>4. CASE DeleteUser(h)
  BY <1>0, <1>4 DEF DeleteUser, Gone, Lifts, NoOne
<1>5. CASE Activate(h)
  BY <1>0, <1>5 DEF Activate, Lifts, MayLift, BlockInv, BlockSafe, Row
<1>6. CASE WriteUser(h)
  <2>1. u = v /\ users'[v].status = r.status /\ r.pc = "write"
    BY <1>0, <1>6 DEF WriteUser, Lifts, Row
  <2>2. r.kind \in {"edit", "own"}
    BY <1>0, <2>1 DEF Ready
  <2> QED
    BY <2>1, <2>2 DEF BlockInv, BlockSafe, MayLift, Lifts
<1> QED
  BY <1>1, <1>2, <1>3, <1>4, <1>5, <1>6 DEF Rows

\* Links, invitations, providers and one's own save leave a blocked user blocked, unless the row
\* was read before the block.
THEOREM BlockSticksHolds == Spec => BlockSticks
<1>1. Init => BlockInv
  BY DEF Init, BlockInv, BlockSafe, Idle
<1>2. TypeInv /\ BlockInv /\ [Next]_vars => BlockInv'
  <2> SUFFICES ASSUME TypeInv, BlockInv, [Next]_vars PROVE BlockInv'
    OBVIOUS
  <2>1. CASE \E h \in Handler : Serve(h)
    BY <2>1, BlockServe
  <2>2. CASE UNCHANGED <<users, req>>
    BY <2>2 DEF BlockInv, BlockSafe
  <2> QED
    BY <2>1, <2>2 DEF Next, Expire, SignOut, Tick, Others, vars
<1>3. TypeInv /\ BlockInv /\ [Next]_vars =>
        [\A u \in User : users[u].there /\ users[u].status = "Block" /\ users'[u].status # "Block" =>
            \E h \in Handler : /\ req[h].user = u /\ req[h].pc \in {"write", "activate"}
                               /\ req[h].kind = "edit" \/ req[h].stale]_vars
  <2> SUFFICES ASSUME TypeInv, BlockInv, Next, NEW u \in User, Lifts(u)
               PROVE  \E h \in Handler : MayLift(h, u)
    BY DEF Lifts, MayLift, vars
  <2>1. CASE \E h \in Handler : Serve(h)
    BY <2>1, BlockStep
  <2>2. CASE users' = users
    BY <2>2 DEF Lifts
  <2> QED
    BY <2>1, <2>2 DEF Next, Expire, SignOut, Tick
<1> QED
  BY <1>1, <1>2, <1>3, TypeInit, TypeStep, PTL DEF Spec, BlockSticks

-----------------------------------------------------------------------------
(* Every secret, set of codes and link carries the number of a request that has  *)
(* ended, so a new one is never taken for an old one.                            *)

\* The columns of the second factor change in seven statements only.
Factor(u) == <<users[u].totp, users[u].pending, users[u].last, users[u].codes, users[u].left>>
Factors(h) ==
    \/ AdvanceStep(h) \/ ConsumeRecoveryCode(h) \/ SetPendingSecret(h) \/ Enable(h) \/ Disable(h)
    \/ RegenerateRecoveryCodes(h) \/ DeleteUser(h)

LEMMA FactorStays ==
    ASSUME TypeInv, NEW h \in Handler, Serve(h), ~Factors(h), NEW u \in User
    PROVE  Factor(u)' = Factor(u) /\ (users[u] = Gone => users'[u] = Gone)
<1>0. users[u] \in Row /\ users \in [User -> Row]
  BY DEF TypeInv, UsersOK
<1>1. CASE QuietForUsers(h)
  BY <1>1, QuietUsers DEF Factor
<1>2. CASE Activate(h)
  BY <1>0, <1>2 DEF Activate, Factor, Row, Gone, NoOne
<1>3. CASE Insert(h)
  BY <1>0, <1>3 DEF Insert, Factor, Row, Gone, NoOne
<1>4. CASE WriteUser(h)
  BY <1>0, <1>4 DEF WriteUser, Factor, Row, Gone, NoOne
<1>5. CASE SetPassword(h)
  BY <1>0, <1>5 DEF SetPassword, Factor, Row, Gone, NoOne
<1> QED
  BY <1>1, <1>2, <1>3, <1>4, <1>5 DEF Serve, Factors, QuietForUsers, Beginning

Old(n) == n <= made /\ \A h \in Handler : req[h].pc # "idle" => req[h].id # n

LEMMA OldStays ==
    ASSUME TypeInv, Numbered, NEW h \in Handler, Serve(h), NEW n \in Nat, Old(n)
    PROVE  Old(n)'
<1>0. made \in Nat \ {0} /\ req \in [Handler -> Request]
  BY DEF TypeInv, CountersOK, ReqOK
<1>1. \A g \in Handler \ {h} : req'[g].pc = req[g].pc /\ req'[g].id = req[g].id
  <2>1. \A g \in Handler : /\ [req[g] EXCEPT !.stale = TRUE].pc = req[g].pc
                           /\ [req[g] EXCEPT !.stale = TRUE].id = req[g].id
    BY <1>0 DEF Request
  <2> QED
    BY <2>1, OthersStay DEF TypeInv, Untouched
<1>2. CASE Beginning(h)
  <2>1. made' = made + 1 /\ req'[h].id = made + 1
    BY <1>0, <1>2, BeginNew
  <2> QED
    BY <1>0, <1>1, <2>1 DEF Old, Request
<1>3. CASE Guarding(h) \/ Keeping(h)
  <2>1. Moved(h) /\ req[h].pc # "idle"
    BY <1>3, InFlightMoves DEF TypeInv
  <2>2. made' \in {made, made + 1}
    BY QuietRest
  <2> QED
    BY <1>0, <1>1, <2>1, <2>2 DEF Old, Request, Moved, Idle
<1> QED
  BY <1>2, <1>3 DEF Serve, Beginning, Guarding, Keeping

\* What a request has made is old as soon as it ends.
LEMMA EndedOld ==
    ASSUME TypeInv, Numbered, NEW h \in Handler, Serve(h), req[h].pc # "idle",
           End(h) \/ req' = Written(h, Idle)
    PROVE  \A n \in {req[h].id} : Old(n)'
<1>0. made \in Nat \ {0} /\ req \in [Handler -> Request] /\ made' \in Nat /\ made' >= made
  BY QuietRest DEF TypeInv, CountersOK, ReqOK
<1>1. ASSUME NEW g \in Handler \ {h} PROVE req'[g].pc = req[g].pc /\ req'[g].id = req[g].id
  <2>1. /\ [req[g] EXCEPT !.stale = TRUE].pc = req[g].pc
        /\ [req[g] EXCEPT !.stale = TRUE].id = req[g].id
    BY <1>0 DEF Request
  <2> QED
    BY <2>1, OthersStay DEF TypeInv, Untouched
<1>2. req'[h].pc = "idle"
  BY <1>0 DEF End, Written, Idle
<1>3. ASSUME NEW n, n = req[h].id PROVE Old(n)'
  BY <1>0, <1>1, <1>2, <1>3 DEF Old, Numbered, Request
<1> QED
  BY <1>3

MadeInv ==
    /\ \A u \in User : Old(users[u].totp) /\ Old(users[u].pending) /\ Old(users[u].codes)
    /\ \A h \in Handler : Old(req[h].code.secret)
    /\ \A l \in links : Old(l.id)
    /\ \A a \in spent : Old(a.code.secret)

LEMMA OldNone == ASSUME TypeInv, Numbered PROVE Old(0)
<1>1. \A h \in Handler : req[h].id \in Nat
  BY DEF TypeInv, ReqOK, Request
<1> QED
  BY <1>1 DEF TypeInv, CountersOK, Numbered, Old

LEMMA MadeUsers ==
    ASSUME TypeInv, Numbered, MadeInv, NEW h \in Handler, Serve(h), NEW u \in User
    PROVE  Old(users[u].totp)' /\ Old(users[u].pending)' /\ Old(users[u].codes)'
<1> DEFINE r == req[h]
<1>0. /\ users \in [User -> Row] /\ users[u] \in Row /\ req \in [Handler -> Request] /\ r \in Request
  BY DEF TypeInv, UsersOK, ReqOK
<1>1. SUFFICES ASSUME NEW n, n \in {users'[u].totp, users'[u].pending, users'[u].codes} PROVE Old(n)'
  OBVIOUS
<1>2. ASSUME n \in Nat, Old(n) PROVE Old(n)'
  BY <1>2, OldStays
<1>3. /\ {users[u].totp, users[u].pending, users[u].codes, r.code.secret, 0} \subseteq Nat
      /\ Old(users[u].totp) /\ Old(users[u].pending) /\ Old(users[u].codes) /\ Old(r.code.secret) /\ Old(0)
  <2>1. {users[u].totp, users[u].pending, users[u].codes, 0} \subseteq Nat
    BY <1>0 DEF Row
  <2>2. r.code.secret \in Nat
    BY <1>0 DEF Request, Code
  <2> QED
    BY <2>1, <2>2, OldNone DEF MadeInv
<1>4. CASE n \in {users[u].totp, users[u].pending, users[u].codes, r.code.secret, 0}
  BY <1>2, <1>3, <1>4
<1>5. CASE ~Factors(h)
  BY <1>1, <1>4, <1>5, FactorStays DEF Factor
<1>6. CASE AdvanceStep(h) \/ ConsumeRecoveryCode(h)
  <2>1. \/ users' = users
        \/ users' = [users EXCEPT ![r.user].last = r.code.step]
        \/ users' = [users EXCEPT ![r.user].left = FALSE]
    BY <1>6 DEF AdvanceStep, ConsumeRecoveryCode
  <2> QED
    BY <1>0, <1>1, <1>4, <2>1 DEF Row
<1>7. CASE n = r.id /\ r.pc # "idle" /\ End(h)
  BY <1>7, EndedOld
<1>8. CASE SetPendingSecret(h)
  BY <1>0, <1>1, <1>4, <1>7, <1>8 DEF SetPendingSecret, Row
<1>9. CASE Enable(h)
  BY <1>0, <1>1, <1>4, <1>7, <1>9 DEF Enable, Row
<1>10. CASE Disable(h)
  BY <1>0, <1>1, <1>4, <1>10 DEF Disable, Row
<1>11. CASE RegenerateRecoveryCodes(h)
  BY <1>0, <1>1, <1>4, <1>7, <1>11 DEF RegenerateRecoveryCodes, Row
<1>12. CASE DeleteUser(h)
  BY <1>0, <1>1, <1>4, <1>12 DEF DeleteUser, Gone, NoOne
<1> QED
  BY <1>5, <1>6, <1>8, <1>9, <1>10, <1>11, <1>12 DEF Factors

LEMMA MadeServe ==
    ASSUME TypeInv, Numbered, MadeInv, NEW h \in Handler, Serve(h)
    PROVE  MadeInv'
<1> DEFINE r == req[h]
<1>0. /\ users \in [User -> Row] /\ req \in [Handler -> Request] /\ r \in Request
      /\ links \subseteq Link /\ spent \subseteq Acceptance
  BY DEF TypeInv, UsersOK, ReqOK, TablesOK
<1>1. ASSUME NEW n \in Nat, Old(n) PROVE Old(n)'
  BY <1>1, OldStays
<1>2. ASSUME NEW g \in Handler PROVE Old(req[g].code.secret)'
  <2>1. SUFFICES ASSUME NEW n, n = req'[g].code.secret PROVE Old(n)'
    OBVIOUS
  <2>2. \A k \in Handler : req[k].code.secret \in Nat /\ Old(req[k].code.secret)
    BY <1>0 DEF MadeInv, Request, Code
  <2>3. CASE req'[g].code = req[g].code
    BY <1>1, <2>1, <2>2, <2>3
  <2>4. CASE req'[g] = Idle
    BY <1>1, <2>1, <2>4, OldNone DEF Idle, NoCode
  <2>5. CASE g # h
    <3>1. Untouched(g)
      BY <2>5, OthersStay DEF TypeInv
    <3> QED
      BY <1>0, <2>3, <3>1 DEF Untouched, Request
  <2>6. CASE g = h /\ (Guarding(h) \/ Keeping(h))
    <3>1. Moved(h)
      BY <2>6, InFlightMoves DEF TypeInv
    <3> QED
      BY <2>3, <2>4, <2>6, <3>1 DEF Moved
  <2>7. CASE g = h /\ Beginning(h)
    <3>1. PICK q : req' = [req EXCEPT ![h] = q] /\ Fresh(q)
      BY <2>7, BeginNew
    <3>2. Known(n)
      BY <1>0, <2>1, <2>7, <3>1 DEF Fresh
    <3>3. n \in Nat /\ Old(n)
      <4>1. CASE n = 0
        BY <4>1, OldNone
      <4>2. CASE n # 0
        <5>1. PICK u \in User : n \in {users[u].totp, users[u].pending, users[u].codes}
          BY <3>2, <4>2 DEF Known
        <5>2. users[u].totp \in Nat /\ users[u].pending \in Nat /\ users[u].codes \in Nat
          BY <1>0 DEF Row
        <5>3. Old(users[u].totp) /\ Old(users[u].pending) /\ Old(users[u].codes)
          BY DEF MadeInv
        <5> QED
          BY <5>1, <5>2, <5>3
      <4> QED
        BY <4>1, <4>2
    <3> QED
      BY <1>1, <3>3
  <2> QED
    BY <2>5, <2>6, <2>7 DEF Serve, Beginning, Guarding, Keeping
<1>3. ASSUME NEW l \in links' PROVE Old(l.id)'
  <2>1. SUFFICES ASSUME NEW n, n = l.id PROVE Old(n)'
    OBVIOUS
  <2>2. CASE \E m \in links : m.id = n
    BY <1>0, <1>1, <2>2 DEF MadeInv, Link
  <2>3. CASE QuietForTables(h) \/ ~(DeleteUser(h) \/ IssueLink(h) \/ Consume(h))
    <3>1. links' = links
      BY <2>3, QuietTables DEF Serve, QuietForTables, Beginning, AskFactor, CreateSession, AdvanceStep,
         ConsumeRecoveryCode, WriteUser, RevokeAll
    <3> QED
      BY <2>1, <2>2, <3>1
  <2>4. CASE DeleteUser(h)
    BY <2>1, <2>2, <2>4 DEF DeleteUser
  <2>5. CASE IssueLink(h)
    <3>1. CASE n = r.id
      BY <2>5, <3>1, EndedOld DEF IssueLink
    <3>2. CASE n # r.id
      BY <1>0, <2>1, <2>2, <2>5, <3>2 DEF IssueLink, Link
    <3> QED
      BY <3>1, <3>2
  <2>6. CASE Consume(h)
    BY <1>0, <2>1, <2>2, <2>6 DEF Consume, Link
  <2> QED
    BY <2>3, <2>4, <2>5, <2>6
<1>4. ASSUME NEW a \in spent' PROVE Old(a.code.secret)'
  <2>1. SUFFICES ASSUME NEW n, n = a.code.secret PROVE Old(n)'
    OBVIOUS
  <2>2. CASE a \in spent
    BY <1>0, <1>1, <2>1, <2>2 DEF MadeInv, Acceptance, Code
  <2>3. CASE AdvanceStep(h) \/ ConsumeRecoveryCode(h)
    <3>1. spent' = spent \/ Accept(h, "code")
      BY <2>3 DEF AdvanceStep, ConsumeRecoveryCode
    <3>2. CASE a \notin spent
      <4>1. n = r.code.secret
        BY <2>1, <3>1, <3>2 DEF Accept
      <4> QED
        BY <1>0, <1>1, <4>1 DEF MadeInv, Request, Code
    <3> QED
      BY <2>2, <3>2
  <2>4. CASE Consume(h)
    <3>1. CASE a \notin spent
      <4>1. n = r.link /\ Lookup(r.link)
        BY <2>1, <2>4, <3>1 DEF Consume, Accept
      <4>2. PICK l \in links : l.id = n
        BY <4>1 DEF Lookup
      <4> QED
        BY <1>0, <1>1, <4>2 DEF MadeInv, Link
    <3> QED
      BY <2>2, <3>1
  <2>5. CASE ~(AdvanceStep(h) \/ ConsumeRecoveryCode(h) \/ Consume(h))
    <3>1. spent' = spent
      BY <2>5, QuietTables DEF Serve, QuietForTables, Beginning, AskFactor, CreateSession, WriteUser, DeleteUser,
         IssueLink, RevokeAll
    <3> QED
      BY <2>2, <3>1
  <2> QED
    BY <2>3, <2>4, <2>5
<1> QED
  BY <1>2, <1>3, <1>4, MadeUsers DEF MadeInv

-----------------------------------------------------------------------------
(* What was accepted once can be accepted no more: the link is closed, the recovery *)
(* code is struck off, the step is behind the last one or its secret is gone.       *)

OfItsKind == \A h \in Handler : req[h].pc = "recover" => req[h].code.step = 0

LEMMA OfItsKindServe == ASSUME TypeInv, OfItsKind, NEW h \in Handler, Serve(h) PROVE OfItsKind'
<1>0. req \in [Handler -> Request]
  BY DEF TypeInv, ReqOK
<1>1. ASSUME NEW g \in Handler \ {h}, req'[g].pc = "recover" PROVE req'[g].code.step = 0
  <2>1. Untouched(g)
    BY OthersStay DEF TypeInv
  <2> QED
    BY <1>0, <1>1, <2>1 DEF Untouched, OfItsKind, Request
<1>2. ASSUME req'[h].pc = "recover" PROVE req'[h].code.step = 0
  <2>1. CheckLock(h) \/ Fail(h)
    BY <1>2, ComesFrom DEF Arrives
  <2>2. ~End(h)
    BY <1>0, <1>2 DEF End, Idle
  <2>3. Go(h, CASE req[h].kind = "login" -> "password" [] req[h].code.step > 0 -> "secret" [] OTHER -> "recover")
    BY <2>1, <2>2 DEF CheckLock, Fail
  <2>4. req'[h].pc = CASE req[h].kind = "login" -> "password" [] req[h].code.step > 0 -> "secret" [] OTHER -> "recover"
    BY <1>0, <2>3 DEF Go, Request
  <2>5. ~(req[h].code.step > 0) /\ req[h].code.step \in Nat
    BY <1>0, <1>2, <2>4 DEF Request, Code
  <2>6. req'[h].code = req[h].code
    BY <1>0, <2>3 DEF Go, Request
  <2> QED
    BY <2>5, <2>6
<1> QED
  BY <1>1, <1>2 DEF OfItsKind

\* What is accepted.
LEMMA Accepted ==
    ASSUME TypeInv, OfItsKind, NEW h \in Handler, Serve(h), NEW a \in spent', a \notin spent
    PROVE  /\ a.user = req[h].user /\ req[h].user \in User
           /\ \/ AdvanceStep(h) /\ a.kind = "code" /\ a.code = req[h].code /\ a.code.step > 0
                 /\ a.code.secret # 0
              \/ ConsumeRecoveryCode(h) /\ a.kind = "code" /\ a.code = req[h].code /\ a.code.step = 0
              \/ Consume(h) /\ a.kind = "link" /\ a.code = [secret |-> req[h].link, step |-> 0]
<1>0. req[h] \in Request /\ Ready(req[h])
  BY DEF TypeInv, ReqOK
<1>1. CASE AdvanceStep(h)
  <2>1. Accept(h, "code") /\ req[h].pc = "advance"
    BY <1>1 DEF AdvanceStep
  <2> QED
    BY <1>0, <1>1, <2>1 DEF Accept, Ready
<1>2. CASE ConsumeRecoveryCode(h)
  <2>1. Accept(h, "code") /\ req[h].pc = "recover"
    BY <1>2 DEF ConsumeRecoveryCode
  <2> QED
    BY <1>0, <1>2, <2>1 DEF Accept, Ready, OfItsKind
<1>3. CASE Consume(h)
  <2>1. Accept(h, "link") /\ req[h].pc = "consume"
    BY <1>3 DEF Consume
  <2> QED
    BY <1>0, <1>3, <2>1 DEF Accept, Ready
<1>4. CASE ~(AdvanceStep(h) \/ ConsumeRecoveryCode(h) \/ Consume(h))
  BY <1>4, QuietTables DEF Serve, QuietForTables, Beginning, AskFactor, CreateSession, WriteUser, DeleteUser,
     IssueLink, RevokeAll
<1> QED
  BY <1>1, <1>2, <1>3, <1>4

Closed(a) == a.kind = "link" => /\ a.code.step = 0
                                /\ \A l \in links : l.id = a.code.secret => ~l.open

LEMMA ClosedServe ==
    ASSUME TypeInv, Numbered, MadeInv, OfItsKind, \A a \in spent : Closed(a), NEW h \in Handler, Serve(h)
    PROVE  \A a \in spent' : Closed(a)'
<1> DEFINE r == req[h]
<1>0. r \in Request /\ links \subseteq Link
  BY DEF TypeInv, ReqOK, TablesOK
<1> SUFFICES ASSUME NEW a \in spent', a.kind = "link"
             PROVE  a.code.step = 0 /\ \A l \in links' : l.id = a.code.secret => ~l.open
  BY DEF Closed
<1>1. CASE a \notin spent
  <2>1. Consume(h) /\ a.code = [secret |-> r.link, step |-> 0]
    BY <1>1, Accepted
  <2>2. links' = {IF l.id = r.link THEN [l EXCEPT !.open = FALSE] ELSE l : l \in links}
    BY <1>1, <2>1 DEF Consume
  <2> QED
    BY <1>0, <2>1, <2>2 DEF Link
<1>2. CASE a \in spent
  <2>1. a.code.step = 0 /\ \A l \in links : l.id = a.code.secret => ~l.open
    BY <1>2 DEF Closed
  <2>2. CASE Consume(h)
    <3>1. links' \in {links, {IF l.id = r.link THEN [l EXCEPT !.open = FALSE] ELSE l : l \in links}}
      BY <2>2 DEF Consume
    <3> QED
      BY <1>0, <2>1, <3>1 DEF Link
  <2>3. CASE IssueLink(h)
    <3>1. r.id # a.code.secret
      BY <1>2, <2>3 DEF IssueLink, MadeInv, Old
    <3>2. \A l \in links' : \/ \E m \in links : l.id = m.id /\ (l.open => m.open)
                            \/ l.id = r.id
      BY <1>0, <2>3 DEF IssueLink, Link
    <3> QED
      BY <2>1, <3>1, <3>2
  <2>4. CASE ~(Consume(h) \/ IssueLink(h))
    <3>1. links' \subseteq links
      BY <2>4, QuietTables DEF Serve, QuietForTables, Beginning, AskFactor, CreateSession, AdvanceStep,
         ConsumeRecoveryCode, WriteUser, DeleteUser, RevokeAll
    <3> QED
      BY <2>1, <3>1
  <2> QED
    BY <2>2, <2>3, <2>4
<1> QED
  BY <1>1, <1>2

Struck(a) == (a.kind = "code" /\ a.code.step = 0) =>
                ~(users[a.user].left /\ users[a.user].codes = a.code.secret)

\* The columns of the second factor, as a sign-up, a renewal of the codes and a removal write them.
Enrolled(t, u, secret, last, codes) ==
    [t EXCEPT ![u].totp = secret, ![u].pending = 0, ![u].last = last, ![u].codes = codes, ![u].left = TRUE]
Recoded(t, u, codes) == [t EXCEPT ![u].codes = codes, ![u].left = TRUE]
Unenrolled(t, u) ==
    [t EXCEPT ![u].totp = 0, ![u].pending = 0, ![u].last = 0, ![u].codes = 0, ![u].left = FALSE]

LEMMA EnrolledRow ==
    ASSUME NEW t \in [User -> Row], NEW u \in User, NEW v \in User, NEW secret, NEW last, NEW codes
    PROVE  \/ Enrolled(t, u, secret, last, codes)[v] = t[v]
           \/ Enrolled(t, u, secret, last, codes)[v].codes = codes
BY DEF Row, Enrolled

LEMMA RecodedRow ==
    ASSUME NEW t \in [User -> Row], NEW u \in User, NEW v \in User, NEW codes
    PROVE  Recoded(t, u, codes)[v] = t[v] \/ Recoded(t, u, codes)[v].codes = codes
BY DEF Row, Recoded

LEMMA UnenrolledRow ==
    ASSUME NEW t \in [User -> Row], NEW u \in User, NEW v \in User
    PROVE  Unenrolled(t, u)[v] = t[v] \/ ~Unenrolled(t, u)[v].left
BY DEF Row, Unenrolled

LEMMA StruckServe ==
    ASSUME TypeInv, Numbered, MadeInv, OfItsKind, \A a \in spent : Struck(a), NEW h \in Handler, Serve(h)
    PROVE  \A a \in spent' : Struck(a)'
<1> DEFINE r == req[h]
<1>0. r \in Request /\ users \in [User -> Row] /\ spent \subseteq Acceptance
  BY DEF TypeInv, ReqOK, UsersOK, TablesOK
<1>u. r.pc # "idle" => r.user \in User
  BY DEF TypeInv, ReqOK, Ready
<1> SUFFICES ASSUME NEW a \in spent', a.kind = "code", a.code.step = 0
             PROVE  ~(users'[a.user].left /\ users'[a.user].codes = a.code.secret)
  BY DEF Struck
<1>1. CASE a \notin spent
  <2>0. /\ a.user = r.user /\ r.user \in User
        /\ (AdvanceStep(h) /\ a.code.step > 0) \/ ConsumeRecoveryCode(h) \/ a.kind = "link"
    BY <1>1, Accepted
  <2>1. ConsumeRecoveryCode(h) /\ a.user = r.user /\ r.user \in User
    BY <2>0
  <2>2. users' = [users EXCEPT ![r.user].left = FALSE]
    BY <1>1, <2>1 DEF ConsumeRecoveryCode
  <2>3. users'[r.user].left = FALSE
    BY <1>0, <2>1, <2>2 DEF Row
  <2> QED
    BY <2>1, <2>3
<1>2. CASE a \in spent
  <2>1. a.user \in User /\ ~(users[a.user].left /\ users[a.user].codes = a.code.secret)
    BY <1>0, <1>2 DEF Struck, Acceptance
  <2>2. r.pc # "idle" => r.id # a.code.secret
    BY <1>2 DEF MadeInv, Old
  <2>3. CASE ~Factors(h)
    BY <2>1, <2>3, FactorStays DEF Factor
  <2>4. CASE AdvanceStep(h) \/ ConsumeRecoveryCode(h) \/ SetPendingSecret(h)
    <3>1. \/ users' = users
          \/ users' = [users EXCEPT ![r.user].last = r.code.step]
          \/ users' = [users EXCEPT ![r.user].left = FALSE]
          \/ users' = [users EXCEPT ![r.user].pending = r.id]
      BY <2>4 DEF AdvanceStep, ConsumeRecoveryCode, SetPendingSecret
    <3> QED
      BY <1>0, <2>1, <3>1 DEF Row
  <2>5. CASE Enable(h) \/ RegenerateRecoveryCodes(h)
    <3>1. \/ users' = users
          \/ users' = Enrolled(users, r.user, r.code.secret, r.code.step, r.id)
          \/ users' = Recoded(users, r.user, r.id)
      BY <2>5 DEF Enable, RegenerateRecoveryCodes, Enrolled, Recoded
    <3>2. r.pc # "idle"
      BY <2>5 DEF Enable, RegenerateRecoveryCodes
    <3>3. PICK t, u, v, s, l, i :
              /\ t \in [User -> Row] /\ u \in User /\ v \in User
              /\ t = users /\ u = r.user /\ v = a.user /\ s = r.code.secret /\ l = r.code.step /\ i = r.id
      BY <1>0, <1>u, <2>1, <3>2
    <3>4. users' = t \/ users' = Enrolled(t, u, s, l, i) \/ users' = Recoded(t, u, i)
      BY <3>1, <3>3
    <3>5. users'[v] = t[v] \/ users'[v].codes = i
      BY <3>3, <3>4, EnrolledRow, RecodedRow
    <3> QED
      BY <2>1, <2>2, <3>2, <3>3, <3>5
  <2>6. CASE Disable(h)
    <3>1. users' = users \/ users' = Unenrolled(users, r.user)
      BY <2>6 DEF Disable, Unenrolled
    <3>2. PICK t \in [User -> Row], u \in User, v \in User : t = users /\ u = r.user /\ v = a.user
      BY <1>0, <1>u, <2>1, <2>6 DEF Disable
    <3>3. users' = t \/ users' = Unenrolled(t, u)
      BY <3>1, <3>2
    <3>4. users'[v] = t[v] \/ ~users'[v].left
      BY <3>3, UnenrolledRow
    <3> QED
      BY <2>1, <3>2, <3>4
  <2>7. CASE DeleteUser(h)
    BY <1>0, <2>1, <2>7 DEF DeleteUser, Gone, NoOne
  <2> QED
    BY <2>3, <2>4, <2>5, <2>6, <2>7 DEF Factors
<1> QED
  BY <1>1, <1>2

\* A code of the second factor is behind the last step, or its user or its secret is gone.
Dead(u, n) ==
    /\ users[u].totp # n /\ users[u].pending # n
    /\ \A g \in Handler : req[g].user = u /\ req[g].pc \in {"advance", "enable"} => req[g].code.secret # n
Retired(a) == users[a.user].last >= a.code.step \/ users[a.user] = Gone \/ Dead(a.user, a.code.secret)
Behind(a) == (a.kind = "code" /\ a.code.step > 0) =>
                a.code.secret # 0 /\ ("rewound" \in excuse \/ Retired(a))

\* A dead secret stays dead.
LEMMA DeadStays ==
    ASSUME TypeInv, Numbered, MadeInv, NEW h \in Handler, Serve(h), NEW u \in User, NEW n \in Nat \ {0},
           Old(n), Dead(u, n)
    PROVE  Dead(u, n)'
<1> DEFINE r == req[h]
<1>0. r \in Request /\ users \in [User -> Row] /\ req \in [Handler -> Request]
  BY DEF TypeInv, ReqOK, UsersOK
<1>1. users'[u].totp # n /\ users'[u].pending # n
  <2>1. r.pc # "idle" => r.id # n
    BY DEF Old
  <2>2. CASE ~Factors(h)
    BY <2>2, FactorStays DEF Factor, Dead
  <2>3. CASE AdvanceStep(h) \/ ConsumeRecoveryCode(h) \/ RegenerateRecoveryCodes(h)
    <3>1. \/ users' = users
          \/ users' = [users EXCEPT ![r.user].last = r.code.step]
          \/ users' = [users EXCEPT ![r.user].left = FALSE]
          \/ users' = [users EXCEPT ![r.user].codes = r.id, ![r.user].left = TRUE]
      BY <2>3 DEF AdvanceStep, ConsumeRecoveryCode, RegenerateRecoveryCodes
    <3> QED
      BY <1>0, <3>1 DEF Dead, Row
  <2>4. CASE SetPendingSecret(h)
    BY <1>0, <2>1, <2>4 DEF SetPendingSecret, Dead, Row
  <2>5. CASE Enable(h)
    <3>1. r.pc = "enable" /\ (r.user = u => r.code.secret # n)
      BY <2>5 DEF Enable, Dead
    <3> QED
      BY <1>0, <2>5, <3>1, ZenonT(60) DEF Enable, Dead, Row
  <2>6. CASE Disable(h)
    BY <1>0, <2>6 DEF Disable, Dead, Row
  <2>7. CASE DeleteUser(h)
    BY <1>0, <2>7 DEF DeleteUser, Dead, Gone, NoOne
  <2> QED
    BY <2>2, <2>3, <2>4, <2>5, <2>6, <2>7 DEF Factors
<1>2. ASSUME NEW g \in Handler, req'[g].user = u, req'[g].pc \in {"advance", "enable"}
      PROVE  req'[g].code.secret # n
  <2>1. CASE g # h
    <3>1. Untouched(g)
      BY <2>1, OthersStay DEF TypeInv
    <3> QED
      BY <1>0, <1>2, <3>1 DEF Untouched, Dead, Request
  <2>2. CASE g = h
    <3>1. ReadSecret(h) \/ ReadPending(h)
      BY <1>2, <2>2, ComesFrom DEF Arrives
    <3>2. Guarding(h)
      BY <3>1 DEF Guarding
    <3>3. Moved(h) /\ req'[h] # Idle
      BY <1>2, <2>2, <3>2, InFlightMoves DEF TypeInv, Idle
    <3>4. req'[h].user = r.user /\ req'[h].code = r.code
      BY <3>3 DEF Moved
    <3>5. r.code.secret = users[u].totp \/ r.code.secret = users[u].pending
      <4>1. CASE ReadSecret(h)
        <5>1. ~Wrong(h)
          BY <1>0, <1>2, <2>2 DEF Wrong, Request
        <5> QED
          BY <1>2, <2>2, <3>4, <4>1, <5>1 DEF ReadSecret, Validates
      <4>2. CASE ReadPending(h)
        <5>1. ~End(h)
          BY <1>0, <1>2, <2>2 DEF End, Idle
        <5> QED
          BY <1>2, <2>2, <3>4, <4>2, <5>1 DEF ReadPending, Validates
      <4> QED
        BY <3>1, <4>1, <4>2
    <3> QED
      BY <2>2, <3>4, <3>5 DEF Dead
  <2> QED
    BY <2>1, <2>2
<1> QED
  BY <1>1, <1>2 DEF Dead

LEMMA BehindServe ==
    ASSUME TypeInv, Numbered, MadeInv, OfItsKind, \A a \in spent : Behind(a), NEW h \in Handler, Serve(h)
    PROVE  \A a \in spent' : Behind(a)'
<1> DEFINE r == req[h]
<1>0. /\ r \in Request /\ users \in [User -> Row] /\ spent \subseteq Acceptance
      /\ req \in [Handler -> Request]
  BY DEF TypeInv, ReqOK, UsersOK, TablesOK
<1> SUFFICES ASSUME NEW a \in spent', a.kind = "code", a.code.step > 0
             PROVE  a.code.secret # 0 /\ ("rewound" \in excuse' \/ Retired(a)')
  BY DEF Behind
<1>1. CASE a \notin spent
  <2>0. /\ a.user = r.user /\ r.user \in User
        /\ \/ AdvanceStep(h) /\ a.code = r.code /\ a.code.secret # 0
           \/ a.code.step = 0
           \/ a.kind = "link"
    BY <1>1, Accepted
  <2>1. AdvanceStep(h) /\ a.user = r.user /\ r.user \in User /\ a.code = r.code /\ a.code.secret # 0
    BY <2>0
  <2>2. users' = [users EXCEPT ![r.user].last = r.code.step]
    BY <1>1, <2>1 DEF AdvanceStep
  <2>3. users'[a.user].last = a.code.step /\ a.code.step \in Nat
    BY <1>0, <2>1, <2>2 DEF Row, Request, Code
  <2> QED
    BY <2>1, <2>3 DEF Retired
<1>2. CASE a \in spent
  <2> DEFINE u == a.user  n == a.code.secret  t == a.code.step
  <2>0. /\ u \in User /\ n \in Nat \ {0} /\ t \in Nat /\ t > 0 /\ Old(n)
        /\ excuse \subseteq excuse'
    BY <1>0, <1>2, ExcuseGrows DEF Behind, Acceptance, Code, MadeInv
  <2>1. CASE "rewound" \in excuse'
    BY <2>0, <2>1
  <2>2. CASE "rewound" \notin excuse'
    <3>1. Retired(a)
      BY <1>2, <2>0, <2>2 DEF Behind
    <3>2. CASE Dead(u, n)
      BY <2>0, <3>2, DeadStays DEF Retired
    <3>3. CASE users[u] = Gone
      <4>1. users'[u] = Gone
        <5>1. CASE ~Factors(h)
          BY <2>0, <3>3, <5>1, FactorStays
        <5>2. CASE ConsumeRecoveryCode(h)
          BY <1>0, <2>0, <3>3, <5>2 DEF ConsumeRecoveryCode, Row, Gone, NoOne
        <5>3. CASE AdvanceStep(h) \/ SetPendingSecret(h) \/ Enable(h) \/ Disable(h) \/ RegenerateRecoveryCodes(h)
          <6>1. CASE users' = users
            BY <3>3, <6>1
          <6>2. CASE users[r.user].there
            <7>1. r.user # u
              BY <3>3, <6>2 DEF Gone, NoOne
            <7> QED
              BY <1>0, <2>0, <3>3, <5>3, <7>1 DEF AdvanceStep, SetPendingSecret, Enable, Disable,
                 RegenerateRecoveryCodes
          <6> QED
            BY <5>3, <6>1, <6>2 DEF AdvanceStep, SetPendingSecret, Enable, Disable, RegenerateRecoveryCodes
        <5>4. CASE DeleteUser(h)
          BY <1>0, <2>0, <3>3, <5>4 DEF DeleteUser
        <5> QED
          BY <5>1, <5>2, <5>3, <5>4 DEF Factors
      <4> QED
        BY <2>0, <4>1 DEF Retired
    <3>4. CASE users[u].last >= t /\ ~Dead(u, n)
      <4>0. users[u].last \in Nat
        BY <1>0, <2>0 DEF Row
      <4>1. CASE users'[u].last >= t
        BY <2>0, <4>1 DEF Retired
      <4>2. CASE DeleteUser(h)
        <5>1. users'[u] = Gone \/ users'[u] = users[u]
          BY <1>0, <2>0, <4>2 DEF DeleteUser
        <5> QED
          BY <2>0, <3>4, <5>1 DEF Retired
      <4>3. CASE ~Factors(h)
        BY <2>0, <3>4, <4>1, <4>3, FactorStays DEF Factor
      <4>4. CASE ConsumeRecoveryCode(h) \/ SetPendingSecret(h) \/ RegenerateRecoveryCodes(h)
        <5>1. users'[u].last = users[u].last
          BY <1>0, <2>0, <4>4 DEF ConsumeRecoveryCode, SetPendingSecret, RegenerateRecoveryCodes, Row
        <5> QED
          BY <3>4, <4>1, <5>1
      <4>5. CASE AdvanceStep(h)
        <5>1. \/ users'[u].last = users[u].last
              \/ r.user = u /\ users[u].last < r.code.step /\ users'[u].last = r.code.step
          BY <1>0, <2>0, <4>5 DEF AdvanceStep, Row
        <5>2. r.code.step \in Nat
          BY <1>0 DEF Request, Code
        <5> QED
          BY <2>0, <3>4, <4>0, <4>1, <5>1, <5>2
      <4>6. CASE Enable(h)
        <5>1. \/ users'[u].last = users[u].last
              \/ r.user = u /\ users'[u].last = r.code.step
          BY <1>0, <2>0, <4>6 DEF Enable, Row
        <5>2. r.user = u => ~(users[u].last > r.code.step)
          BY <2>2, <4>6 DEF Enable, Rewinds
        <5>3. r.code.step \in Nat
          BY <1>0 DEF Request, Code
        <5> QED
          BY <2>0, <3>4, <4>0, <4>1, <5>1, <5>2, <5>3
      <4>7. CASE Disable(h)
        <5>1. CASE users'[u] = users[u]
          BY <3>4, <4>1, <5>1
        <5>2. CASE r.user = u /\ users[u].there
          <6>1. users'[u].totp = 0 /\ users'[u].pending = 0
            BY <1>0, <2>0, <4>7, <5>2 DEF Disable, Row
          <6>2. users[u].last > 0
            BY <2>0, <3>4, <4>0
          <6>3. ~\E g \in Handler \ {h} : req[g].user = u /\ req[g].pc \in {"advance", "enable"}
            BY <2>2, <4>7, <5>2, <6>2 DEF Disable, Rewinds
          <6>4. \A g \in Handler : ~(req'[g].user = u /\ req'[g].pc \in {"advance", "enable"})
            BY <1>0, <4>7, <6>3 DEF Disable, End, Idle
          <6> QED
            BY <2>0, <6>1, <6>4 DEF Retired, Dead
        <5> QED
          BY <1>0, <2>0, <4>7, <5>1, <5>2 DEF Disable
      <4> QED
        BY <4>2, <4>3, <4>4, <4>5, <4>6, <4>7 DEF Factors
    <3> QED
      BY <3>1, <3>2, <3>3, <3>4 DEF Retired
  <2> QED
    BY <2>1, <2>2
<1> QED
  BY <1>1, <1>2

\* A code or link that is accepted now was not accepted before.
SpentInv == \A a \in spent : Closed(a) /\ Struck(a) /\ Behind(a)

LEMMA AcceptedAnew ==
    ASSUME TypeInv, OfItsKind, SpentInv, NEW h \in Handler, Serve(h),
           NEW a \in spent', a \notin spent, NEW b \in spent,
           b.kind = a.kind, b.user = a.user, b.code = a.code
    PROVE  a.code.step > 0 /\ "rewound" \in excuse
<1> DEFINE r == req[h]  u == r.user
<1>0. /\ r \in Request /\ users \in [User -> Row]
  BY DEF TypeInv, ReqOK, UsersOK
<1>1. /\ a.user = u /\ u \in User
      /\ \/ AdvanceStep(h) /\ a.kind = "code" /\ a.code = r.code /\ a.code.step > 0
         \/ ConsumeRecoveryCode(h) /\ a.kind = "code" /\ a.code = r.code /\ a.code.step = 0
         \/ Consume(h) /\ a.kind = "link" /\ a.code = [secret |-> r.link, step |-> 0]
  BY Accepted
<1>2. CASE Consume(h) /\ a.kind = "link" /\ a.code = [secret |-> r.link, step |-> 0]
  <2>1. \E l \in links : l.id = r.link /\ l.open
    BY <1>2 DEF Consume, Lookup
  <2> QED
    BY <1>2, <2>1 DEF SpentInv, Closed
<1>3. CASE ConsumeRecoveryCode(h) /\ a.kind = "code" /\ a.code = r.code /\ a.code.step = 0
  <2>1. users[u].left /\ users[u].codes = r.code.secret
    BY <1>3 DEF ConsumeRecoveryCode
  <2> QED
    BY <1>1, <1>3, <2>1 DEF SpentInv, Struck
<1>4. CASE AdvanceStep(h) /\ a.kind = "code" /\ a.code = r.code /\ a.code.step > 0
  <2>1. r.pc = "advance" /\ users[u].there /\ users[u].last < r.code.step
    BY <1>4 DEF AdvanceStep
  <2>2. users[u] # Gone /\ ~(users[u].last >= r.code.step)
    <3>1. users[u].last \in Nat /\ r.code.step \in Nat
      BY <1>0, <1>1 DEF Row, Request, Code
    <3> QED
      BY <2>1, <3>1 DEF Gone, NoOne
  <2>3. ~Dead(u, r.code.secret)
    BY <2>1 DEF Dead
  <2>4. ~Retired(b)
    BY <1>1, <1>4, <2>2, <2>3 DEF Retired
  <2> QED
    BY <1>4, <2>4 DEF SpentInv, Behind
<1> QED
  BY <1>1, <1>2, <1>3, <1>4

LEMMA OnceServe ==
    ASSUME TypeInv, OfItsKind, SpentInv, AcceptedOnce, NEW h \in Handler, Serve(h)
    PROVE  AcceptedOnce'
<1>0. excuse \subseteq excuse'
  BY ExcuseGrows
<1>1. SUFFICES ASSUME NEW a \in spent', NEW b \in spent', a.kind = b.kind, a.user = b.user, a.code = b.code,
                      a.code.step = 0 \/ "rewound" \notin excuse'
               PROVE  a.by = b.by
  BY DEF AcceptedOnce
<1>2. CASE a \in spent /\ b \in spent
  BY <1>0, <1>1, <1>2 DEF AcceptedOnce
<1>3. ~(a.code.step > 0 /\ "rewound" \in excuse)
  BY <1>0, <1>1
<1>4. CASE a \notin spent /\ b \in spent
  BY <1>1, <1>3, <1>4, AcceptedAnew
<1>5. CASE a \in spent /\ b \notin spent
  BY <1>1, <1>3, <1>5, AcceptedAnew
<1>6. CASE a \notin spent /\ b \notin spent
  <2>1. spent' = spent \/ Accept(h, "code") \/ Accept(h, "link")
    BY <1>6, QuietTables DEF Serve, QuietForTables, Beginning, AskFactor, CreateSession, WriteUser, DeleteUser,
       IssueLink, RevokeAll, AdvanceStep, ConsumeRecoveryCode, Consume
  <2>2. a = b
    BY <1>6, <2>1 DEF Accept
  <2> QED
    BY <2>2
<1> QED
  BY <1>2, <1>4, <1>5, <1>6

OnceInv == Numbered /\ MadeInv /\ OfItsKind /\ SpentInv /\ AcceptedOnce

LEMMA OnceInit == Init => OnceInv
<1> SUFFICES ASSUME Init PROVE OnceInv
  OBVIOUS
<1>1. Numbered
  BY DEF Init, Numbered, Idle
<1>2. MadeInv
  <2>1. PICK scene \in Scenes : users = scene.users
    BY DEF Init
  <2>2. \A u \in User : {users[u].totp, users[u].pending, users[u].codes} \subseteq {0, 1}
    BY <2>1, SceneAssumption
  <2>3. Old(0) /\ Old(1)
    BY DEF Init, Old, Idle
  <2>4. \A u \in User : Old(users[u].totp) /\ Old(users[u].pending) /\ Old(users[u].codes)
    BY <2>2, <2>3
  <2>5. \A h \in Handler : req[h].code.secret = 0
    BY DEF Init, Idle, NoCode
  <2> QED
    BY <2>3, <2>4, <2>5 DEF Init, MadeInv
<1>3. OfItsKind
  BY DEF Init, OfItsKind, Idle
<1> QED
  BY <1>1, <1>2, <1>3 DEF Init, OnceInv, SpentInv, AcceptedOnce

LEMMA OnceStep == TypeInv /\ OnceInv /\ [Next]_vars => OnceInv'
<1> SUFFICES ASSUME TypeInv, OnceInv, [Next]_vars PROVE OnceInv'
  OBVIOUS
<1> USE DEF OnceInv
<1>1. Numbered'
  BY NumberedStep
<1>2. ASSUME NEW h \in Handler, Serve(h) PROVE MadeInv' /\ OfItsKind' /\ SpentInv' /\ AcceptedOnce'
  <2>1. MadeInv' /\ OfItsKind' /\ AcceptedOnce'
    BY <1>2, MadeServe, OfItsKindServe, OnceServe
  <2>2. SpentInv'
    BY <1>2, ClosedServe, StruckServe, BehindServe DEF SpentInv
  <2> QED
    BY <2>1, <2>2
<1>3. CASE UNCHANGED <<users, links, req, made, spent, excuse>>
  <2>1. MadeInv'
    BY <1>3 DEF MadeInv, Old
  <2>2. OfItsKind'
    BY <1>3 DEF OfItsKind
  <2>3. \A a \in spent : Closed(a)' /\ Struck(a)'
    BY <1>3 DEF SpentInv, Closed, Struck
  <2>4. \A a \in spent : Retired(a) => Retired(a)'
    BY <1>3 DEF Retired, Dead
  <2>5. SpentInv'
    BY <1>3, <2>3, <2>4 DEF SpentInv, Behind
  <2>6. AcceptedOnce'
    BY <1>3 DEF AcceptedOnce
  <2> QED
    BY <1>1, <2>1, <2>2, <2>5, <2>6
<1> QED
  BY <1>1, <1>2, <1>3 DEF Next, Expire, SignOut, Tick, Others, vars

\* However requests overlap, a code of the second factor, a recovery code and a one-time link are
\* accepted for one request only, unless the last step was set back.
THEOREM AcceptedOnceHolds == Spec => []AcceptedOnce
<1>1. OnceInv => AcceptedOnce
  BY DEF OnceInv
<1> QED
  BY <1>1, OnceInit, OnceStep, TypeInit, TypeStep, PTL DEF Spec

-----------------------------------------------------------------------------
(* Guesses: a key that is not locked has counted every wrong guess but those of the *)
(* requests that are still to count, and it is locked once its counter reaches the   *)
(* limit, but for the requests that are about to lock it.                            *)

Guessing(r, k) == r.pc \in Judging /\ (k = Ip \/ r.user = k)
Owing(r, k) == \/ r.pc = "incr" /\ r.key = k
               \/ k = Ip /\ r.pc \in Uncounted /\ r.key # Ip
Locking(r, k) == r.key = k /\ (r.pc = "setlock" \/ (r.pc = "expire" /\ Limit[k] = 1))

Guessers(k) == {h \in Handler : Guessing(req[h], k)}
Owers(k) == {h \in Handler : Owing(req[h], k)}
Lockers(k) == {h \in Handler : Locking(req[h], k)}

KeyBounded(k) ==
    /\ throttle[k].n <= Limit[k] - 1 + Cardinality(Lockers(k))
    /\ throttle[k].lock => guesses[k] + Cardinality(Guessers(k)) <= Limit[k] - 1 + Cardinality(Handler)
    /\ ~throttle[k].lock => guesses[k] <= throttle[k].n + Cardinality(Owers(k))

GuessInv == "uncounted" \in excuse \/ \A k \in Key : KeyBounded(k)

\* One goroutine moves into a set, out of it, or not at all.
LEMMA OneMoves ==
    ASSUME NEW S \in SUBSET Handler, NEW T \in SUBSET Handler, NEW h \in Handler, S \ {h} = T \ {h}
    PROVE  /\ Cardinality(S) \in Nat /\ Cardinality(T) \in Nat
           /\ (h \in S <=> h \in T) => Cardinality(T) = Cardinality(S)
           /\ h \in S /\ h \notin T => Cardinality(T) = Cardinality(S) - 1
           /\ h \notin S /\ h \in T => Cardinality(T) = Cardinality(S) + 1
<1>1. IsFiniteSet(S) /\ IsFiniteSet(T)
  BY HandlerAssumption, FS_Subset
<1>2. Cardinality(S) \in Nat /\ Cardinality(T) \in Nat
  BY <1>1, FS_CardinalityType
<1>3. CASE h \in S <=> h \in T
  <2>1. S = T
    BY <1>3
  <2> QED
    BY <1>2, <1>3, <2>1
<1>4. CASE h \in S /\ h \notin T
  <2>1. S = T \cup {h}
    BY <1>4
  <2>2. Cardinality(S) = Cardinality(T) + 1
    BY <1>1, <1>4, <2>1, FS_AddElement
  <2> QED
    BY <1>2, <1>4, <2>2
<1>5. CASE h \notin S /\ h \in T
  <2>1. T = S \cup {h}
    BY <1>5
  <2>2. Cardinality(T) = Cardinality(S) + 1
    BY <1>1, <1>5, <2>1, FS_AddElement
  <2> QED
    BY <1>2, <1>5, <2>2
<1> QED
  BY <1>3, <1>4, <1>5

\* A goroutine is in one of the three sets at most.
LEMMA ThreeSets ==
    ASSUME TypeInv, NEW k \in Key
    PROVE  /\ Cardinality(Guessers(k)) \in Nat /\ Cardinality(Owers(k)) \in Nat
           /\ Cardinality(Lockers(k)) \in Nat /\ Cardinality(Handler) \in Nat
           /\ Cardinality(Guessers(k)) + Cardinality(Owers(k)) + Cardinality(Lockers(k)) <= Cardinality(Handler)
<1> DEFINE J == Guessers(k)  P == Owers(k)  L == Lockers(k)
<1>1. J \subseteq Handler /\ P \subseteq Handler /\ L \subseteq Handler
  BY DEF Guessers, Owers, Lockers
<1>2. J \cap P = {} /\ (J \cup P) \cap L = {}
  BY DEF Guessers, Owers, Lockers, Guessing, Owing, Locking, Judging, Uncounted
<1> HIDE DEF J, P, L
<1>3. IsFiniteSet(J) /\ IsFiniteSet(P) /\ IsFiniteSet(L) /\ IsFiniteSet(Handler)
  BY <1>1, HandlerAssumption, FS_Subset
<1>4. Cardinality(J) \in Nat /\ Cardinality(P) \in Nat /\ Cardinality(L) \in Nat /\ Cardinality(Handler) \in Nat
  BY <1>3, FS_CardinalityType
<1>5. IsFiniteSet(J \cup P) /\ Cardinality(J \cup P) = Cardinality(J) + Cardinality(P)
  <2>1. Cardinality(J \cap P) = 0
    BY <1>2, FS_EmptySet
  <2>2. /\ IsFiniteSet(J \cup P)
        /\ Cardinality(J \cup P) = Cardinality(J) + Cardinality(P) - Cardinality(J \cap P)
    BY <1>3, FS_Union
  <2> QED
    BY <1>4, <2>1, <2>2
<1>6. Cardinality((J \cup P) \cup L) = Cardinality(J) + Cardinality(P) + Cardinality(L)
  <2>1. Cardinality((J \cup P) \cap L) = 0
    BY <1>2, FS_EmptySet
  <2>2. Cardinality((J \cup P) \cup L) = Cardinality(J \cup P) + Cardinality(L) - Cardinality((J \cup P) \cap L)
    BY <1>3, <1>5, FS_Union
  <2> QED
    BY <1>4, <1>5, <2>1, <2>2
<1>7. Cardinality((J \cup P) \cup L) <= Cardinality(Handler)
  BY <1>1, <1>3, FS_Subset
<1> QED
  BY <1>4, <1>6, <1>7 DEF J, P, L

\* How the sets of a key change when one goroutine takes a step.
LEMMA SetsMove ==
    ASSUME TypeInv, NEW h \in Handler, Serve(h), NEW k \in Key
    PROVE  /\ Guessers(k) \ {h} = Guessers(k)' \ {h}
           /\ Owers(k) \ {h} = Owers(k)' \ {h}
           /\ Lockers(k) \ {h} = Lockers(k)' \ {h}
<1>1. ASSUME NEW g \in Handler \ {h}
      PROVE  req'[g].pc = req[g].pc /\ req'[g].user = req[g].user /\ req'[g].key = req[g].key
  <2>1. /\ [req[g] EXCEPT !.stale = TRUE].pc = req[g].pc
        /\ [req[g] EXCEPT !.stale = TRUE].user = req[g].user
        /\ [req[g] EXCEPT !.stale = TRUE].key = req[g].key
    BY DEF TypeInv, ReqOK, Request
  <2>2. Untouched(g)
    BY OthersStay DEF TypeInv
  <2> QED
    BY <2>1, <2>2 DEF Untouched
<1> QED
  BY <1>1 DEF Guessers, Owers, Lockers, Guessing, Owing, Locking

\* A statement that is neither of the throttle nor a wrong judgement takes the request into none of
\* the sets, and out of none but the first.
LEMMA OtherStatements ==
    ASSUME TypeInv, NEW h \in Handler, Serve(h), ~Throttles(h), ~(Judges(h) /\ Wrong(h)), ~CheckLock(h),
           Fail(h) => req[h].pc \notin Uncounted \cup {"lock"}
    PROVE  /\ throttle' = throttle /\ guesses' = guesses
           /\ req[h].pc \notin Uncounted /\ req'[h].pc \notin Uncounted
           /\ req'[h].pc \in Judging => req[h].pc \in Judging /\ req'[h].user = req[h].user
<1> USE DEF Throttles
<1>0. req[h] \in Request /\ req \in [Handler -> Request]
  BY DEF TypeInv, ReqOK
<1>1. throttle' = throttle /\ guesses' = guesses
  BY QuietThrottle, QuietGuesses
<1>2. CASE Beginning(h)
  <2>1. PICK q : req' = [req EXCEPT ![h] = q] /\ Fresh(q)
    BY <1>2, BeginNew
  <2>2. req[h].pc = "idle"
    BY <1>2, BeginNew
  <2> QED
    BY <1>0, <1>1, <2>1, <2>2 DEF Fresh, Firsts, Uncounted, Judging
<1>3. CASE Guarding(h) \/ Keeping(h)
  <2>1. req[h].pc \notin Uncounted
    BY <1>3 DEF Guarding, Keeping, Uncounted, CheckPassword, AskFactor, CreateSession, CheckActive, ReadSecret,
       AdvanceStep, ConsumeRecoveryCode, CheckStatus, SetPendingSecret, ReadPending, Enable, Disable,
       RegenerateRecoveryCodes, FindForSignIn, Activate, Insert, LoadOwn, CheckLastAdmin, WriteUser,
       WriteServers, DeleteUser, LoadForLink, IssueLink, Consume, SetPassword, RevokeAll
  <2>2. req'[h].pc \in Judging => req[h].pc \in Judging /\ req'[h].user = req[h].user
    <3>1. SUFFICES ASSUME req'[h].pc \in Judging PROVE req[h].pc \in Judging /\ req'[h].user = req[h].user
      OBVIOUS
    <3>2. req'[h].user = req[h].user
      BY <1>3, <3>1, InFlightMoves DEF Moved, Idle, Judging, TypeInv
    <3>3. ReadSecret(h) \/ Fail(h)
      BY <3>1, ComesFrom DEF Arrives, Judging
    <3>4. CASE ReadSecret(h)
      BY <3>2, <3>4 DEF ReadSecret, Judging
    <3>5. CASE Fail(h)
      <4>1. End(h)
        BY <3>5 DEF Fail
      <4> QED
        BY <1>0, <3>1, <4>1 DEF End, Idle, Judging
    <3> QED
      BY <3>3, <3>4, <3>5
  <2>3. req'[h].pc \notin Uncounted
    <3>1. ASSUME NEW p \in Steps \ Uncounted, Go(h, p) PROVE req'[h].pc \notin Uncounted
      BY <1>0, <3>1 DEF Go, Request
    <3>2. ASSUME End(h) PROVE req'[h].pc \notin Uncounted
      BY <1>0, <3>2 DEF End, Idle, Uncounted
    <3>3. CASE CheckPassword(h) \/ AskFactor(h) \/ CreateSession(h) \/ CheckActive(h) \/ ReadSecret(h)
      BY <3>1, <3>2, <3>3 DEF Judges, CheckPassword, AskFactor, CreateSession, CheckActive, ReadSecret, Steps,
         Plain, Uncounted
    <3>4. CASE AdvanceStep(h) \/ ConsumeRecoveryCode(h)
      BY <3>1, <3>4 DEF Judges, AdvanceStep, ConsumeRecoveryCode, Confirmed, Steps, Plain, Uncounted
    <3>5. CASE \/ CheckStatus(h) \/ SetPendingSecret(h) \/ ReadPending(h) \/ Enable(h) \/ Disable(h)
               \/ RegenerateRecoveryCodes(h)
      BY <3>1, <3>2, <3>5 DEF CheckStatus, SetPendingSecret, ReadPending, Enable, Disable,
         RegenerateRecoveryCodes, Steps, Plain, Uncounted
    <3>6. CASE FindForSignIn(h)
      <4>1. ASSUME NEW w, req' = [req EXCEPT ![h].pc = "factor", ![h].pw = w]
            PROVE  req'[h].pc \notin Uncounted
        BY <1>0, <4>1 DEF Request, Uncounted
      <4>2. ASSUME NEW w, NEW o, req' = [req EXCEPT ![h] = [req[h] EXCEPT !.pc = "activate", !.pw = w, !.role = o]]
            PROVE  req'[h].pc \notin Uncounted
        BY <1>0, <4>2 DEF Request, Uncounted
      <4> QED
        BY <3>1, <3>2, <3>6, <4>1, <4>2 DEF FindForSignIn, Steps, Plain, Uncounted
    <3>7. CASE LoadOwn(h)
      <4>1. ASSUME NEW w, NEW o,
                   req' = [req EXCEPT ![h] = [req[h] EXCEPT !.pc = "check", !.role = w, !.status = o]]
            PROVE  req'[h].pc \notin Uncounted
        BY <1>0, <4>1 DEF Request, Uncounted
      <4> QED
        BY <3>2, <3>7, <4>1 DEF LoadOwn
    <3>8. CASE LoadForLink(h)
      <4>1. ASSUME NEW k, req' = [req EXCEPT ![h].pc = "issue", ![h].kind = k]
            PROVE  req'[h].pc \notin Uncounted
        BY <1>0, <4>1 DEF Request, Uncounted
      <4> QED
        BY <3>2, <3>8, <4>1 DEF LoadForLink
    <3>9. CASE \E asked \in BOOLEAN : CheckLastAdmin(h, asked)
      <4>1. ASSUME NEW p \in {"remove", "write"}, NEW b, req' = [req EXCEPT ![h].pc = p, ![h].stale = b]
            PROVE  req'[h].pc \notin Uncounted
        BY <1>0, <4>1 DEF Request, Uncounted
      <4>2. End(h) \/ \E p \in {"remove", "write"}, b \in BOOLEAN : req' = [req EXCEPT ![h].pc = p, ![h].stale = b]
        BY <1>0, <3>9 DEF CheckLastAdmin, Request
      <4> QED
        BY <3>2, <4>1, <4>2
    <3>10. CASE Activate(h) \/ WriteUser(h) \/ DeleteUser(h) \/ SetPassword(h)
      <4>1. ASSUME NEW p \in Steps \ Uncounted, req' = Written(h, [req[h] EXCEPT !.pc = p])
            PROVE  req'[h].pc \notin Uncounted
        BY <1>0, <4>1 DEF Written, Request
      <4>2. ASSUME req' = Written(h, Idle) PROVE req'[h].pc \notin Uncounted
        BY <4>2 DEF Written, Idle, Uncounted
      <4> QED
        BY <3>2, <3>10, <4>1, <4>2 DEF Activate, WriteUser, DeleteUser, SetPassword, Steps, Plain, Uncounted
    <3>11. CASE Insert(h) \/ WriteServers(h) \/ IssueLink(h) \/ Consume(h) \/ RevokeAll(h)
      BY <3>1, <3>2, <3>11 DEF Insert, WriteServers, IssueLink, Consume, RevokeAll, Steps, Plain, Uncounted
    <3>12. CASE Fail(h)
      BY <3>2, <3>12 DEF Fail
    <3> QED
      BY <1>3, <3>3, <3>4, <3>5, <3>6, <3>7, <3>8, <3>9, <3>10, <3>11, <3>12 DEF Guarding, Keeping
  <2> QED
    BY <1>1, <2>1, <2>2, <2>3
<1> QED
  BY <1>2, <1>3 DEF Serve, Beginning, Guarding, Keeping

\* How the sizes of the sets of a key change when one goroutine takes a step.
One(b) == IF b THEN 1 ELSE 0

LEMMA SizesMove ==
    ASSUME TypeInv, NEW h \in Handler, Serve(h), NEW k \in Key
    PROVE  /\ Cardinality(Guessers(k)') = Cardinality(Guessers(k)) - One(Guessing(req[h], k)) + One(Guessing(req'[h], k))
           /\ Cardinality(Owers(k)') = Cardinality(Owers(k)) - One(Owing(req[h], k)) + One(Owing(req'[h], k))
           /\ Cardinality(Lockers(k)') = Cardinality(Lockers(k)) - One(Locking(req[h], k)) + One(Locking(req'[h], k))
<1>1. ASSUME NEW S \in SUBSET Handler, NEW T \in SUBSET Handler, S \ {h} = T \ {h}
      PROVE  Cardinality(T) = Cardinality(S) - One(h \in S) + One(h \in T)
  BY <1>1, OneMoves DEF One
<1>2. /\ Guessers(k) \in SUBSET Handler /\ Guessers(k)' \in SUBSET Handler
      /\ (h \in Guessers(k) <=> Guessing(req[h], k)) /\ (h \in Guessers(k)' <=> Guessing(req'[h], k))
  BY DEF Guessers
<1>3. /\ Owers(k) \in SUBSET Handler /\ Owers(k)' \in SUBSET Handler
      /\ (h \in Owers(k) <=> Owing(req[h], k)) /\ (h \in Owers(k)' <=> Owing(req'[h], k))
  BY DEF Owers
<1>4. /\ Lockers(k) \in SUBSET Handler /\ Lockers(k)' \in SUBSET Handler
      /\ (h \in Lockers(k) <=> Locking(req[h], k)) /\ (h \in Lockers(k)' <=> Locking(req'[h], k))
  BY DEF Lockers
<1>5. Cardinality(Guessers(k)') = Cardinality(Guessers(k)) - One(h \in Guessers(k)) + One(h \in Guessers(k)')
  BY <1>1, <1>2, SetsMove
<1>6. Cardinality(Owers(k)') = Cardinality(Owers(k)) - One(h \in Owers(k)) + One(h \in Owers(k)')
  BY <1>1, <1>3, SetsMove
<1>7. Cardinality(Lockers(k)') = Cardinality(Lockers(k)) - One(h \in Lockers(k)) + One(h \in Lockers(k)')
  BY <1>1, <1>4, SetsMove
<1> QED
  BY <1>2, <1>3, <1>4, <1>5, <1>6, <1>7 DEF One

\* Where a key stands, in numbers.
Within(n, lock, g, J, P, L, m, H) ==
    /\ n <= m - 1 + L
    /\ lock => g + J <= m - 1 + H
    /\ ~lock => g <= n + P

LEMMA KeyNumbers ==
    ASSUME TypeInv, NEW k \in Key, KeyBounded(k), NEW h \in Handler
    PROVE  /\ throttle[k].n \in Nat /\ throttle[k].lock \in BOOLEAN /\ guesses[k] \in Nat
           /\ Limit[k] \in Nat /\ Limit[k] > 0
           /\ Within(throttle[k].n, throttle[k].lock, guesses[k], Cardinality(Guessers(k)),
                     Cardinality(Owers(k)), Cardinality(Lockers(k)), Limit[k], Cardinality(Handler))
           /\ Locking(req[h], k) => Cardinality(Lockers(k)) > 0
<1>1. /\ throttle[k].n \in Nat /\ throttle[k].lock \in BOOLEAN /\ guesses[k] \in Nat
      /\ Limit[k] \in Nat /\ Limit[k] > 0
  BY DEF TypeInv, CountersOK
<1>2. Within(throttle[k].n, throttle[k].lock, guesses[k], Cardinality(Guessers(k)),
             Cardinality(Owers(k)), Cardinality(Lockers(k)), Limit[k], Cardinality(Handler))
  BY DEF Within, KeyBounded
<1>3. Locking(req[h], k) => Cardinality(Lockers(k)) > 0
  <2>1. SUFFICES ASSUME Locking(req[h], k) PROVE Cardinality(Lockers(k)) # 0
    BY ThreeSets
  <2>2. h \in Lockers(k)
    BY <2>1 DEF Lockers
  <2>3. IsFiniteSet(Lockers(k))
    BY HandlerAssumption, FS_Subset DEF Lockers
  <2> QED
    BY <2>2, <2>3, FS_EmptySet
<1> QED
  BY <1>1, <1>2, <1>3

LEMMA KeyFromNumbers ==
    ASSUME TypeInv, NEW h \in Handler, Serve(h), NEW k \in Key,
           Within(throttle'[k].n, throttle'[k].lock, guesses'[k],
                  Cardinality(Guessers(k)) - One(Guessing(req[h], k)) + One(Guessing(req'[h], k)),
                  Cardinality(Owers(k)) - One(Owing(req[h], k)) + One(Owing(req'[h], k)),
                  Cardinality(Lockers(k)) - One(Locking(req[h], k)) + One(Locking(req'[h], k)),
                  Limit[k], Cardinality(Handler))
    PROVE  KeyBounded(k)'
<1>1. Within(throttle'[k].n, throttle'[k].lock, guesses'[k], Cardinality(Guessers(k)'),
             Cardinality(Owers(k)'), Cardinality(Lockers(k)'), Limit[k], Cardinality(Handler))
  BY SizesMove
<1> QED
  BY <1>1 DEF Within, KeyBounded

LEMMA KeyServe ==
    ASSUME TypeInv, NEW h \in Handler, Serve(h), NEW k \in Key, KeyBounded(k), "uncounted" \notin excuse'
    PROVE  KeyBounded(k)'
<1> DEFINE r == req[h]  q == req'[h]
           J == Cardinality(Guessers(k))  P == Cardinality(Owers(k))  L == Cardinality(Lockers(k))
           H == Cardinality(Handler)
           n == throttle[k].n  lock == throttle[k].lock  g == guesses[k]  m == Limit[k]
<1> SUFFICES Within(throttle'[k].n, throttle'[k].lock, guesses'[k],
                    J - One(Guessing(r, k)) + One(Guessing(q, k)),
                    P - One(Owing(r, k)) + One(Owing(q, k)),
                    L - One(Locking(r, k)) + One(Locking(q, k)), m, H)
  BY KeyFromNumbers
<1> HIDE DEF J, P, L, H, n, lock, g, m
<1>11. n = throttle[k].n /\ lock = throttle[k].lock /\ g = guesses[k] /\ m = Limit[k]
  BY DEF n, lock, g, m
<1>12. /\ n \in Nat /\ lock \in BOOLEAN /\ g \in Nat /\ m \in Nat /\ m > 0
       /\ J \in Nat /\ P \in Nat /\ L \in Nat /\ H \in Nat /\ J + P + L <= H
       /\ Within(n, lock, g, J, P, L, m, H) /\ (Locking(r, k) => L > 0)
  BY KeyNumbers, ThreeSets DEF J, P, L, H, n, lock, g, m
<1> USE <1>11, <1>12
<1>0. /\ r \in Request /\ Ready(r) /\ req \in [Handler -> Request]
      /\ throttle \in [Key -> [n : Nat, ttl : BOOLEAN, lock : BOOLEAN]] /\ guesses \in [Key -> Nat]
  BY DEF TypeInv, ReqOK, CountersOK
<1>1. CASE Judges(h) /\ Wrong(h)
  <2>1. r.pc \in Judging /\ r.user \in User /\ r.user # Ip
    BY <1>0, <1>1 DEF Judges, Judging, CheckPassword, ReadSecret, AdvanceStep, ConsumeRecoveryCode, Ready
  <2>2. throttle' = throttle
    BY <1>1 DEF Judges, CheckPassword, ReadSecret, AdvanceStep, ConsumeRecoveryCode
  <2>3. q.pc = "incr" /\ q.key = r.user
    BY <1>0, <1>1 DEF Wrong, Request
  <2>4. guesses'[k] = IF k \in {r.user, Ip} THEN g + 1 ELSE g
    BY <1>0, <1>1, <2>1 DEF Wrong
  <2>5. /\ Guessing(r, k) <=> k \in {r.user, Ip}
        /\ ~Guessing(q, k) /\ ~Owing(r, k) /\ ~Locking(r, k) /\ ~Locking(q, k)
        /\ Owing(q, k) <=> k \in {r.user, Ip}
    BY <2>1, <2>3 DEF Guessing, Owing, Locking, Judging, Uncounted
  <2> QED
    BY <2>2, <2>4, <2>5 DEF Within, One
<1>2. ASSUME NextKey(h), r.key \in Key
      PROVE  IF r.key = Ip THEN q.pc = "idle" ELSE q.pc = "incr" /\ q.key = Ip
  BY <1>0, <1>2 DEF NextKey, End, Idle, Request
<1>3. ASSUME r.pc \in Uncounted, NextKey(h)
      PROVE  /\ ~Guessing(q, k) /\ ~Locking(q, k)
             /\ k = r.key => ~Owing(q, k)
             /\ k # r.key => (Owing(q, k) <=> Owing(r, k))
  <2>1. r.key \in Key
    BY <1>0 DEF Request
  <2> QED
    BY <1>2, <1>3, <2>1 DEF Guessing, Locking, Owing, Judging, Uncounted
<1>4. ASSUME r.pc \in Uncounted, NEW p \in {"expire", "setlock"}, Go(h, p)
      PROVE  /\ ~Guessing(q, k) /\ (Owing(q, k) <=> k = Ip /\ r.key # Ip)
             /\ Locking(q, k) <=> k = r.key /\ (p = "setlock" \/ m = 1)
  <2>1. q.pc = p /\ q.key = r.key
    BY <1>0, <1>4 DEF Go, Request
  <2> QED
    BY <2>1 DEF Guessing, Locking, Owing, Judging, Uncounted
<1>5. CASE Increment(h)
  <2>1. /\ r.pc = "incr" /\ guesses' = guesses
        /\ throttle' = [throttle EXCEPT ![r.key].n = throttle[r.key].n + 1]
    BY <1>5 DEF Increment
  <2>2. /\ throttle'[k].lock = lock
        /\ throttle'[k].n = IF k = r.key THEN n + 1 ELSE n
    <3>1. r.key \in Key
      BY <1>0 DEF Request
    <3>2. CASE k = r.key
      <4>1. throttle'[k] = [throttle[k] EXCEPT !.n = n + 1]
        BY <1>0, <2>1, <3>1, <3>2
      <4>2. throttle[k] \in [n : Nat, ttl : BOOLEAN, lock : BOOLEAN]
        BY <1>0
      <4> QED
        BY <3>2, <4>1, <4>2
    <3>3. CASE k # r.key
      BY <1>0, <2>1, <3>1, <3>3
    <3> QED
      BY <3>2, <3>3
  <2>3. r.pc \in Uncounted
    BY <2>1 DEF Uncounted
  <2>4. ~Guessing(r, k) /\ (Owing(r, k) <=> k \in {r.key, Ip}) /\ ~Locking(r, k)
    BY <2>1 DEF Guessing, Owing, Locking, Judging, Uncounted
  <2>7. guesses'[k] = g /\ throttle'[k].lock = lock /\ (k = r.key => throttle'[k].n = n + 1)
    BY <2>1, <2>2
  <2>5. CASE k = r.key
    <3>1. CASE n + 1 = 1
      <4>1. Go(h, "expire")
        BY <1>5, <2>5, <3>1 DEF Increment
      <4>2. ~Guessing(q, k) /\ ~Owing(q, k) /\ (Locking(q, k) <=> m = 1)
        BY <1>4, <2>3, <2>5, <4>1
      <4>3. CASE m = 1
        <5>1. /\ One(Guessing(r, k)) = 0 /\ One(Guessing(q, k)) = 0 /\ One(Owing(r, k)) = 1
              /\ One(Owing(q, k)) = 0 /\ One(Locking(r, k)) = 0 /\ One(Locking(q, k)) = 1
          BY <2>4, <2>5, <4>2, <4>3 DEF One
        <5>2. n = 0 /\ throttle'[k].n = 1 /\ guesses'[k] = g /\ throttle'[k].lock = lock
          BY <2>7, <2>5, <3>1
        <5>3. (lock => g + J <= m - 1 + H) /\ (~lock => g <= P)
          BY <5>2 DEF Within
        <5> QED
          BY <1>12, <4>3, <5>1, <5>2, <5>3 DEF Within
      <4>4. CASE m # 1
        BY <2>7, <2>4, <2>5, <3>1, <4>2, <4>4 DEF Within, One
      <4> QED
        BY <4>3, <4>4
    <3>2. CASE n + 1 # 1 /\ n + 1 >= m
      <4>1. Go(h, "setlock")
        BY <1>5, <2>5, <3>2 DEF Increment
      <4>2. ~Guessing(q, k) /\ ~Owing(q, k) /\ Locking(q, k)
        BY <1>4, <2>3, <2>5, <4>1
      <4> QED
        BY <2>1, <2>2, <2>4, <2>5, <4>2 DEF Within, One
    <3>3. CASE n + 1 # 1 /\ ~(n + 1 >= m)
      <4>1. NextKey(h)
        BY <1>5, <2>5, <3>3 DEF Increment
      <4>2. ~Guessing(q, k) /\ ~Owing(q, k) /\ ~Locking(q, k)
        BY <1>3, <2>3, <2>5, <4>1
      <4> QED
        BY <2>1, <2>2, <2>4, <2>5, <3>3, <4>2 DEF Within, One
    <3> QED
      BY <3>1, <3>2, <3>3
  <2>6. CASE k # r.key
    <3>1. Go(h, "expire") \/ Go(h, "setlock") \/ NextKey(h)
      BY <1>5 DEF Increment
    <3>2. ~Guessing(q, k) /\ (Owing(q, k) <=> Owing(r, k)) /\ ~Locking(q, k)
      BY <1>3, <1>4, <2>3, <2>4, <2>6, <3>1
    <3> QED
      BY <2>1, <2>2, <2>4, <2>6, <3>2 DEF Within, One
  <2> QED
    BY <2>5, <2>6
<1>6. CASE SetExpiry(h)
  <2>1. r.pc = "expire" /\ guesses' = guesses
    BY <1>6 DEF SetExpiry
  <2>2. throttle'[k].lock = lock /\ throttle'[k].n = n
    <3>1. /\ throttle[k] \in [n : Nat, ttl : BOOLEAN, lock : BOOLEAN]
          /\ throttle'[k] = throttle[k] \/ \E b : throttle'[k] = [throttle[k] EXCEPT !.ttl = b]
      BY <1>0, <1>6 DEF SetExpiry, Request
    <3> QED
      BY <3>1
  <2>3. r.pc \in Uncounted
    BY <2>1 DEF Uncounted
  <2>4. ~Guessing(r, k) /\ (Owing(r, k) <=> k = Ip /\ r.key # Ip) /\ (Locking(r, k) <=> k = r.key /\ m = 1)
    BY <2>1 DEF Guessing, Owing, Locking, Judging, Uncounted
  <2>5. CASE Limit[r.key] = 1
    <3>1. Go(h, "setlock")
      BY <1>6, <2>5 DEF SetExpiry
    <3>2. ~Guessing(q, k) /\ (Owing(q, k) <=> Owing(r, k)) /\ (Locking(q, k) <=> Locking(r, k))
      BY <1>4, <2>3, <2>4, <2>5, <3>1
    <3> QED
      BY <2>1, <2>2, <2>4, <3>2 DEF Within, One
  <2>6. CASE Limit[r.key] # 1
    <3>1. NextKey(h)
      BY <1>6, <2>6 DEF SetExpiry
    <3>2. ~Guessing(q, k) /\ (Owing(q, k) <=> Owing(r, k)) /\ ~Locking(q, k) /\ ~Locking(r, k)
      BY <1>3, <2>3, <2>4, <2>6, <3>1
    <3> QED
      BY <2>1, <2>2, <2>4, <3>2 DEF Within, One
  <2> QED
    BY <2>5, <2>6
<1>7. CASE SetLock(h)
  <2>1. r.pc = "setlock" /\ guesses' = guesses /\ NextKey(h)
    BY <1>7 DEF SetLock
  <2>2. throttle'[k] = IF k = r.key THEN [n |-> 0, ttl |-> FALSE, lock |-> TRUE] ELSE throttle[k]
    BY <1>0, <1>7 DEF SetLock, Request
  <2>3. r.pc \in Uncounted
    BY <2>1 DEF Uncounted
  <2>4. ~Guessing(r, k) /\ (Owing(r, k) <=> k = Ip /\ r.key # Ip) /\ (Locking(r, k) <=> k = r.key)
    BY <2>1 DEF Guessing, Owing, Locking, Judging, Uncounted
  <2>5. ~Guessing(q, k) /\ (Owing(q, k) <=> Owing(r, k)) /\ ~Locking(q, k)
    BY <1>3, <2>1, <2>3, <2>4
  <2>6. CASE k # r.key
    BY <2>1, <2>2, <2>4, <2>5, <2>6 DEF Within, One
  <2>7. CASE k = r.key
    <3>1. throttle'[k].n = 0 /\ throttle'[k].lock /\ guesses'[k] = g
      BY <2>1, <2>2, <2>7
    <3>2. g + J <= m - 1 + H
      BY DEF Within
    <3> QED
      BY <2>4, <2>5, <2>7, <3>1, <3>2 DEF Within, One
  <2> QED
    BY <2>6, <2>7
<1>8. CASE RecordSuccess(h)
  <2>1. r.pc = "success" /\ End(h) /\ r.user \in User
    BY <1>0, <1>8 DEF RecordSuccess, Ready
  <2>2. IF k = r.user THEN throttle'[k].lock = lock /\ throttle'[k].n = 0 /\ guesses'[k] = 0
        ELSE throttle'[k] = throttle[k] /\ guesses'[k] = g
    <3>1. CASE k = r.user
      <4>1. throttle'[k] = [throttle[k] EXCEPT !.n = 0, !.ttl = FALSE] /\ guesses'[k] = 0
        BY <1>0, <1>8, <3>1 DEF RecordSuccess
      <4>2. throttle[k] \in [n : Nat, ttl : BOOLEAN, lock : BOOLEAN]
        BY <1>0
      <4> QED
        BY <3>1, <4>1, <4>2
    <3>2. CASE k # r.user
      BY <1>0, <1>8, <2>1, <3>2 DEF RecordSuccess
    <3> QED
      BY <3>1, <3>2
  <2>3. q.pc = "idle"
    BY <1>0, <2>1 DEF End, Idle
  <2>4. /\ ~Guessing(r, k) /\ ~Owing(r, k) /\ ~Locking(r, k)
        /\ ~Guessing(q, k) /\ ~Owing(q, k) /\ ~Locking(q, k)
    BY <2>1, <2>3 DEF Guessing, Owing, Locking, Judging, Uncounted
  <2> QED
    BY <2>2, <2>4 DEF Within, One
<1>9. CASE CheckLock(h)
  <2>1. r.pc = "lock" /\ throttle' = throttle /\ guesses' = guesses /\ r.user \in User
    BY <1>0, <1>9 DEF CheckLock, Ready
  <2>2. ~Guessing(r, k) /\ ~Owing(r, k) /\ ~Locking(r, k)
    BY <2>1 DEF Guessing, Owing, Locking, Judging, Uncounted
  <2>3. CASE Locked(r.user)
    <3>1. q.pc = "idle"
      BY <1>0, <1>9, <2>3 DEF CheckLock, End, Idle
    <3>2. ~Guessing(q, k) /\ ~Owing(q, k) /\ ~Locking(q, k)
      BY <3>1 DEF Guessing, Owing, Locking, Judging, Uncounted
    <3> QED
      BY <2>1, <2>2, <3>2 DEF Within, One
  <2>4. CASE ~Locked(r.user)
    <3>1. q.pc \in {"password", "secret", "recover"} /\ q.user = r.user
      BY <1>0, <1>9, <2>4 DEF CheckLock, Go, Request
    <3>2. ~Owing(q, k) /\ ~Locking(q, k) /\ (Guessing(q, k) => k \in {r.user, Ip})
      BY <3>1 DEF Guessing, Owing, Locking, Judging, Uncounted
    <3>3. Guessing(q, k) => ~lock
      BY <2>4, <3>2 DEF Locked
    <3> QED
      BY <2>1, <2>2, <3>2, <3>3 DEF Within, One
  <2> QED
    BY <2>3, <2>4
<1>10. CASE ~Throttles(h) /\ ~(Judges(h) /\ Wrong(h)) /\ ~CheckLock(h)
  <2>1. Fail(h) => r.pc \notin Uncounted \cup {"lock"}
    BY DEF Fail, Uncounted
  <2>2. /\ throttle' = throttle /\ guesses' = guesses
        /\ r.pc \notin Uncounted /\ q.pc \notin Uncounted
        /\ q.pc \in Judging => r.pc \in Judging /\ q.user = r.user
    BY <1>10, <2>1, OtherStatements
  <2>3. /\ ~Owing(r, k) /\ ~Locking(r, k) /\ ~Owing(q, k) /\ ~Locking(q, k)
        /\ Guessing(q, k) => Guessing(r, k)
    BY <2>2 DEF Guessing, Owing, Locking, Uncounted
  <2> QED
    BY <2>2, <2>3 DEF Within, One
<1> QED
  BY <1>1, <1>5, <1>6, <1>7, <1>8, <1>9, <1>10 DEF Throttles

LEMMA GuessServe == ASSUME TypeInv, GuessInv, NEW h \in Handler, Serve(h) PROVE GuessInv'
<1>1. CASE "uncounted" \in excuse'
  BY <1>1 DEF GuessInv
<1>2. CASE "uncounted" \notin excuse'
  <2>1. \A k \in Key : KeyBounded(k)
    BY <1>2, ExcuseGrows DEF GuessInv
  <2>2. \A k \in Key : KeyBounded(k)'
    BY <1>2, <2>1, KeyServe
  <2> QED
    BY <2>2 DEF GuessInv
<1> QED
  BY <1>1, <1>2

LEMMA GuessExpire == ASSUME TypeInv, GuessInv, NEW d \in Key, Expire(d) PROVE GuessInv'
<1>1. UNCHANGED <<req, excuse>>
  BY DEF Expire
<1> SUFFICES ASSUME NEW k \in Key, KeyBounded(k) PROVE KeyBounded(k)'
  BY <1>1 DEF GuessInv
<1>3. /\ throttle \in [Key -> [n : Nat, ttl : BOOLEAN, lock : BOOLEAN]] /\ guesses \in [Key -> Nat]
      /\ throttle[k] \in [n : Nat, ttl : BOOLEAN, lock : BOOLEAN] /\ guesses[k] \in Nat
      /\ Limit[k] \in Nat /\ Limit[k] > 0
  BY DEF TypeInv, CountersOK
<1>4. Guessers(k)' = Guessers(k) /\ Owers(k)' = Owers(k) /\ Lockers(k)' = Lockers(k)
  BY <1>1 DEF Guessers, Owers, Lockers
<1>5. /\ Cardinality(Guessers(k)) \in Nat /\ Cardinality(Owers(k)) \in Nat
      /\ Cardinality(Lockers(k)) \in Nat /\ Cardinality(Handler) \in Nat
      /\ Cardinality(Guessers(k)) + Cardinality(Owers(k)) + Cardinality(Lockers(k)) <= Cardinality(Handler)
  BY ThreeSets
<1>6. ASSUME Within(throttle'[k].n, throttle'[k].lock, guesses'[k], Cardinality(Guessers(k)),
                    Cardinality(Owers(k)), Cardinality(Lockers(k)), Limit[k], Cardinality(Handler))
      PROVE  KeyBounded(k)'
  <2>1. Within(throttle'[k].n, throttle'[k].lock, guesses'[k], Cardinality(Guessers(k)'),
               Cardinality(Owers(k)'), Cardinality(Lockers(k)'), Limit[k], Cardinality(Handler))
    BY <1>4, <1>6
  <2> QED
    BY <2>1 DEF Within, KeyBounded
<1>7. CASE k # d
  <2>1. throttle'[k] = throttle[k] /\ guesses'[k] = guesses[k]
    BY <1>3, <1>7 DEF Expire
  <2>2. Within(throttle'[k].n, throttle'[k].lock, guesses'[k], Cardinality(Guessers(k)),
               Cardinality(Owers(k)), Cardinality(Lockers(k)), Limit[k], Cardinality(Handler))
    BY <2>1 DEF Within, KeyBounded
  <2> QED
    BY <1>6, <2>2
<1>8. CASE k = d
  <2>1. guesses'[k] = 0
    BY <1>3, <1>8 DEF Expire
  <2>2. throttle'[k].n \in Nat /\ throttle'[k].n <= throttle[k].n
    <3>1. CASE throttle' = [throttle EXCEPT ![k].lock = FALSE]
      <4>1. throttle'[k] = [throttle[k] EXCEPT !.lock = FALSE]
        BY <1>3, <3>1
      <4> QED
        BY <1>3, <4>1
    <3>2. CASE throttle' = [throttle EXCEPT ![k].n = 0, ![k].ttl = FALSE]
      <4>1. throttle'[k] = [throttle[k] EXCEPT !.n = 0, !.ttl = FALSE]
        BY <1>3, <3>2
      <4> QED
        BY <1>3, <4>1
    <3> QED
      BY <1>8, <3>1, <3>2 DEF Expire
  <2>3. Within(throttle'[k].n, throttle'[k].lock, guesses'[k], Cardinality(Guessers(k)),
               Cardinality(Owers(k)), Cardinality(Lockers(k)), Limit[k], Cardinality(Handler))
    BY <1>3, <1>5, <2>1, <2>2 DEF Within, KeyBounded
  <2> QED
    BY <1>6, <2>3
<1> QED
  BY <1>7, <1>8

LEMMA GuessStep == TypeInv /\ GuessInv /\ [Next]_vars => GuessInv'
<1> SUFFICES ASSUME TypeInv, GuessInv, [Next]_vars PROVE GuessInv'
  OBVIOUS
<1>1. ASSUME NEW h \in Handler, Serve(h) PROVE GuessInv'
  BY <1>1, GuessServe
<1>2. ASSUME NEW k \in Key, Expire(k) PROVE GuessInv'
  BY <1>2, GuessExpire
<1>3. ASSUME UNCHANGED <<req, throttle, guesses, excuse>> PROVE GuessInv'
  BY <1>3 DEF GuessInv, KeyBounded, Guessers, Owers, Lockers
<1>4. CASE \E s \in sessions : SignOut(s)
  BY <1>3, <1>4 DEF SignOut
<1>5. CASE Tick
  BY <1>3, <1>5 DEF Tick
<1>6. CASE UNCHANGED vars
  BY <1>3, <1>6 DEF vars
<1> QED
  BY <1>1, <1>2, <1>4, <1>5, <1>6 DEF Next

LEMMA GuessInit == Init => GuessInv
<1> SUFFICES ASSUME Init, NEW k \in Key PROVE KeyBounded(k)
  BY DEF GuessInv
<1>1. throttle[k].n = 0 /\ ~throttle[k].lock /\ guesses[k] = 0
  BY DEF Init
<1>2. TypeInv
  BY TypeInit
<1>3. /\ Cardinality(Owers(k)) \in Nat /\ Cardinality(Lockers(k)) \in Nat
      /\ Limit[k] \in Nat /\ Limit[k] > 0
  BY <1>2, ThreeSets
<1> QED
  BY <1>1, <1>3 DEF KeyBounded

LEMMA GuessBound == TypeInv /\ GuessInv => GuessesBounded
<1> SUFFICES ASSUME TypeInv, NEW k \in Key, KeyBounded(k) PROVE guesses[k] < Limit[k] + Cardinality(Handler)
  BY DEF GuessInv, GuessesBounded
<1>1. throttle[k].n \in Nat /\ throttle[k].lock \in BOOLEAN /\ guesses[k] \in Nat /\ Limit[k] \in Nat
  BY DEF TypeInv, CountersOK
<1>2. /\ Cardinality(Guessers(k)) \in Nat /\ Cardinality(Owers(k)) \in Nat
      /\ Cardinality(Lockers(k)) \in Nat /\ Cardinality(Handler) \in Nat
      /\ Cardinality(Guessers(k)) + Cardinality(Owers(k)) + Cardinality(Lockers(k)) <= Cardinality(Handler)
  BY ThreeSets
<1> QED
  BY <1>1, <1>2 DEF KeyBounded

\* However sign-ins and codes interleave, whatever a goroutine was at when a lock was set, the wrong
\* guesses of a key stay within its limit and one more for each goroutine but one, as long as no
\* statement of the throttle failed.
THEOREM GuessesBoundedHolds == Spec => []GuessesBounded
<1>1. TypeInv /\ GuessInv /\ [Next]_vars => (TypeInv /\ GuessInv)'
  BY TypeStep, GuessStep
<1> QED
  BY <1>1, TypeInit, GuessInit, GuessBound, PTL DEF Spec

================
