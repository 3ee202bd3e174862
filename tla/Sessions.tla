------------------------------ MODULE Sessions ------------------------------
(***************************************************************************)
(* Accounts, devices and refresh tokens: the handlers of auth, devices and  *)
(* admin that write the tables users, devices and refresh_tokens.           *)
(*                                                                          *)
(* A statement or a transaction is one step; between two of them other      *)
(* requests run, and a request may stop for good (Abort).  Where a handler  *)
(* only reads, several reads in a row are one step.                         *)
(*                                                                          *)
(* A password is a number: a change makes it the next one.  devices.revoked *)
(* is never set by the code (a revoked device is deleted) and is left out.  *)
(* An access token lives for minutes; here a device of the table may make   *)
(* authenticated requests at any time.                                      *)
(*                                                                          *)
(* A definition under the comment "Slip" is a plausible mistake in the      *)
(* definition that follows it; no specification uses it.                    *)
(***************************************************************************)
EXTENDS Integers, FiniteSets

CONSTANTS
  User,        \* accounts, each with a name of its own
  Device,      \* the identifiers that uuid draws for devices
  Token,       \* refresh tokens; never drawn twice
  Request,     \* requests in flight at the same time
  Threshold,   \* failed logins that lock an account
  MaxAttempts, \* bound: failed logins of an account between two resets
  MaxPassword  \* bound: changes of password of an account

None == "none"

ASSUME SessionsAssumption ==
  /\ Threshold \in Nat \ {0}
  /\ MaxAttempts \in Nat
  /\ MaxPassword \in Nat
ASSUME UserFinite == IsFiniteSet(User)
ASSUME SessionsNoneAssumption == None \notin User \cup Device \cup Token

VARIABLES
  user,     \* table users
  dev,      \* table devices
  tok,      \* table refresh_tokens
  open,     \* server_settings.registration_open (and the configuration's)
  req,      \* the requests in flight
  forked,   \* ghost: devices whose token was refreshed by a request that found
            \* the row gone when it came to delete it
  late,     \* ghost: devices that got a token from a request which a change of
            \* password overtook, or whose change stopped half-way
  raced,    \* ghost: two deletions of admins had counted before either deleted
  rushed,   \* ghost: two first registrations had counted before either inserted
  founders, \* ghost: accounts that became admin by registering
  failed,   \* ghost: wrong passwords tried since the last reset, by account
  overlap   \* ghost: accounts whose logins have overlapped since the last reset

tables == <<user, dev, tok, open>>
races == <<forked, late, raced, rushed>>
guesses == <<failed, overlap>>
ghosts == <<races, founders, guesses>>
vars == <<user, dev, tok, open, req, forked, late, raced, rushed, founders,
          failed, overlap>>

-----------------------------------------------------------------------------
(* The tables.                                                              *)

UserRow == [status : {"unused", "present", "deleted"}, admin : BOOLEAN,
            password : 0..MaxPassword, attempts : 0..MaxAttempts,
            locked : BOOLEAN]
NoUser == [status |-> "unused", admin |-> FALSE, password |-> 0,
           attempts |-> 0, locked |-> FALSE]

DeviceRow == [status : {"unused", "present", "gone"}, owner : User \cup {None},
              password : 0..MaxPassword]
TokenRow == [status : {"unused", "live", "gone"}, dev : Device \cup {None}]

PC == {"idle", "reg_insert", "verify", "device", "token", "rf_delete",
       "ch_update", "ch_delete", "revoke", "admin", "du_count", "du_exec"}

Idle == [pc |-> "idle", user |-> None, dev |-> None, tok |-> None,
         n |-> 0, password |-> 0, flag |-> FALSE, devs |-> {}, late |-> FALSE]
RequestState ==
  [pc : PC, user : User \cup {None}, dev : Device \cup {None},
   tok : Token \cup {None}, n : 0..MaxAttempts, password : 0..MaxPassword,
   flag : BOOLEAN, devs : SUBSET Device, late : BOOLEAN]

At(r, pc) == req[r].pc = pc
Go(r, state) == req' = [req EXCEPT ![r] = state]
Finish(r) == Go(r, Idle)

Present(u) == user[u].status = "present"
Users == {u \in User : Present(u)}
Admins == {u \in Users : user[u].admin}
Registered(d) == dev[d].status = "present"
DevicesOf(u) == {d \in Device : Registered(d) /\ dev[d].owner = u}
Live(t) == tok[t].status = "live"

Init ==
  /\ user = [u \in User |-> NoUser]
  /\ dev = [d \in Device |-> [status |-> "unused", owner |-> None, password |-> 0]]
  /\ tok = [t \in Token |-> [status |-> "unused", dev |-> None]]
  /\ open \in BOOLEAN
  /\ req = [r \in Request |-> Idle]
  /\ forked = {} /\ late = {} /\ raced = FALSE /\ rushed = FALSE
  /\ founders = {} /\ failed = [u \in User |-> 0] /\ overlap = {}

-----------------------------------------------------------------------------
(* Registration.                                                            *)

\* Slip: the count is compared after the insert it has not made yet.
IsFirstOfTwo(n) == n <= 1

\* is_admin = user_count == 0
IsFirst(n) == n = 0

NewUser(adm) == [NoUser EXCEPT !.status = "present", !.admin = adm]

\* register: the count, the setting and the look-up of the name.
RegisterCount(r, u) ==
  /\ At(r, "idle")
  /\ user[u].status = "unused"
  /\ Users # {} => open
  /\ Go(r, [Idle EXCEPT !.pc = "reg_insert", !.user = u,
                        !.flag = IsFirst(Cardinality(Users))])
  /\ rushed' = \/ rushed
               \/ /\ IsFirst(Cardinality(Users))
                  /\ \E x \in Request : At(x, "reg_insert") /\ req[x].flag
  /\ UNCHANGED <<tables, forked, late, raced, founders, guesses>>

\* The INSERT; users.username is UNIQUE.
RegisterUser(r) ==
  /\ At(r, "reg_insert")
  /\ LET u == req[r].user
     IN IF user[u].status = "unused"
          THEN /\ user' = [user EXCEPT ![u] = NewUser(req[r].flag)]
               /\ founders' = IF req[r].flag THEN founders \cup {u} ELSE founders
               /\ Go(r, [Idle EXCEPT !.pc = "device", !.user = u])
          ELSE Finish(r) /\ UNCHANGED <<user, founders>>
  /\ UNCHANGED <<dev, tok, open, races, guesses>>

\* register and login: the INSERT of a device, which needs its user.
NewDevice(r, d) ==
  /\ At(r, "device")
  /\ dev[d].status = "unused"
  /\ IF Present(req[r].user)
       THEN /\ dev' = [dev EXCEPT ![d] = [status |-> "present",
                         owner |-> req[r].user, password |-> req[r].password]]
            /\ Go(r, [req[r] EXCEPT !.pc = "token", !.dev = d])
       ELSE Finish(r) /\ UNCHANGED dev
  /\ UNCHANGED <<user, tok, open, ghosts>>

\* Slip: no foreign key from refresh_tokens to devices.
AnyDevice(d) == TRUE

\* REFERENCES devices(id): a token needs the row of its device.
DeviceKnown(d) == Registered(d)

\* register, login and refresh: the INSERT of a token.
NewToken(r, t) ==
  /\ At(r, "token")
  /\ tok[t].status = "unused"
  /\ IF DeviceKnown(req[r].dev)
       THEN /\ tok' = [tok EXCEPT ![t] = [status |-> "live", dev |-> req[r].dev]]
            /\ late' = IF req[r].late THEN late \cup {req[r].dev} ELSE late
       ELSE UNCHANGED <<tok, late>>
  /\ Finish(r)
  /\ UNCHANGED <<user, dev, open, forked, raced, rushed, founders, guesses>>

-----------------------------------------------------------------------------
(* Login.                                                                   *)

\* The account as login finds it: locked, or with a hash and a counter that
\* the rest of the handler goes by.
LoginRead(r, u) ==
  /\ At(r, "idle")
  /\ Present(u) /\ ~user[u].locked
  /\ Go(r, [Idle EXCEPT !.pc = "verify", !.user = u, !.n = user[u].attempts,
                        !.password = user[u].password])
  /\ overlap' = IF \E x \in Request : At(x, "verify") /\ req[x].user = u
                  THEN overlap \cup {u} ELSE overlap
  /\ UNCHANGED <<tables, races, founders, failed>>

\* Slip: the counter starts again when the account is locked.
NextAttemptsWrap(n) == IF n + 1 >= Threshold THEN 0 ELSE n + 1

\* failed_attempts + 1, from what was read
NextAttempts(n) == n + 1

\* A wrong password: the new counter is written, and locked_until with it when
\* the threshold is reached.
VerifyFails(r) ==
  /\ At(r, "verify")
  /\ LET u == req[r].user IN
       /\ req[r].n < MaxAttempts /\ failed[u] < MaxAttempts
       /\ user' = IF Present(u)
            THEN [user EXCEPT ![u].attempts = NextAttempts(req[r].n),
                              ![u].locked = @ \/ NextAttempts(req[r].n) >= Threshold]
            ELSE user
       /\ failed' = [failed EXCEPT ![u] = @ + 1]
  /\ Finish(r)
  /\ UNCHANGED <<dev, tok, open, races, founders, overlap>>

\* The right password: counter and lock are reset, a device follows.  The next
\* failures are counted from 0, except by logins that are still under way.
VerifyOk(r) ==
  /\ At(r, "verify")
  /\ LET u == req[r].user IN
       /\ user' = IF Present(u)
            THEN [user EXCEPT ![u].attempts = 0, ![u].locked = FALSE]
            ELSE user
       /\ failed' = [failed EXCEPT ![u] = 0]
       /\ overlap' = IF \E x \in Request \ {r} : At(x, "verify") /\ req[x].user = u
                       THEN overlap ELSE overlap \ {u}
  /\ Go(r, [req[r] EXCEPT !.pc = "device", !.n = 0])
  /\ UNCHANGED <<dev, tok, open, races, founders>>

\* locked_until passes; the counter stays what it was.
LockExpires(u) ==
  /\ user[u].locked
  /\ user' = [user EXCEPT ![u].locked = FALSE]
  /\ UNCHANGED <<dev, tok, open, req, ghosts>>

-----------------------------------------------------------------------------
(* Renewal and logout.                                                      *)

\* Slip: the rows of used tokens are kept and not told from the others.
PresentableOnceIssued(t) == tok[t].status # "unused"

\* refresh finds the row of the token it is shown.
Presentable(t) == Live(t)

\* refresh: the row is found, joined with its device, and the user is read.
RefreshMatch(r, t) ==
  /\ At(r, "idle")
  /\ Presentable(t) /\ Registered(tok[t].dev)
  /\ Go(r, [Idle EXCEPT !.pc = "rf_delete", !.dev = tok[t].dev, !.tok = t])
  /\ UNCHANGED <<tables, ghosts>>

\* Slip: the old token stays valid beside the new one.
WithoutTokensNone(S) == tok

\* The tokens S are deleted.
WithoutTokens(S) ==
  [t \in Token |-> IF t \in S /\ Live(t) THEN [tok[t] EXCEPT !.status = "gone"]
                   ELSE tok[t]]

\* DELETE by id: nobody asks whether there was still a row to delete.
RefreshDelete(r) ==
  /\ At(r, "rf_delete")
  /\ tok' = WithoutTokens({req[r].tok})
  /\ forked' = IF Live(req[r].tok) THEN forked ELSE forked \cup {req[r].dev}
  /\ Go(r, [req[r] EXCEPT !.pc = "token", !.tok = None])
  /\ UNCHANGED <<user, dev, open, late, raced, rushed, founders, guesses>>

\* logout, or the token expires and is cleaned up.
TokenEnds(t) ==
  /\ Live(t)
  /\ tok' = WithoutTokens({t})
  /\ UNCHANGED <<user, dev, open, req, ghosts>>

TokensOf(D) == {t \in Token : Live(t) /\ tok[t].dev \in D}

-----------------------------------------------------------------------------
(* Change of password.                                                      *)

\* The current password is verified for a request of device d.
ChangeRead(r, d) ==
  /\ At(r, "idle")
  /\ Registered(d) /\ user[dev[d].owner].password < MaxPassword
  /\ Go(r, [Idle EXCEPT !.pc = "ch_update", !.dev = d, !.user = dev[d].owner])
  /\ UNCHANGED <<tables, ghosts>>

\* The new hash; the device has shown that it knows the account.
ChangeUpdate(r) ==
  /\ At(r, "ch_update")
  /\ LET u == req[r].user
         d == req[r].dev
     IN /\ user[u].password < MaxPassword
        /\ IF Present(u)
             THEN /\ user' = [user EXCEPT ![u].password = @ + 1]
                  /\ dev' = [dev EXCEPT ![d].password = user[u].password + 1]
             ELSE UNCHANGED <<user, dev>>
  /\ Go(r, [req[r] EXCEPT !.pc = "ch_delete"])
  /\ UNCHANGED <<tok, open, ghosts>>

\* Slip: only this device's own tokens are deleted.
OutdatedOwn(u, d) == TokensOf({d})

\* DELETE ... WHERE user_id = ? AND device_id != ?
Outdated(u, d) == TokensOf({x \in Device : dev[x].owner = u} \ {d})

\* Requests that will still give a token to a device that has not shown the
\* new password of u.
Overtaken(u, d) ==
  {x \in Request :
     \/ /\ req[x].pc \in {"rf_delete", "token"}
        /\ dev[req[x].dev].owner = u /\ req[x].dev # d
        /\ dev[req[x].dev].password # user[u].password
     \/ /\ req[x].pc \in {"verify", "device"}
        /\ req[x].user = u /\ req[x].password # user[u].password}

\* The requests after r has ended, those in S being late.
Leave(r, S) ==
  req' = [x \in Request |-> IF x = r THEN Idle
                            ELSE IF x \in S THEN [req[x] EXCEPT !.late = TRUE]
                            ELSE req[x]]

ChangeDelete(r) ==
  /\ At(r, "ch_delete")
  /\ tok' = WithoutTokens(Outdated(req[r].user, req[r].dev))
  /\ Leave(r, Overtaken(req[r].user, req[r].dev))
  /\ UNCHANGED <<user, dev, open, ghosts>>

-----------------------------------------------------------------------------
(* Revocation.                                                              *)

\* revoke_device and revoke_all_devices, for a request of device c: D is one
\* device of the user, or all of them, but never c.
RevokeStart(r, c, D) ==
  /\ At(r, "idle")
  /\ Registered(c)
  /\ LET others == DevicesOf(dev[c].owner) \ {c}
     IN D = others \/ \E d \in others : D = {d}
  /\ Go(r, [Idle EXCEPT !.pc = "revoke", !.devs = D])
  /\ UNCHANGED <<tables, ghosts>>

\* Slip: the tokens of a deleted device stay.
TokensCascadeNone(D) == {}

\* REFERENCES ... ON DELETE CASCADE, and the DELETEs of the transaction.
TokensCascade(D) == TokensOf(D)

\* The devices D go, and their tokens with them.
DropDevices(D) ==
  /\ dev' = [d \in Device |-> IF d \in D /\ Registered(d)
                                THEN [dev[d] EXCEPT !.status = "gone"] ELSE dev[d]]
  /\ tok' = WithoutTokens(TokensCascade(D))

RevokeCommit(r) ==
  /\ At(r, "revoke")
  /\ DropDevices(req[r].devs)
  /\ Finish(r)
  /\ UNCHANGED <<user, open, ghosts>>

-----------------------------------------------------------------------------
(* Administration.                                                          *)

\* require_auth and require_admin let a request of a pass.
AdminRequest(r, a) ==
  /\ At(r, "idle")
  /\ a \in Admins /\ DevicesOf(a) # {}
  /\ Go(r, [Idle EXCEPT !.pc = "admin", !.user = a])
  /\ UNCHANGED <<tables, ghosts>>

\* create_user: the INSERT of a name that is free.
CreateUser(r, u, adm) ==
  /\ At(r, "admin")
  /\ user[u].status = "unused"
  /\ user' = [user EXCEPT ![u] = NewUser(adm)]
  /\ Finish(r)
  /\ UNCHANGED <<dev, tok, open, ghosts>>

\* update_settings
SetRegistration(r, b) ==
  /\ At(r, "admin")
  /\ open' = b
  /\ Finish(r)
  /\ UNCHANGED <<user, dev, tok, ghosts>>

\* delete_user: another account is looked up; an admin has to be counted.
DeleteUserRead(r, u) ==
  /\ At(r, "admin")
  /\ u # req[r].user /\ Present(u)
  /\ Go(r, [Idle EXCEPT !.pc = IF user[u].admin THEN "du_count" ELSE "du_exec",
                        !.user = u])
  /\ UNCHANGED <<tables, ghosts>>

\* Slip: an admin may go while there is one.
EnoughAdminsOne(n) == n >= 1

EnoughAdmins(n) == n > 1

DeleteUserCount(r) ==
  /\ At(r, "du_count")
  /\ IF EnoughAdmins(Cardinality(Admins))
       THEN /\ Go(r, [req[r] EXCEPT !.pc = "du_exec", !.flag = TRUE])
            /\ raced' = (raced \/ \E x \in Request : At(x, "du_exec") /\ req[x].flag)
       ELSE Finish(r) /\ UNCHANGED raced
  /\ UNCHANGED <<tables, forked, late, rushed, founders, guesses>>

\* The DELETE, which takes the devices and tokens of the account with it.
DeleteUserExec(r) ==
  /\ At(r, "du_exec")
  /\ LET u == req[r].user
     IN IF Present(u)
          THEN /\ user' = [user EXCEPT ![u].status = "deleted"]
               /\ DropDevices(DevicesOf(u))
          ELSE UNCHANGED <<user, dev, tok>>
  /\ Finish(r)
  /\ UNCHANGED <<open, ghosts>>

-----------------------------------------------------------------------------
\* A handler stops where it is.  A change of password between its two writes
\* leaves the tokens of the other devices.
Abort(r) ==
  /\ ~At(r, "idle")
  /\ IF At(r, "ch_delete")
       THEN LET u == req[r].user
                d == req[r].dev
            IN /\ Leave(r, Overtaken(u, d))
               /\ late' = late \cup {tok[t].dev : t \in Outdated(u, d)}
       ELSE Finish(r) /\ UNCHANGED late
  /\ UNCHANGED <<tables, forked, raced, rushed, founders, guesses>>

LoginStep(r) ==
  \/ \E u \in User : RegisterCount(r, u) \/ LoginRead(r, u)
  \/ RegisterUser(r) \/ VerifyFails(r) \/ VerifyOk(r)
  \/ \E d \in Device : NewDevice(r, d)
  \/ \E t \in Token : NewToken(r, t)

TokenStep(r) ==
  \/ \E t \in Token : RefreshMatch(r, t)
  \/ RefreshDelete(r)
  \/ \E d \in Device : ChangeRead(r, d)
  \/ ChangeUpdate(r) \/ ChangeDelete(r)
  \/ \E c \in Device, D \in SUBSET Device : RevokeStart(r, c, D)
  \/ RevokeCommit(r)

AdminStep(r) ==
  \/ \E a \in User : AdminRequest(r, a)
  \/ \E u \in User :
       DeleteUserRead(r, u) \/ \E adm \in BOOLEAN : CreateUser(r, u, adm)
  \/ \E b \in BOOLEAN : SetRegistration(r, b)
  \/ DeleteUserCount(r) \/ DeleteUserExec(r)

OtherStep ==
  \/ \E t \in Token : TokenEnds(t)
  \/ \E u \in User : LockExpires(u)

Next ==
  \/ \E r \in Request : LoginStep(r) \/ TokenStep(r) \/ AdminStep(r) \/ Abort(r)
  \/ OtherStep

Spec == Init /\ [][Next]_vars

-----------------------------------------------------------------------------
(* Properties.                                                              *)

\* Tables and requests keep their types.
SessionsTypeOK ==
  /\ user \in [User -> UserRow]
  /\ dev \in [Device -> DeviceRow]
  /\ tok \in [Token -> TokenRow]
  /\ open \in BOOLEAN
  /\ req \in [Request -> RequestState]
  /\ forked \subseteq Device /\ late \subseteq Device
  /\ raced \in BOOLEAN /\ rushed \in BOOLEAN
  /\ founders \subseteq User /\ overlap \subseteq User
  /\ failed \in [User -> 0..MaxAttempts]

\* A live token belongs to a device that is registered to an account that
\* exists, whatever was under way when the device was revoked or the account
\* deleted (the foreign keys, and the transaction of revoke_device).
TokenNeedsDevice ==
  \A t \in Token : Live(t) =>
    /\ Registered(tok[t].dev)
    /\ dev[tok[t].dev].owner \in Users

\* What can renew the session of d: a live token, or a request that will insert
\* one.
Claims(d) ==
  {t \in Token : Live(t) /\ tok[t].dev = d}
    \cup {r \in Request : At(r, "token") /\ req[r].dev = d}

\* Rotation: a device has at most one token, live or about to be inserted,
\* unless refresh ran for a token whose row it then no longer found.
OneToken ==
  \A d \in Device \ forked : \A x, y \in Claims(d) : x = y

\* After a change of password only devices that know the new one have tokens:
\* others have them only while the change is under way, when a login or refresh
\* overlapped it, or when it stopped between its two writes (change_password).
OldSessionsEnd ==
  \A t \in Token : Live(t) =>
    LET d == tok[t].dev
        u == dev[d].owner
    IN \/ dev[d].password = user[u].password
       \/ d \in late
       \/ \E r \in Request : At(r, "ch_delete") /\ req[r].user = u /\ req[r].dev # d

\* A server that has ever had an account has an admin, unless two deletions of
\* admins overlapped (register, delete_user).
AdminRemains ==
  (\E u \in User : user[u].status # "unused") => Admins # {} \/ raced

\* Registration makes one admin, unless the first two registrations overlapped,
\* or two overlapping deletions of admins have emptied the server, where the next
\* to register is the first again (register, delete_user).
OneFounder ==
  \A u, v \in founders : u = v \/ rushed \/ raced

\* The counter of failed logins counts every wrong password since the last
\* right one, unless logins overlapped (login).
CounterExact ==
  \A u \in Users : user[u].attempts = failed[u] \/ u \in overlap

-----------------------------------------------------------------------------
(* The life of a session.                                                   *)

Renewable(d) ==
  \/ \E t \in Token : Live(t) /\ tok[t].dev = d
  \/ \E r \in Request : req[r].pc \in {"rf_delete", "token"} /\ req[r].dev = d

Phase(d) ==
  IF dev[d].status = "unused" THEN "new"
  ELSE IF Registered(d) /\ Renewable(d) THEN "open" ELSE "closed"

Life == INSTANCE SessionLife WITH phase <- [d \in Device |-> Phase(d)]

\* A session that has ended is never renewed: the tables and the requests under
\* way implement SessionLife.
ImplementsLife == Life!LifeSpec
=============================================================================
