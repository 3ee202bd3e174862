--------------------------- MODULE Sessions_proofs ---------------------------
(* Proofs about Sessions.                                                   *)
EXTENDS SessionsInv, TLAPS, FiniteSetTheorems

-----------------------------------------------------------------------------
(* What the steps do to the requests.                                       *)

\* Two states of a request that differ at most in the ghost late.
Like(a, b) ==
  /\ a.pc = b.pc /\ a.user = b.user /\ a.dev = b.dev /\ a.tok = b.tok
  /\ a.n = b.n /\ a.password = b.password /\ a.flag = b.flag

\* The requests other than r stay what they are, but may become late.
OthersLike(r) ==
  \A x \in Request : x # r => /\ Like(req'[x], req[x])
                              /\ req[x].late => req'[x].late

LEMMA IdleType ==
  /\ Idle \in RequestState
  /\ Idle.pc = "idle" /\ Idle.late = FALSE /\ Idle.flag = FALSE
  /\ Idle.password = 0
  BY SessionsAssumption DEF Idle, RequestState, PC

\* One request goes on.
LEMMA GoEffect ==
  ASSUME req \in [Request -> RequestState], NEW r \in Request,
         NEW s \in RequestState, Go(r, s)
  PROVE  /\ req' \in [Request -> RequestState]
         /\ req'[r] = s
         /\ \A x \in Request : x # r => req'[x] = req[x]
         /\ OthersLike(r)
  <1>1. /\ req' \in [Request -> RequestState]
        /\ req'[r] = s
        /\ \A x \in Request : x # r => req'[x] = req[x]
    BY DEF Go
  <1> QED
    BY <1>1 DEF OthersLike, Like

\* A request ends and makes others late.
LEMMA LeaveEffect ==
  ASSUME req \in [Request -> RequestState], NEW r \in Request, NEW S, Leave(r, S)
  PROVE  /\ req' \in [Request -> RequestState]
         /\ req'[r] = Idle
         /\ OthersLike(r)
         /\ \A x \in S : x \in Request /\ x # r => req'[x].late
  <1>1. ASSUME NEW x \in Request
        PROVE  /\ [req[x] EXCEPT !.late = TRUE] \in RequestState
               /\ [req[x] EXCEPT !.late = TRUE].late
               /\ Like([req[x] EXCEPT !.late = TRUE], req[x])
    <2>1. req[x] \in RequestState
      OBVIOUS
    <2> QED
      BY <2>1 DEF RequestState, Like
  <1>2. req' \in [Request -> RequestState] /\ req'[r] = Idle
    BY <1>1, IdleType DEF Leave
  <1>3. ASSUME NEW x \in Request, x # r
        PROVE  /\ Like(req'[x], req[x])
               /\ req[x].late => req'[x].late
               /\ x \in S => req'[x].late
    <2>1. CASE x \in S
      <3>1. req'[x] = [req[x] EXCEPT !.late = TRUE]
        BY <1>3, <2>1 DEF Leave
      <3> QED
        BY <1>1, <3>1
    <2>2. CASE x \notin S
      <3>1. req'[x] = req[x]
        BY <1>3, <2>2 DEF Leave
      <3> QED
        BY <2>2, <3>1 DEF Like
    <2> QED
      BY <2>1, <2>2
  <1> QED
    BY <1>2, <1>3 DEF OthersLike


\* One request moves.
Moves(r) == req' \in [Request -> RequestState] /\ OthersLike(r)

LEMMA MovesTo ==
  ASSUME SessionsTypeOK, NEW r \in Request, NEW s \in RequestState, Go(r, s)
  PROVE  Moves(r) /\ req'[r] = s
  BY GoEffect DEF SessionsTypeOK, Moves

LEMMA Ends ==
  ASSUME SessionsTypeOK, NEW r \in Request, Finish(r)
  PROVE  Moves(r) /\ req'[r] = Idle
  BY MovesTo, IdleType DEF Finish

LEMMA RegisterCountReq ==
  ASSUME SessionsFit, NEW r \in Request, NEW u \in User,
         RegisterCount(r, u)
  PROVE  /\ Moves(r)
         /\ req'[r].pc = "reg_insert"
         /\ req'[r].user = u
         /\ req'[r].flag = IsFirst(Cardinality(Users))
  <1> DEFINE s == [Idle EXCEPT !.pc = "reg_insert", !.user = u,
                             !.flag = IsFirst(Cardinality(Users))]
  <1>1. SessionsTypeOK /\ Fits(r)
    BY DEF SessionsFit, RequestsFit
  <1>2. Go(r, s)
    BY DEF RegisterCount
  <1>3. Idle \in RequestState
    BY <1>1, IdleType DEF SessionsTypeOK
  <1>4. IsFirst(Cardinality(Users)) \in BOOLEAN
    BY <1>1 DEF IsFirst
  <1>5. s \in RequestState
    BY <1>3, <1>4 DEF RequestState, PC
  <1>7. /\ s.pc = "reg_insert"
        /\ s.user = u
        /\ s.flag = IsFirst(Cardinality(Users))
    BY <1>3, <1>4 DEF RequestState
  <1> HIDE DEF s
  <1> QED
    BY <1>1, <1>2, <1>5, <1>7, MovesTo

LEMMA LoginReadReq ==
  ASSUME SessionsFit, NEW r \in Request, NEW u \in User,
         LoginRead(r, u)
  PROVE  /\ Moves(r)
         /\ req'[r].pc = "verify"
         /\ req'[r].user = u
         /\ req'[r].n = user[u].attempts
         /\ req'[r].password = user[u].password
  <1> DEFINE s == [Idle EXCEPT !.pc = "verify", !.user = u, !.n = user[u].attempts,
                             !.password = user[u].password]
  <1>1. SessionsTypeOK /\ Fits(r)
    BY DEF SessionsFit, RequestsFit
  <1>2. Go(r, s)
    BY DEF LoginRead
  <1>3. Idle \in RequestState
    BY <1>1, IdleType DEF SessionsTypeOK
  <1>4. user[u].attempts \in 0..MaxAttempts /\ user[u].password \in 0..MaxPassword
    BY <1>1 DEF SessionsTypeOK, UserRow
  <1>5. s \in RequestState
    BY <1>3, <1>4 DEF RequestState, PC
  <1>7. /\ s.pc = "verify"
        /\ s.user = u
        /\ s.n = user[u].attempts
        /\ s.password = user[u].password
    BY <1>3, <1>4 DEF RequestState
  <1> HIDE DEF s
  <1> QED
    BY <1>1, <1>2, <1>5, <1>7, MovesTo

LEMMA VerifyOkReq ==
  ASSUME SessionsFit, NEW r \in Request,
         VerifyOk(r)
  PROVE  /\ Moves(r)
         /\ req'[r].pc = "device"
         /\ req'[r].user = req[r].user
         /\ req'[r].password = req[r].password
         /\ req'[r].late = req[r].late
  <1> DEFINE s == [req[r] EXCEPT !.pc = "device", !.n = 0]
  <1>1. SessionsTypeOK /\ Fits(r)
    BY DEF SessionsFit, RequestsFit
  <1>2. Go(r, s)
    BY DEF VerifyOk
  <1>3. req[r] \in RequestState
    BY <1>1, IdleType DEF SessionsTypeOK
  <1>6. 0 \in 0..MaxAttempts
    BY SessionsAssumption
  <1>5. s \in RequestState
    BY <1>3, <1>6 DEF RequestState, PC
  <1>7. /\ s.pc = "device"
        /\ s.user = req[r].user
        /\ s.password = req[r].password
        /\ s.late = req[r].late
    BY <1>3 DEF RequestState
  <1> HIDE DEF s
  <1> QED
    BY <1>1, <1>2, <1>5, <1>7, MovesTo

LEMMA RefreshMatchReq ==
  ASSUME SessionsFit, NEW r \in Request, NEW t \in Token,
         RefreshMatch(r, t)
  PROVE  /\ Moves(r)
         /\ req'[r].pc = "rf_delete"
         /\ req'[r].dev = tok[t].dev
         /\ req'[r].tok = t
  <1> DEFINE s == [Idle EXCEPT !.pc = "rf_delete", !.dev = tok[t].dev, !.tok = t]
  <1>1. SessionsTypeOK /\ Fits(r)
    BY DEF SessionsFit, RequestsFit
  <1>2. Go(r, s)
    BY DEF RefreshMatch
  <1>3. Idle \in RequestState
    BY <1>1, IdleType DEF SessionsTypeOK
  <1>4. tok[t].dev \in Device
    BY <1>1 DEF SessionsFit, TablesFit, RefreshMatch, Presentable, Live
  <1>5. s \in RequestState
    BY <1>3, <1>4 DEF RequestState, PC
  <1>7. /\ s.pc = "rf_delete"
        /\ s.dev = tok[t].dev
        /\ s.tok = t
    BY <1>3, <1>4 DEF RequestState
  <1> HIDE DEF s
  <1> QED
    BY <1>1, <1>2, <1>5, <1>7, MovesTo

LEMMA RefreshDeleteReq ==
  ASSUME SessionsFit, NEW r \in Request,
         RefreshDelete(r)
  PROVE  /\ Moves(r)
         /\ req'[r].pc = "token"
         /\ req'[r].dev = req[r].dev
         /\ req'[r].late = req[r].late
  <1> DEFINE s == [req[r] EXCEPT !.pc = "token", !.tok = None]
  <1>1. SessionsTypeOK /\ Fits(r)
    BY DEF SessionsFit, RequestsFit
  <1>2. Go(r, s)
    BY DEF RefreshDelete
  <1>3. req[r] \in RequestState
    BY <1>1, IdleType DEF SessionsTypeOK
  <1>5. s \in RequestState
    BY <1>3 DEF RequestState, PC
  <1>7. /\ s.pc = "token"
        /\ s.dev = req[r].dev
        /\ s.late = req[r].late
    BY <1>3 DEF RequestState
  <1> HIDE DEF s
  <1> QED
    BY <1>1, <1>2, <1>5, <1>7, MovesTo

LEMMA ChangeReadReq ==
  ASSUME SessionsFit, NEW r \in Request, NEW d \in Device,
         ChangeRead(r, d)
  PROVE  /\ Moves(r)
         /\ req'[r].pc = "ch_update"
         /\ req'[r].dev = d
         /\ req'[r].user = dev[d].owner
  <1> DEFINE s == [Idle EXCEPT !.pc = "ch_update", !.dev = d, !.user = dev[d].owner]
  <1>1. SessionsTypeOK /\ Fits(r)
    BY DEF SessionsFit, RequestsFit
  <1>2. Go(r, s)
    BY DEF ChangeRead
  <1>3. Idle \in RequestState
    BY <1>1, IdleType DEF SessionsTypeOK
  <1>4. dev[d].owner \in User
    BY <1>1 DEF SessionsFit, TablesFit, ChangeRead, Registered
  <1>5. s \in RequestState
    BY <1>3, <1>4 DEF RequestState, PC
  <1>7. /\ s.pc = "ch_update"
        /\ s.dev = d
        /\ s.user = dev[d].owner
    BY <1>3, <1>4 DEF RequestState
  <1> HIDE DEF s
  <1> QED
    BY <1>1, <1>2, <1>5, <1>7, MovesTo

LEMMA ChangeUpdateReq ==
  ASSUME SessionsFit, NEW r \in Request,
         ChangeUpdate(r)
  PROVE  /\ Moves(r)
         /\ req'[r].pc = "ch_delete"
         /\ req'[r].dev = req[r].dev
         /\ req'[r].user = req[r].user
  <1> DEFINE s == [req[r] EXCEPT !.pc = "ch_delete"]
  <1>1. SessionsTypeOK /\ Fits(r)
    BY DEF SessionsFit, RequestsFit
  <1>2. Go(r, s)
    BY DEF ChangeUpdate
  <1>3. req[r] \in RequestState
    BY <1>1, IdleType DEF SessionsTypeOK
  <1>5. s \in RequestState
    BY <1>3 DEF RequestState, PC
  <1>7. /\ s.pc = "ch_delete"
        /\ s.dev = req[r].dev
        /\ s.user = req[r].user
    BY <1>3 DEF RequestState
  <1> HIDE DEF s
  <1> QED
    BY <1>1, <1>2, <1>5, <1>7, MovesTo

LEMMA RevokeStartReq ==
  ASSUME SessionsFit, NEW r \in Request, NEW c \in Device, NEW D \in SUBSET Device,
         RevokeStart(r, c, D)
  PROVE  /\ Moves(r)
         /\ req'[r].pc = "revoke"
  <1> DEFINE s == [Idle EXCEPT !.pc = "revoke", !.devs = D]
  <1>1. SessionsTypeOK /\ Fits(r)
    BY DEF SessionsFit, RequestsFit
  <1>2. Go(r, s)
    BY DEF RevokeStart
  <1>3. Idle \in RequestState
    BY <1>1, IdleType DEF SessionsTypeOK
  <1>5. s \in RequestState
    BY <1>3 DEF RequestState, PC
  <1>7. /\ s.pc = "revoke"
    BY <1>3 DEF RequestState
  <1> HIDE DEF s
  <1> QED
    BY <1>1, <1>2, <1>5, <1>7, MovesTo

LEMMA AdminRequestReq ==
  ASSUME SessionsFit, NEW r \in Request, NEW a \in User,
         AdminRequest(r, a)
  PROVE  /\ Moves(r)
         /\ req'[r].pc = "admin"
         /\ req'[r].user = a
  <1> DEFINE s == [Idle EXCEPT !.pc = "admin", !.user = a]
  <1>1. SessionsTypeOK /\ Fits(r)
    BY DEF SessionsFit, RequestsFit
  <1>2. Go(r, s)
    BY DEF AdminRequest
  <1>3. Idle \in RequestState
    BY <1>1, IdleType DEF SessionsTypeOK
  <1>5. s \in RequestState
    BY <1>3 DEF RequestState, PC
  <1>7. /\ s.pc = "admin"
        /\ s.user = a
    BY <1>3 DEF RequestState
  <1> HIDE DEF s
  <1> QED
    BY <1>1, <1>2, <1>5, <1>7, MovesTo

LEMMA DeleteUserReadReq ==
  ASSUME SessionsFit, NEW r \in Request, NEW u \in User,
         DeleteUserRead(r, u)
  PROVE  /\ Moves(r)
         /\ req'[r].pc = IF user[u].admin THEN "du_count" ELSE "du_exec"
         /\ req'[r].user = u
         /\ req'[r].flag = FALSE
  <1> DEFINE s == [Idle EXCEPT !.pc = IF user[u].admin THEN "du_count" ELSE "du_exec",
                             !.user = u]
  <1>1. SessionsTypeOK /\ Fits(r)
    BY DEF SessionsFit, RequestsFit
  <1>2. Go(r, s)
    BY DEF DeleteUserRead
  <1>3. Idle \in RequestState
    BY <1>1, IdleType DEF SessionsTypeOK
  <1>5. s \in RequestState
    BY <1>3 DEF RequestState, PC
  <1>7. /\ s.pc = IF user[u].admin THEN "du_count" ELSE "du_exec"
        /\ s.user = u
        /\ s.flag = FALSE
    BY <1>3, IdleType DEF RequestState
  <1> HIDE DEF s
  <1> QED
    BY <1>1, <1>2, <1>5, <1>7, MovesTo

LEMMA RegisterUserReq ==
  ASSUME SessionsFit, NEW r \in Request, RegisterUser(r)
  PROVE  /\ Moves(r) /\ req[r].user \in User
         /\ user[req[r].user].status = "unused" =>
              /\ req'[r].pc = "device" /\ req'[r].user = req[r].user
              /\ req'[r].password = 0
         /\ user[req[r].user].status # "unused" => req'[r] = Idle
  <1> DEFINE s == [Idle EXCEPT !.pc = "device", !.user = req[r].user]
  <1>1. SessionsTypeOK /\ Fits(r)
    BY DEF SessionsFit, RequestsFit
  <1>2. req[r].user \in User
    BY <1>1 DEF Fits, RegisterUser, At
  <1>3. s \in RequestState
    BY <1>2, IdleType DEF RequestState, PC
  <1>4. s.pc = "device" /\ s.user = req[r].user /\ s.password = 0
    BY IdleType DEF RequestState
  <1>5. CASE user[req[r].user].status = "unused"
    <2>1. Go(r, s)
      BY <1>5 DEF RegisterUser
    <2> HIDE DEF s
    <2> QED
      BY <1>1, <1>2, <1>3, <1>4, <1>5, <2>1, MovesTo
  <1>6. CASE user[req[r].user].status # "unused"
    BY <1>1, <1>2, <1>6, Ends DEF RegisterUser
  <1> QED
    BY <1>5, <1>6

LEMMA NewDeviceReq ==
  ASSUME SessionsFit, NEW r \in Request, NEW d \in Device, NewDevice(r, d)
  PROVE  /\ Moves(r) /\ req[r].user \in User
         /\ Present(req[r].user) =>
              /\ req'[r].pc = "token" /\ req'[r].dev = d
              /\ req'[r].late = req[r].late
         /\ ~Present(req[r].user) => req'[r] = Idle
  <1> DEFINE s == [req[r] EXCEPT !.pc = "token", !.dev = d]
  <1>1. SessionsTypeOK /\ Fits(r)
    BY DEF SessionsFit, RequestsFit
  <1>2. req[r] \in RequestState /\ req[r].user \in User
    BY <1>1 DEF Fits, NewDevice, At, SessionsTypeOK
  <1>3. s \in RequestState
    BY <1>2 DEF RequestState, PC
  <1>4. s.pc = "token" /\ s.dev = d /\ s.late = req[r].late
    BY <1>2 DEF RequestState
  <1>5. CASE Present(req[r].user)
    <2>1. Go(r, s)
      BY <1>5 DEF NewDevice
    <2> HIDE DEF s
    <2> QED
      BY <1>1, <1>2, <1>3, <1>4, <1>5, <2>1, MovesTo
  <1>6. CASE ~Present(req[r].user)
    BY <1>1, <1>2, <1>6, Ends DEF NewDevice
  <1> QED
    BY <1>5, <1>6

LEMMA DeleteUserCountReq ==
  ASSUME SessionsFit, NEW r \in Request, DeleteUserCount(r)
  PROVE  /\ Moves(r)
         /\ EnoughAdmins(Cardinality(Admins)) =>
              /\ req'[r].pc = "du_exec" /\ req'[r].user = req[r].user
              /\ req'[r].flag = TRUE
         /\ ~EnoughAdmins(Cardinality(Admins)) => req'[r] = Idle
  <1> DEFINE s == [req[r] EXCEPT !.pc = "du_exec", !.flag = TRUE]
  <1>1. SessionsTypeOK
    BY DEF SessionsFit
  <1>2. req[r] \in RequestState
    BY <1>1 DEF SessionsTypeOK
  <1>3. s \in RequestState
    BY <1>2 DEF RequestState, PC
  <1>4. s.pc = "du_exec" /\ s.user = req[r].user /\ s.flag = TRUE
    BY <1>2 DEF RequestState
  <1>5. CASE EnoughAdmins(Cardinality(Admins))
    <2>1. Go(r, s)
      BY <1>5 DEF DeleteUserCount
    <2> HIDE DEF s
    <2> QED
      BY <1>1, <1>3, <1>4, <1>5, <2>1, MovesTo
  <1>6. CASE ~EnoughAdmins(Cardinality(Admins))
    BY <1>1, <1>6, Ends DEF DeleteUserCount
  <1> QED
    BY <1>5, <1>6

\* A change of password that ends, or stops before its second write.
LEMMA LeaveReq ==
  ASSUME SessionsFit, NEW r \in Request,
         Leave(r, Overtaken(req[r].user, req[r].dev))
  PROVE  /\ Moves(r) /\ req'[r] = Idle
         /\ \A x \in Overtaken(req[r].user, req[r].dev) : x # r => req'[x].late
  <1>1. req \in [Request -> RequestState]
    BY DEF SessionsFit, SessionsTypeOK
  <1>2. \A x \in Overtaken(req[r].user, req[r].dev) : x \in Request
    BY DEF Overtaken
  <1> DEFINE S == Overtaken(req[r].user, req[r].dev)
  <1>3. Leave(r, S) /\ \A x \in S : x \in Request
    BY <1>2
  <1> HIDE DEF S
  <1>4. Moves(r) /\ req'[r] = Idle /\ \A x \in S : x \in Request /\ x # r => req'[x].late
    BY <1>1, <1>3, LeaveEffect DEF Moves
  <1>5. \A x \in S : x # r => req'[x].late
    BY <1>3, <1>4
  <1> QED
    BY <1>4, <1>5 DEF S

LEMMA AbortReq ==
  ASSUME SessionsFit, NEW r \in Request, Abort(r)
  PROVE  Moves(r) /\ req'[r] = Idle
  <1>1. CASE At(r, "ch_delete")
    BY <1>1, LeaveReq DEF Abort
  <1>2. CASE ~At(r, "ch_delete")
    BY <1>2, Ends DEF Abort, SessionsFit
  <1> QED
    BY <1>1, <1>2

LEMMA EndReq ==
  ASSUME SessionsFit, NEW r \in Request,
         \/ \E t \in Token : NewToken(r, t)
         \/ VerifyFails(r) \/ RevokeCommit(r)
         \/ \E u \in User, adm \in BOOLEAN : CreateUser(r, u, adm)
         \/ \E b \in BOOLEAN : SetRegistration(r, b)
         \/ DeleteUserExec(r) \/ ChangeDelete(r)
  PROVE  Moves(r) /\ req'[r] = Idle
  <1>1. CASE ChangeDelete(r)
    BY <1>1, LeaveReq DEF ChangeDelete
  <1>2. CASE Finish(r)
    BY <1>2, Ends DEF SessionsFit
  <1> QED
    BY <1>1, <1>2 DEF NewToken, VerifyFails, RevokeCommit, CreateUser,
       SetRegistration, DeleteUserExec

-----------------------------------------------------------------------------
(* What the steps do to the tables.                                         *)

LEMMA TokensGone ==
  ASSUME tok \in [Token -> TokenRow], NEW S, tok' = WithoutTokens(S)
  PROVE  /\ tok' \in [Token -> TokenRow]
         /\ \A t \in Token :
              /\ tok'[t].dev = tok[t].dev
              /\ tok'[t].status = IF t \in S /\ Live(t) THEN "gone"
                                  ELSE tok[t].status
  <1>1. ASSUME NEW t \in Token
        PROVE  /\ [tok[t] EXCEPT !.status = "gone"] \in TokenRow
               /\ [tok[t] EXCEPT !.status = "gone"].dev = tok[t].dev
               /\ [tok[t] EXCEPT !.status = "gone"].status = "gone"
    <2>1. tok[t] \in TokenRow
      OBVIOUS
    <2> QED
      BY <2>1 DEF TokenRow
  <1>2. ASSUME NEW t \in Token
        PROVE  tok'[t] = IF t \in S /\ Live(t) THEN [tok[t] EXCEPT !.status = "gone"]
                         ELSE tok[t]
    BY DEF WithoutTokens
  <1>3. ASSUME NEW t \in Token
        PROVE  /\ tok'[t] \in TokenRow
               /\ tok'[t].dev = tok[t].dev
               /\ tok'[t].status = IF t \in S /\ Live(t) THEN "gone"
                                   ELSE tok[t].status
    <2>1. CASE t \in S /\ Live(t)
      BY <1>1, <1>2, <2>1
    <2>2. CASE ~(t \in S /\ Live(t))
      BY <1>2, <2>2
    <2> QED
      BY <2>1, <2>2
  <1>4. tok' \in [Token -> TokenRow]
    <2>1. DOMAIN tok' = Token /\ tok' = [t \in Token |-> tok'[t]]
      BY DEF WithoutTokens
    <2> QED
      BY <1>3, <2>1
  <1> QED
    BY <1>3, <1>4

LEMMA DevicesGone ==
  ASSUME dev \in [Device -> DeviceRow], tok \in [Token -> TokenRow],
         NEW D, DropDevices(D)
  PROVE  /\ dev' \in [Device -> DeviceRow]
         /\ \A d \in Device :
              /\ dev'[d].owner = dev[d].owner
              /\ dev'[d].password = dev[d].password
              /\ dev'[d].status = IF d \in D /\ Registered(d) THEN "gone"
                                  ELSE dev[d].status
         /\ tok' \in [Token -> TokenRow]
         /\ \A t \in Token :
              /\ tok'[t].dev = tok[t].dev
              /\ tok'[t].status = IF Live(t) /\ tok[t].dev \in D THEN "gone"
                                  ELSE tok[t].status
  <1>1. ASSUME NEW d \in Device
        PROVE  LET e == [dev[d] EXCEPT !.status = "gone"]
               IN /\ e \in DeviceRow /\ e.owner = dev[d].owner
                  /\ e.password = dev[d].password /\ e.status = "gone"
    <2>1. dev[d] \in DeviceRow
      OBVIOUS
    <2> QED
      BY <2>1 DEF DeviceRow
  <1>2. ASSUME NEW d \in Device
        PROVE  dev'[d] = IF d \in D /\ Registered(d)
                         THEN [dev[d] EXCEPT !.status = "gone"] ELSE dev[d]
    BY DEF DropDevices
  <1>3. ASSUME NEW d \in Device
        PROVE  /\ dev'[d] \in DeviceRow
               /\ dev'[d].owner = dev[d].owner
               /\ dev'[d].password = dev[d].password
               /\ dev'[d].status = IF d \in D /\ Registered(d) THEN "gone"
                                   ELSE dev[d].status
    <2>1. CASE d \in D /\ Registered(d)
      BY <1>1, <1>2, <2>1
    <2>2. CASE ~(d \in D /\ Registered(d))
      BY <1>2, <2>2
    <2> QED
      BY <2>1, <2>2
  <1>4. dev' \in [Device -> DeviceRow]
    <2>1. DOMAIN dev' = Device /\ dev' = [d \in Device |-> dev'[d]]
      BY DEF DropDevices
    <2> QED
      BY <1>3, <2>1
  <1>5. tok' = WithoutTokens(TokensOf(D))
    BY DEF DropDevices, TokensCascade
  <1>6. /\ tok' \in [Token -> TokenRow]
        /\ \A t \in Token :
             /\ tok'[t].dev = tok[t].dev
             /\ tok'[t].status = IF t \in TokensOf(D) /\ Live(t) THEN "gone"
                                 ELSE tok[t].status
    BY <1>5, TokensGone
  <1>7. \A t \in Token : t \in TokensOf(D) <=> Live(t) /\ tok[t].dev \in D
    BY DEF TokensOf
  <1> QED
    BY <1>3, <1>4, <1>6, <1>7

\* Rows are never taken back: what was used stays used, what is gone stays gone.
UsersGrow ==
  /\ user' \in [User -> UserRow]
  /\ \A u \in User : user[u].status # "unused" =>
       user'[u].status # "unused" /\ user'[u].admin = user[u].admin
DevicesGrow ==
  /\ dev' \in [Device -> DeviceRow]
  /\ \A d \in Device : dev[d].status # "unused" =>
       /\ dev'[d].status # "unused" /\ dev'[d].owner = dev[d].owner
       /\ Registered(d)' => Registered(d)
TokensGrow ==
  /\ tok' \in [Token -> TokenRow]
  /\ \A t \in Token : tok[t].status # "unused" =>
       /\ tok'[t].status # "unused" /\ tok'[t].dev = tok[t].dev
       /\ Live(t)' => Live(t)
Grow == UsersGrow /\ DevicesGrow /\ TokensGrow

\* Nobody's account is deleted.
PresentStay == \A u \in User : Present(u) => Present(u)'

\* Steps that leave the three tables alone.
Reads(r) ==
  \/ \E u \in User : RegisterCount(r, u) \/ LoginRead(r, u) \/ DeleteUserRead(r, u)
  \/ \E t \in Token : RefreshMatch(r, t)
  \/ \E d \in Device : ChangeRead(r, d)
  \/ \E c \in Device, D \in SUBSET Device : RevokeStart(r, c, D)
  \/ \E a \in User : AdminRequest(r, a)
  \/ \E b \in BOOLEAN : SetRegistration(r, b)
  \/ DeleteUserCount(r) \/ Abort(r)

\* Steps that change accounts only.
UserSteps(r) ==
  \/ RegisterUser(r) \/ VerifyFails(r) \/ VerifyOk(r)
  \/ \E u \in User, adm \in BOOLEAN : CreateUser(r, u, adm)

\* Steps that delete tokens only.
TokenSteps(r) == RefreshDelete(r) \/ ChangeDelete(r)

LEMMA NextCases ==
  ASSUME Next
  PROVE  \/ \E r \in Request :
              \/ Reads(r) \/ UserSteps(r) \/ TokenSteps(r)
              \/ \E d \in Device : NewDevice(r, d)
              \/ \E t \in Token : NewToken(r, t)
              \/ ChangeUpdate(r) \/ RevokeCommit(r) \/ DeleteUserExec(r)
         \/ \E t \in Token : TokenEnds(t)
         \/ \E u \in User : LockExpires(u)
  <1>1. CASE \E r \in Request : LoginStep(r)
    BY <1>1 DEF LoginStep, Reads, UserSteps
  <1>2. CASE \E r \in Request : TokenStep(r)
    BY <1>2 DEF TokenStep, Reads, TokenSteps
  <1>3. CASE \E r \in Request : AdminStep(r)
    BY <1>3 DEF AdminStep, Reads, UserSteps
  <1>4. CASE \E r \in Request : Abort(r)
    BY <1>4 DEF Reads
  <1> QED
    BY <1>1, <1>2, <1>3, <1>4 DEF Next, OtherStep

LEMMA ReadsKeep ==
  ASSUME NEW r \in Request, Reads(r)
  PROVE  UNCHANGED <<user, dev, tok>>
  BY DEF Reads, RegisterCount, LoginRead, DeleteUserRead, RefreshMatch, ChangeRead,
     RevokeStart, AdminRequest, SetRegistration, DeleteUserCount, Abort, tables

\* An account is added.
LEMMA UserAdded ==
  ASSUME user \in [User -> UserRow], NEW u \in User, NEW adm \in BOOLEAN,
         user[u].status = "unused", user' = [user EXCEPT ![u] = NewUser(adm)]
  PROVE  UsersGrow /\ PresentStay
  <1>1. NoUser \in UserRow
    BY SessionsAssumption DEF NoUser, UserRow
  <1>2. NewUser(adm) \in UserRow
    BY <1>1 DEF NewUser, UserRow
  <1> QED
    BY <1>2 DEF UsersGrow, PresentStay, Present

\* A row changes in columns other than status and admin.
LEMMA UserUpdated ==
  ASSUME user \in [User -> UserRow], NEW u \in User, NEW row \in UserRow,
         user' = [user EXCEPT ![u] = row],
         row.status = user[u].status, row.admin = user[u].admin
  PROVE  UsersGrow /\ PresentStay
  BY DEF UsersGrow, PresentStay, Present

LEMMA UserUnchanged ==
  ASSUME SessionsTypeOK, UNCHANGED user
  PROVE  UsersGrow /\ PresentStay
  BY DEF UsersGrow, PresentStay, Present, SessionsTypeOK

LEMMA DevicesUnchanged ==
  ASSUME SessionsTypeOK, UNCHANGED dev
  PROVE  DevicesGrow
  BY DEF DevicesGrow, Registered, SessionsTypeOK

LEMMA TokensUnchanged ==
  ASSUME SessionsTypeOK, UNCHANGED tok
  PROVE  TokensGrow
  BY DEF TokensGrow, Live, SessionsTypeOK

LEMMA TokensDeleted ==
  ASSUME SessionsTypeOK, NEW S, tok' = WithoutTokens(S)
  PROVE  TokensGrow /\ \A t \in Token : Live(t)' => Live(t)
  BY TokensGone DEF TokensGrow, Live, SessionsTypeOK

LEMMA DevicesDropped ==
  ASSUME SessionsTypeOK, NEW D, DropDevices(D)
  PROVE  DevicesGrow /\ TokensGrow
  <1>1. dev \in [Device -> DeviceRow] /\ tok \in [Token -> TokenRow]
    BY DEF SessionsTypeOK
  <1>2. DevicesGrow
    BY <1>1, DevicesGone DEF DevicesGrow, Registered
  <1>3. TokensGrow
    BY <1>1, DevicesGone DEF TokensGrow, Live
  <1> QED
    BY <1>2, <1>3

LEMMA UserStepsGrow ==
  ASSUME SessionsFit, NEW r \in Request, UserSteps(r)
  PROVE  UsersGrow /\ PresentStay
  <1>1. SessionsTypeOK /\ Fits(r) /\ user \in [User -> UserRow]
        /\ req[r] \in RequestState
    BY DEF SessionsFit, RequestsFit, SessionsTypeOK
  <1>2. CASE RegisterUser(r)
    <2>1. req[r].user \in User /\ req[r].flag \in BOOLEAN
      BY <1>1, <1>2 DEF Fits, RegisterUser, At, RequestState
    <2>2. CASE user[req[r].user].status = "unused"
      <3>1. user' = [user EXCEPT ![req[r].user] = NewUser(req[r].flag)]
        BY <1>2, <2>2 DEF RegisterUser
      <3> QED
        BY <1>1, <2>1, <2>2, <3>1, UserAdded
    <2>3. CASE user[req[r].user].status # "unused"
      BY <1>1, <1>2, <2>3, UserUnchanged DEF RegisterUser
    <2> QED
      BY <2>2, <2>3
  <1>3. CASE VerifyFails(r)
    <2> DEFINE u == req[r].user
               n == NextAttempts(req[r].n)
               row == [user[u] EXCEPT !.attempts = n, !.locked = @ \/ n >= Threshold]
    <2>1. u \in User /\ req[r].n \in 0..MaxAttempts /\ req[r].n < MaxAttempts
      BY <1>1, <1>3 DEF Fits, VerifyFails, At, RequestState
    <2>2. n \in 0..MaxAttempts
      BY <2>1, SessionsAssumption DEF NextAttempts
    <2>3. user[u] \in UserRow
      BY <1>1, <2>1
    <2>4. (user[u].locked \/ n >= Threshold) \in BOOLEAN
      BY <2>3
    <2>5. row \in UserRow /\ row.status = user[u].status /\ row.admin = user[u].admin
      BY <2>2, <2>3, <2>4 DEF UserRow
    <2>6. user' = user \/ user' = [user EXCEPT ![u] = row]
      BY <1>3 DEF VerifyFails
    <2> HIDE DEF row
    <2> QED
      BY <1>1, <2>1, <2>5, <2>6, UserUpdated, UserUnchanged
  <1>4. CASE VerifyOk(r)
    <2> DEFINE u == req[r].user
               row == [user[u] EXCEPT !.attempts = 0, !.locked = FALSE]
    <2>1. u \in User
      BY <1>1, <1>4 DEF Fits, VerifyOk, At
    <2>2. 0 \in 0..MaxAttempts
      BY SessionsAssumption
    <2>3. user[u] \in UserRow
      BY <1>1, <2>1
    <2>5. row \in UserRow /\ row.status = user[u].status /\ row.admin = user[u].admin
      BY <2>2, <2>3 DEF UserRow
    <2>6. user' = user \/ user' = [user EXCEPT ![u] = row]
      BY <1>4 DEF VerifyOk
    <2> HIDE DEF row
    <2> QED
      BY <1>1, <2>1, <2>5, <2>6, UserUpdated, UserUnchanged
  <1>5. ASSUME NEW u \in User, NEW adm \in BOOLEAN, CreateUser(r, u, adm)
        PROVE  UsersGrow /\ PresentStay
    BY <1>1, <1>5, UserAdded DEF CreateUser
  <1> QED
    BY <1>2, <1>3, <1>4, <1>5 DEF UserSteps

LEMMA LockExpiresGrow ==
  ASSUME SessionsFit, NEW u \in User, LockExpires(u)
  PROVE  UsersGrow /\ PresentStay
  <1> DEFINE row == [user[u] EXCEPT !.locked = FALSE]
  <1>1. user \in [User -> UserRow] /\ user[u] \in UserRow
    BY DEF SessionsFit, SessionsTypeOK
  <1>2. row \in UserRow /\ row.status = user[u].status /\ row.admin = user[u].admin
    BY <1>1 DEF UserRow
  <1>3. user' = [user EXCEPT ![u] = row]
    BY DEF LockExpires
  <1> HIDE DEF row
  <1> QED
    BY <1>1, <1>2, <1>3, UserUpdated

\* What a change of password writes.
LEMMA ChangeUpdateGrow ==
  ASSUME SessionsFit, NEW r \in Request, ChangeUpdate(r)
  PROVE  /\ UsersGrow /\ PresentStay /\ DevicesGrow
         /\ \A d \in Device : dev'[d].status = dev[d].status
  <1> DEFINE u == req[r].user
             d == req[r].dev
             p == user[u].password + 1
             row == [user[u] EXCEPT !.password = p]
             drow == [dev[d] EXCEPT !.password = p]
  <1>1. SessionsTypeOK /\ Fits(r) /\ user \in [User -> UserRow]
        /\ dev \in [Device -> DeviceRow]
    BY DEF SessionsFit, RequestsFit, SessionsTypeOK
  <1>2. u \in User /\ d \in Device
    BY <1>1 DEF Fits, ChangeUpdate, At
  <1>3. CASE Present(u)
    <2>1. user[u] \in UserRow /\ dev[d] \in DeviceRow
      BY <1>1, <1>2
    <2>2. user[u].password \in 0..MaxPassword /\ user[u].password < MaxPassword
      BY <2>1 DEF UserRow, ChangeUpdate
    <2>3. p \in 0..MaxPassword
      BY <2>2, SessionsAssumption
    <2>4. row \in UserRow /\ row.status = user[u].status /\ row.admin = user[u].admin
      BY <2>1, <2>3 DEF UserRow
    <2>5. drow \in DeviceRow /\ drow.status = dev[d].status /\ drow.owner = dev[d].owner
      BY <2>1, <2>3 DEF DeviceRow
    <2>6. user' = [user EXCEPT ![u] = row] /\ dev' = [dev EXCEPT ![d] = drow]
      BY <1>3 DEF ChangeUpdate
    <2> HIDE DEF row, drow
    <2>7. UsersGrow /\ PresentStay
      BY <1>1, <1>2, <2>4, <2>6, UserUpdated
    <2>8. /\ dev' \in [Device -> DeviceRow]
          /\ \A x \in Device : /\ dev'[x].status = dev[x].status
                               /\ dev'[x].owner = dev[x].owner
      BY <1>1, <1>2, <2>5, <2>6
    <2> QED
      BY <2>7, <2>8 DEF DevicesGrow, Registered
  <1>4. CASE ~Present(u)
    BY <1>1, <1>4, UserUnchanged, DevicesUnchanged DEF ChangeUpdate
  <1> QED
    BY <1>3, <1>4

\* An account is deleted with its devices and their tokens.
LEMMA DeleteUserGrow ==
  ASSUME SessionsFit, NEW r \in Request, DeleteUserExec(r)
  PROVE  /\ Grow
         /\ \A u \in User : u # req[r].user \/ ~Present(u) => user'[u] = user[u]
  <1> DEFINE u == req[r].user
             row == [user[u] EXCEPT !.status = "deleted"]
  <1>1. SessionsTypeOK /\ Fits(r) /\ user \in [User -> UserRow]
    BY DEF SessionsFit, RequestsFit, SessionsTypeOK
  <1>2. u \in User
    BY <1>1 DEF Fits, DeleteUserExec, At
  <1>3. CASE Present(u)
    <2>1. user[u] \in UserRow
      BY <1>1, <1>2
    <2>2. row \in UserRow /\ row.status = "deleted" /\ row.admin = user[u].admin
      BY <2>1 DEF UserRow
    <2>3. user' = [user EXCEPT ![u] = row] /\ DropDevices(DevicesOf(u))
      BY <1>3 DEF DeleteUserExec
    <2> HIDE DEF row
    <2>4. UsersGrow /\ \A x \in User : x # u \/ ~Present(x) => user'[x] = user[x]
      BY <1>1, <1>2, <1>3, <2>2, <2>3 DEF UsersGrow
    <2> QED
      BY <1>1, <2>3, <2>4, DevicesDropped DEF Grow
  <1>4. CASE ~Present(u)
    BY <1>1, <1>4, UserUnchanged, DevicesUnchanged, TokensUnchanged
       DEF DeleteUserExec, Grow
  <1> QED
    BY <1>3, <1>4

LEMMA NewDeviceGrow ==
  ASSUME SessionsFit, NEW r \in Request, NEW d \in Device, NewDevice(r, d)
  PROVE  /\ DevicesGrow
         /\ \A x \in Device : x # d => dev'[x] = dev[x]
         /\ IF Present(req[r].user)
              THEN /\ dev'[d].status = "present" /\ dev'[d].owner = req[r].user
                   /\ dev'[d].password = req[r].password
              ELSE dev' = dev
  <1>1. SessionsTypeOK /\ Fits(r) /\ dev \in [Device -> DeviceRow]
        /\ req[r] \in RequestState
    BY DEF SessionsFit, RequestsFit, SessionsTypeOK
  <1>2. req[r].user \in User /\ req[r].password \in 0..MaxPassword
    BY <1>1 DEF Fits, NewDevice, At, RequestState
  <1>3. CASE Present(req[r].user)
    <2> DEFINE row == [status |-> "present", owner |-> req[r].user,
                       password |-> req[r].password]
    <2>1. /\ row \in DeviceRow /\ row.status = "present"
          /\ row.owner = req[r].user /\ row.password = req[r].password
      BY <1>2 DEF DeviceRow
    <2>2. dev' = [dev EXCEPT ![d] = row] /\ dev[d].status = "unused"
      BY <1>3 DEF NewDevice
    <2> HIDE DEF row
    <2>3. /\ dev' \in [Device -> DeviceRow] /\ dev'[d] = row
          /\ \A x \in Device : x # d => dev'[x] = dev[x]
      BY <1>1, <2>1, <2>2
    <2> QED
      BY <1>3, <2>1, <2>2, <2>3 DEF DevicesGrow, Registered
  <1>4. CASE ~Present(req[r].user)
    BY <1>1, <1>4, DevicesUnchanged DEF NewDevice
  <1> QED
    BY <1>3, <1>4

LEMMA NewTokenGrow ==
  ASSUME SessionsFit, NEW r \in Request, NEW t \in Token, NewToken(r, t)
  PROVE  /\ TokensGrow /\ req[r].dev \in Device
         /\ \A x \in Token : x # t => tok'[x] = tok[x]
         /\ IF Registered(req[r].dev)
              THEN tok'[t].status = "live" /\ tok'[t].dev = req[r].dev
              ELSE tok' = tok
  <1>1. SessionsTypeOK /\ Fits(r) /\ tok \in [Token -> TokenRow]
    BY DEF SessionsFit, RequestsFit, SessionsTypeOK
  <1>2. req[r].dev \in Device
    BY <1>1 DEF Fits, NewToken, At
  <1>3. CASE Registered(req[r].dev)
    <2> DEFINE row == [status |-> "live", dev |-> req[r].dev]
    <2>1. row \in TokenRow /\ row.status = "live" /\ row.dev = req[r].dev
      BY <1>2 DEF TokenRow
    <2>2. tok' = [tok EXCEPT ![t] = row] /\ tok[t].status = "unused"
      BY <1>3 DEF NewToken, DeviceKnown
    <2> HIDE DEF row
    <2>3. /\ tok' \in [Token -> TokenRow] /\ tok'[t] = row
          /\ \A x \in Token : x # t => tok'[x] = tok[x]
      BY <1>1, <2>1, <2>2
    <2> QED
      BY <1>2, <1>3, <2>1, <2>2, <2>3 DEF TokensGrow, Live
  <1>4. CASE ~Registered(req[r].dev)
    BY <1>1, <1>2, <1>4, TokensUnchanged DEF NewToken, DeviceKnown
  <1> QED
    BY <1>3, <1>4

\* Every step leaves the tables with all the rows they had.
LEMMA GrowStep ==
  ASSUME SessionsFit, [Next]_vars
  PROVE  Grow
  <1>1. SessionsTypeOK
    BY DEF SessionsFit
  <1>2. UsersGrow \/ ~UNCHANGED user
    BY <1>1, UserUnchanged
  <1>3. DevicesGrow \/ ~UNCHANGED dev
    BY <1>1, DevicesUnchanged
  <1>4. TokensGrow \/ ~UNCHANGED tok
    BY <1>1, TokensUnchanged
  <1>5. CASE UNCHANGED vars
    BY <1>2, <1>3, <1>4, <1>5 DEF vars, Grow
  <1>6. ASSUME NEW r \in Request, Reads(r)
        PROVE  Grow
    BY <1>2, <1>3, <1>4, <1>6, ReadsKeep DEF Grow
  <1>7. ASSUME NEW r \in Request, UserSteps(r)
        PROVE  Grow
    <2>1. UNCHANGED <<dev, tok>>
      BY <1>7 DEF UserSteps, RegisterUser, VerifyFails, VerifyOk, CreateUser
    <2> QED
      BY <1>3, <1>4, <1>7, <2>1, UserStepsGrow DEF Grow
  <1>8. ASSUME NEW r \in Request, TokenSteps(r)
        PROVE  Grow
    <2>1. UNCHANGED <<user, dev>> /\ \E S : tok' = WithoutTokens(S)
      BY <1>8 DEF TokenSteps, RefreshDelete, ChangeDelete
    <2> QED
      BY <1>1, <1>2, <1>3, <2>1, TokensDeleted DEF Grow
  <1>9. ASSUME NEW r \in Request, NEW d \in Device, NewDevice(r, d)
        PROVE  Grow
    <2>1. UNCHANGED <<user, tok>>
      BY <1>9 DEF NewDevice
    <2> QED
      BY <1>2, <1>4, <1>9, <2>1, NewDeviceGrow DEF Grow
  <1>10. ASSUME NEW r \in Request, NEW t \in Token, NewToken(r, t)
         PROVE  Grow
    <2>1. UNCHANGED <<user, dev>>
      BY <1>10 DEF NewToken
    <2> QED
      BY <1>2, <1>3, <1>10, <2>1, NewTokenGrow DEF Grow
  <1>11. ASSUME NEW r \in Request, ChangeUpdate(r)
         PROVE  Grow
    <2>1. UNCHANGED tok
      BY <1>11 DEF ChangeUpdate
    <2> QED
      BY <1>4, <1>11, <2>1, ChangeUpdateGrow DEF Grow
  <1>12. ASSUME NEW r \in Request, RevokeCommit(r)
         PROVE  Grow
    BY <1>1, <1>2, <1>12, DevicesDropped DEF RevokeCommit, Grow
  <1>13. ASSUME NEW r \in Request, DeleteUserExec(r)
         PROVE  Grow
    BY <1>13, DeleteUserGrow
  <1>14. ASSUME NEW t \in Token, TokenEnds(t)
         PROVE  Grow
    BY <1>1, <1>2, <1>3, <1>14, TokensDeleted DEF TokenEnds, Grow
  <1>15. ASSUME NEW u \in User, LockExpires(u)
         PROVE  Grow
    BY <1>3, <1>4, <1>15, LockExpiresGrow DEF LockExpires, Grow
  <1> QED
    BY <1>5, <1>6, <1>7, <1>8, <1>9, <1>10, <1>11, <1>12, <1>13, <1>14, <1>15,
       NextCases

-----------------------------------------------------------------------------
(* The foreign keys.                                                        *)

\* They hold when no account goes, and no device is added or goes.
LEMMA FitStays ==
  ASSUME TablesFit, Grow, PresentStay,
         \A d \in Device : dev'[d].status = dev[d].status,
         \A t \in Token : tok[t].status = "unused" => tok'[t].status = "unused"
  PROVE  TablesFit'
  <1>1. ASSUME NEW d \in Device
        PROVE  /\ dev'[d].status # "unused" => dev'[d].owner \in User
               /\ dev'[d].status = "present" => user'[dev'[d].owner].status = "present"
    <2>1. dev[d].status # "unused" => dev[d].owner \in User
      BY DEF TablesFit
    <2>2. dev[d].status = "present" => user[dev[d].owner].status = "present"
      BY DEF TablesFit, Registered, Present
    <2>3. dev[d].status # "unused" => dev'[d].owner = dev[d].owner
      BY DEF Grow, DevicesGrow
    <2>4. dev'[d].status = dev[d].status
      OBVIOUS
    <2>5. dev[d].status = "present" => user'[dev[d].owner].status = "present"
      BY <2>1, <2>2 DEF PresentStay, Present
    <2> QED
      BY <2>1, <2>3, <2>4, <2>5
  <1>2. ASSUME NEW t \in Token
        PROVE  /\ tok'[t].status # "unused" => /\ tok'[t].dev \in Device
                                               /\ dev'[tok'[t].dev].status # "unused"
               /\ tok'[t].status = "live" => dev'[tok'[t].dev].status = "present"
    <2>1. tok[t].status # "unused" => /\ tok[t].dev \in Device
                                      /\ dev[tok[t].dev].status # "unused"
      BY DEF TablesFit
    <2>2. tok[t].status = "live" => dev[tok[t].dev].status = "present"
      BY DEF TablesFit, Live, Registered
    <2>3. tok[t].status # "unused" => /\ tok'[t].dev = tok[t].dev
                                      /\ tok'[t].status = "live" => tok[t].status = "live"
      BY DEF Grow, TokensGrow, Live
    <2> QED
      BY <2>1, <2>2, <2>3
  <1> QED
    BY <1>1, <1>2 DEF TablesFit, Registered, Present, Live

\* They hold when devices go with their tokens, and accounts with their devices.
LEMMA FitDropped ==
  ASSUME SessionsFit, NEW D, DropDevices(D), Grow,
         \A u \in User : user[u].status = "present" /\ user'[u].status # "present"
                         => DevicesOf(u) \subseteq D
  PROVE  TablesFit'
  <1>1. TablesFit /\ dev \in [Device -> DeviceRow] /\ tok \in [Token -> TokenRow]
    BY DEF SessionsFit, SessionsTypeOK
  <1>2. ASSUME NEW d \in Device
        PROVE  /\ dev'[d].status # "unused" => dev'[d].owner \in User
               /\ dev'[d].status = "present" => user'[dev'[d].owner].status = "present"
    <2>1. /\ dev'[d].owner = dev[d].owner
          /\ dev'[d].status = IF d \in D /\ Registered(d) THEN "gone" ELSE dev[d].status
      BY <1>1, DevicesGone
    <2>2. /\ dev[d].status # "unused" => dev[d].owner \in User
          /\ dev[d].status = "present" => user[dev[d].owner].status = "present"
      BY <1>1 DEF TablesFit, Registered, Present
    <2>3. dev'[d].status # "unused" => dev'[d].owner \in User
      BY <2>1, <2>2 DEF Registered
    <2>4. ASSUME dev'[d].status = "present"
          PROVE  user'[dev'[d].owner].status = "present"
      <3>1. dev[d].status = "present" /\ d \notin D
        BY <2>1, <2>4 DEF Registered
      <3>2. /\ dev[d].owner \in User /\ user[dev[d].owner].status = "present"
            /\ d \in DevicesOf(dev[d].owner)
        BY <2>2, <3>1 DEF Registered, DevicesOf
      <3> QED
        BY <2>1, <3>1, <3>2
    <2> QED
      BY <2>3, <2>4
  <1>3. ASSUME NEW t \in Token
        PROVE  /\ tok'[t].status # "unused" => /\ tok'[t].dev \in Device
                                               /\ dev'[tok'[t].dev].status # "unused"
               /\ tok'[t].status = "live" => dev'[tok'[t].dev].status = "present"
    <2>1. /\ tok'[t].dev = tok[t].dev
          /\ tok'[t].status = IF Live(t) /\ tok[t].dev \in D THEN "gone"
                              ELSE tok[t].status
      BY <1>1, DevicesGone
    <2>2. /\ tok[t].status # "unused" => /\ tok[t].dev \in Device
                                         /\ dev[tok[t].dev].status # "unused"
          /\ tok[t].status = "live" => dev[tok[t].dev].status = "present"
      BY <1>1 DEF TablesFit, Live, Registered
    <2>3. tok'[t].status # "unused" => tok[t].status # "unused"
      BY <2>1 DEF Live
    <2>4. tok'[t].status # "unused" => dev'[tok[t].dev].status # "unused"
      BY <2>2, <2>3 DEF Grow, DevicesGrow
    <2>5. ASSUME tok'[t].status = "live"
          PROVE  dev'[tok'[t].dev].status = "present"
      <3>1. tok[t].status = "live" /\ tok[t].dev \notin D /\ tok[t].dev \in Device
        BY <2>1, <2>2, <2>5 DEF Live
      <3>2. dev'[tok[t].dev].status = dev[tok[t].dev].status
        BY <1>1, <3>1, DevicesGone
      <3> QED
        BY <2>1, <2>2, <3>1, <3>2
    <2> QED
      BY <2>1, <2>2, <2>3, <2>4, <2>5
  <1> QED
    BY <1>2, <1>3 DEF TablesFit, Registered, Present, Live

LEMMA TablesFitStep ==
  ASSUME SessionsFit, [Next]_vars
  PROVE  TablesFit'
  <1> DEFINE Same == /\ \A d \in Device : dev'[d].status = dev[d].status
                     /\ \A t \in Token : tok[t].status = "unused"
                                         => tok'[t].status = "unused"
  <1>1. SessionsTypeOK /\ TablesFit /\ Grow
    BY GrowStep DEF SessionsFit
  <1>2. UNCHANGED user => PresentStay
    BY <1>1, UserUnchanged
  <1>3. PresentStay /\ Same => TablesFit'
    BY <1>1, FitStays
  <1>4. CASE UNCHANGED vars
    BY <1>2, <1>3, <1>4 DEF vars
  <1>5. ASSUME NEW r \in Request, Reads(r)
        PROVE  TablesFit'
    BY <1>2, <1>3, <1>5, ReadsKeep
  <1>6. ASSUME NEW r \in Request, UserSteps(r)
        PROVE  TablesFit'
    <2>1. UNCHANGED <<dev, tok>>
      BY <1>6 DEF UserSteps, RegisterUser, VerifyFails, VerifyOk, CreateUser
    <2> QED
      BY <1>3, <1>6, <2>1, UserStepsGrow
  <1>7. ASSUME UNCHANGED <<user, dev>>, NEW S, tok' = WithoutTokens(S)
        PROVE  TablesFit'
    <2>1. \A t \in Token : tok[t].status = "unused" => tok'[t].status = "unused"
      BY <1>1, <1>7, TokensGone DEF SessionsTypeOK, Live
    <2> QED
      BY <1>2, <1>3, <1>7, <2>1
  <1>8. ASSUME NEW r \in Request, TokenSteps(r)
        PROVE  TablesFit'
    BY <1>7, <1>8 DEF TokenSteps, RefreshDelete, ChangeDelete
  <1>9. ASSUME NEW r \in Request, NEW d \in Device, NewDevice(r, d)
        PROVE  TablesFit'
    <2>1. CASE Present(req[r].user)
      <3>1. /\ UNCHANGED <<user, tok>> /\ req[r].user \in User
            /\ user[req[r].user].status = "present" /\ dev[d].status = "unused"
        BY <1>9, <2>1, NewDeviceReq DEF NewDevice, Present
      <3>2. /\ \A x \in Device : x # d => dev'[x] = dev[x]
            /\ dev'[d].status = "present" /\ dev'[d].owner = req[r].user
        BY <1>9, <2>1, NewDeviceGrow
      <3>3. \A x \in Device :
              /\ dev'[x].status # "unused" => dev'[x].owner \in User
              /\ dev'[x].status = "present" => user'[dev'[x].owner].status = "present"
        BY <1>1, <3>1, <3>2 DEF TablesFit, Registered, Present
      <3>4. \A t \in Token :
              /\ tok'[t].status # "unused" => /\ tok'[t].dev \in Device
                                              /\ dev'[tok'[t].dev].status # "unused"
              /\ tok'[t].status = "live" => dev'[tok'[t].dev].status = "present"
        BY <1>1, <3>1, <3>2 DEF TablesFit, Registered, Live
      <3> QED
        BY <3>3, <3>4 DEF TablesFit, Registered, Present, Live
    <2>2. CASE ~Present(req[r].user)
      BY <1>2, <1>3, <1>9, <2>2 DEF NewDevice
    <2> QED
      BY <2>1, <2>2
  <1>10. ASSUME NEW r \in Request, NEW t \in Token, NewToken(r, t)
         PROVE  TablesFit'
    <2>1. CASE Registered(req[r].dev)
      <3>1. UNCHANGED <<user, dev>> /\ dev[req[r].dev].status = "present"
        BY <1>10, <2>1 DEF NewToken, Registered
      <3>2. /\ \A x \in Token : x # t => tok'[x] = tok[x]
            /\ tok'[t].status = "live" /\ tok'[t].dev = req[r].dev
            /\ req[r].dev \in Device
        BY <1>10, <2>1, NewTokenGrow
      <3>3. \A x \in Device :
              /\ dev'[x].status # "unused" => dev'[x].owner \in User
              /\ dev'[x].status = "present" => user'[dev'[x].owner].status = "present"
        BY <1>1, <3>1 DEF TablesFit, Registered, Present
      <3>4. \A x \in Token :
              /\ tok'[x].status # "unused" => /\ tok'[x].dev \in Device
                                              /\ dev'[tok'[x].dev].status # "unused"
              /\ tok'[x].status = "live" => dev'[tok'[x].dev].status = "present"
        BY <1>1, <3>1, <3>2 DEF TablesFit, Registered, Live
      <3> QED
        BY <3>3, <3>4 DEF TablesFit, Registered, Present, Live
    <2>2. CASE ~Registered(req[r].dev)
      BY <1>2, <1>3, <1>10, <2>2, NewTokenGrow DEF NewToken
    <2> QED
      BY <2>1, <2>2
  <1>11. ASSUME NEW r \in Request, ChangeUpdate(r)
         PROVE  TablesFit'
    BY <1>3, <1>11, ChangeUpdateGrow DEF ChangeUpdate
  <1>12. ASSUME NEW r \in Request, RevokeCommit(r)
         PROVE  TablesFit'
    BY <1>1, <1>12, FitDropped DEF RevokeCommit
  <1>13. ASSUME NEW r \in Request, DeleteUserExec(r)
         PROVE  TablesFit'
    <2>1. CASE Present(req[r].user)
      <3>1. DropDevices(DevicesOf(req[r].user))
        BY <1>13, <2>1 DEF DeleteUserExec
      <3>2. \A u \in User : user[u].status = "present" /\ user'[u].status # "present"
                            => u = req[r].user
        BY <1>13, DeleteUserGrow
      <3> QED
        BY <1>1, <3>1, <3>2, FitDropped
    <2>2. CASE ~Present(req[r].user)
      BY <1>2, <1>3, <1>13, <2>2 DEF DeleteUserExec
    <2> QED
      BY <2>1, <2>2
  <1>14. ASSUME NEW t \in Token, TokenEnds(t)
         PROVE  TablesFit'
    BY <1>7, <1>14 DEF TokenEnds
  <1>15. ASSUME NEW u \in User, LockExpires(u)
         PROVE  TablesFit'
    BY <1>3, <1>15, LockExpiresGrow DEF LockExpires
  <1> QED
    BY <1>4, <1>5, <1>6, <1>8, <1>9, <1>10, <1>11, <1>12, <1>13, <1>14, <1>15,
       NextCases

-----------------------------------------------------------------------------
(* What requests have read.                                                 *)

\* It stays in the tables while other requests run.
LEMMA FitsFrame ==
  ASSUME SessionsFit, Grow, NEW x \in Request, Like(req'[x], req[x])
  PROVE  Fits(x)'
  <1>1. Fits(x)
    BY DEF SessionsFit, RequestsFit
  <1>2. /\ req'[x].pc = req[x].pc /\ req'[x].user = req[x].user
        /\ req'[x].dev = req[x].dev /\ req'[x].tok = req[x].tok
    BY DEF Like
  <1>3. /\ \A u \in User : user[u].status # "unused" => user'[u].status # "unused"
        /\ \A d \in Device : dev[d].status # "unused" =>
             dev'[d].status # "unused" /\ dev'[d].owner = dev[d].owner
        /\ \A t \in Token : tok[t].status # "unused" =>
             tok'[t].status # "unused" /\ tok'[t].dev = tok[t].dev
    BY DEF Grow, UsersGrow, DevicesGrow, TokensGrow
  <1>4. req[x].pc \in {"reg_insert", "verify", "device", "ch_update", "ch_delete",
                       "admin", "du_count", "du_exec"} => req[x].user \in User
    BY <1>1 DEF Fits
  <1>5. req[x].pc \in {"verify", "device", "admin", "du_count", "du_exec"} =>
          user'[req[x].user].status # "unused"
    BY <1>1, <1>3, <1>4 DEF Fits
  <1>6. req[x].pc \in {"token", "rf_delete", "ch_update", "ch_delete"} =>
          req[x].dev \in Device /\ dev'[req[x].dev].status # "unused"
    BY <1>1, <1>3 DEF Fits
  <1>7. req[x].pc \in {"ch_update", "ch_delete"} => dev'[req[x].dev].owner = req[x].user
    BY <1>1, <1>3 DEF Fits
  <1>8. req[x].pc = "rf_delete" =>
          /\ req[x].tok \in Token /\ tok'[req[x].tok].status # "unused"
          /\ tok'[req[x].tok].dev = req[x].dev
    BY <1>1, <1>3 DEF Fits
  <1> QED
    BY <1>2, <1>4, <1>5, <1>6, <1>7, <1>8 DEF Fits

\* It is in the tables when a request has just read it.
LEMMA FitsNow ==
  ASSUME SessionsFit, Grow, NEW r \in Request,
         \/ Reads(r) \/ UserSteps(r) \/ TokenSteps(r)
         \/ \E d \in Device : NewDevice(r, d)
         \/ \E t \in Token : NewToken(r, t)
         \/ ChangeUpdate(r) \/ RevokeCommit(r) \/ DeleteUserExec(r)
  PROVE  Moves(r) /\ Fits(r)'
  <1>1. TablesFit /\ Fits(r)
    BY DEF SessionsFit, RequestsFit
  <1>2. /\ \A u \in User : user[u].status # "unused" => user'[u].status # "unused"
        /\ \A d \in Device : dev[d].status # "unused" =>
             dev'[d].status # "unused" /\ dev'[d].owner = dev[d].owner
        /\ \A t \in Token : tok[t].status # "unused" =>
             tok'[t].status # "unused" /\ tok'[t].dev = tok[t].dev
    BY DEF Grow, UsersGrow, DevicesGrow, TokensGrow
  <1>3. req'[r] = Idle => Fits(r)'
    BY IdleType DEF Fits
  <1>4. ASSUME NEW u \in User, RegisterCount(r, u)
        PROVE  Moves(r) /\ Fits(r)'
    BY <1>4, RegisterCountReq DEF Fits
  <1>5. ASSUME NEW u \in User, LoginRead(r, u)
        PROVE  Moves(r) /\ Fits(r)'
    BY <1>2, <1>5, LoginReadReq DEF Fits, LoginRead, Present
  <1>6. ASSUME NEW u \in User, DeleteUserRead(r, u)
        PROVE  Moves(r) /\ Fits(r)'
    BY <1>2, <1>6, DeleteUserReadReq DEF Fits, DeleteUserRead, Present
  <1>7. ASSUME NEW t \in Token, RefreshMatch(r, t)
        PROVE  Moves(r) /\ Fits(r)'
    <2>1. tok[t].status # "unused" /\ tok[t].dev \in Device
          /\ dev[tok[t].dev].status # "unused"
      BY <1>1, <1>7 DEF RefreshMatch, Presentable, Live, TablesFit
    <2> QED
      BY <1>2, <1>7, <2>1, RefreshMatchReq DEF Fits
  <1>8. ASSUME NEW d \in Device, ChangeRead(r, d)
        PROVE  Moves(r) /\ Fits(r)'
    <2>1. dev[d].status # "unused" /\ dev[d].owner \in User
      BY <1>1, <1>8 DEF ChangeRead, Registered, TablesFit
    <2> QED
      BY <1>2, <1>8, <2>1, ChangeReadReq DEF Fits
  <1>9. ASSUME NEW c \in Device, NEW D \in SUBSET Device, RevokeStart(r, c, D)
        PROVE  Moves(r) /\ Fits(r)'
    BY <1>9, RevokeStartReq DEF Fits
  <1>10. ASSUME NEW a \in User, AdminRequest(r, a)
         PROVE  Moves(r) /\ Fits(r)'
    <2>1. user[a].status # "unused"
      BY <1>10 DEF AdminRequest, Admins, Users, Present
    <2> QED
      BY <1>2, <1>10, <2>1, AdminRequestReq DEF Fits
  <1>11. ASSUME NEW b \in BOOLEAN, SetRegistration(r, b)
         PROVE  Moves(r) /\ Fits(r)'
    BY <1>3, <1>11, EndReq
  <1>12. CASE DeleteUserCount(r)
    <2>1. CASE EnoughAdmins(Cardinality(Admins))
      <3>1. req[r].user \in User /\ user[req[r].user].status # "unused"
        BY <1>1, <1>12 DEF Fits, DeleteUserCount, At
      <3> QED
        BY <1>2, <1>12, <2>1, <3>1, DeleteUserCountReq DEF Fits
    <2>2. CASE ~EnoughAdmins(Cardinality(Admins))
      BY <1>3, <1>12, <2>2, DeleteUserCountReq
    <2> QED
      BY <2>1, <2>2
  <1>13. CASE Abort(r)
    BY <1>3, <1>13, AbortReq
  <1>14. CASE RegisterUser(r)
    <2>1. CASE user[req[r].user].status = "unused"
      <3>1. user'[req[r].user].status # "unused"
        <4>1. user' = [user EXCEPT ![req[r].user] = NewUser(req[r].flag)]
              /\ req[r].user \in User /\ user \in [User -> UserRow]
          BY <1>14, <2>1, RegisterUserReq DEF RegisterUser, SessionsFit, SessionsTypeOK
        <4>2. NewUser(req[r].flag).status = "present"
          BY DEF NewUser, NoUser
        <4> QED
          BY <4>1, <4>2
      <3> QED
        BY <1>14, <2>1, <3>1, RegisterUserReq DEF Fits
    <2>2. CASE user[req[r].user].status # "unused"
      BY <1>3, <1>14, <2>2, RegisterUserReq
    <2> QED
      BY <2>1, <2>2
  <1>15. CASE VerifyOk(r)
    <2>1. req[r].user \in User /\ user[req[r].user].status # "unused"
      BY <1>1, <1>15 DEF Fits, VerifyOk, At
    <2> QED
      BY <1>2, <1>15, <2>1, VerifyOkReq DEF Fits
  <1>16. CASE VerifyFails(r)
    BY <1>3, <1>16, EndReq
  <1>17. ASSUME NEW u \in User, NEW adm \in BOOLEAN, CreateUser(r, u, adm)
         PROVE  Moves(r) /\ Fits(r)'
    BY <1>3, <1>17, EndReq
  <1>18. CASE RefreshDelete(r)
    <2>1. req[r].dev \in Device /\ dev[req[r].dev].status # "unused"
      BY <1>1, <1>18 DEF Fits, RefreshDelete, At
    <2> QED
      BY <1>2, <1>18, <2>1, RefreshDeleteReq DEF Fits
  <1>19. CASE ChangeDelete(r)
    BY <1>3, <1>19, EndReq
  <1>20. ASSUME NEW d \in Device, NewDevice(r, d)
         PROVE  Moves(r) /\ Fits(r)'
    <2>1. CASE Present(req[r].user)
      BY <1>20, <2>1, NewDeviceReq, NewDeviceGrow DEF Fits
    <2>2. CASE ~Present(req[r].user)
      BY <1>3, <1>20, <2>2, NewDeviceReq
    <2> QED
      BY <2>1, <2>2
  <1>21. ASSUME NEW t \in Token, NewToken(r, t)
         PROVE  Moves(r) /\ Fits(r)'
    BY <1>3, <1>21, EndReq
  <1>22. CASE ChangeUpdate(r)
    <2>1. /\ req[r].user \in User /\ req[r].dev \in Device
          /\ dev[req[r].dev].status # "unused" /\ dev[req[r].dev].owner = req[r].user
      BY <1>1, <1>22 DEF Fits, ChangeUpdate, At
    <2> QED
      BY <1>2, <1>22, <2>1, ChangeUpdateReq DEF Fits
  <1>23. CASE RevokeCommit(r) \/ DeleteUserExec(r)
    BY <1>3, <1>23, EndReq
  <1> QED
    BY <1>4, <1>5, <1>6, <1>7, <1>8, <1>9, <1>10, <1>11, <1>12, <1>13, <1>14,
       <1>15, <1>16, <1>17, <1>18, <1>19, <1>20, <1>21, <1>22, <1>23
       DEF Reads, UserSteps, TokenSteps

LEMMA RequestsFitStep ==
  ASSUME SessionsFit, [Next]_vars
  PROVE  req' \in [Request -> RequestState] /\ RequestsFit'
  <1>1. Grow /\ req \in [Request -> RequestState]
    BY GrowStep DEF SessionsFit, SessionsTypeOK
  <1>2. CASE UNCHANGED req
    BY <1>1, <1>2, FitsFrame DEF RequestsFit, Like
  <1>3. ASSUME NEW r \in Request, Moves(r), Fits(r)'
        PROVE  req' \in [Request -> RequestState] /\ RequestsFit'
    BY <1>1, <1>3, FitsFrame DEF RequestsFit, Moves, OthersLike
  <1>4. CASE UNCHANGED vars
    BY <1>2, <1>4 DEF vars
  <1>5. CASE (\E t \in Token : TokenEnds(t)) \/ (\E u \in User : LockExpires(u))
    BY <1>2, <1>5 DEF TokenEnds, LockExpires
  <1> QED
    BY <1>1, <1>3, <1>4, <1>5, FitsNow, NextCases

-----------------------------------------------------------------------------
(* Types.                                                                   *)

GhostTypes ==
  /\ open \in BOOLEAN
  /\ forked \subseteq Device /\ late \subseteq Device
  /\ raced \in BOOLEAN /\ rushed \in BOOLEAN
  /\ founders \subseteq User /\ overlap \subseteq User
  /\ failed \in [User -> 0..MaxAttempts]

LEMMA GhostStep ==
  ASSUME SessionsFit, [Next]_vars
  PROVE  GhostTypes'
  <1>1. GhostTypes /\ TablesFit /\ RequestsFit /\ req \in [Request -> RequestState]
    BY DEF SessionsFit, SessionsTypeOK, GhostTypes
  <1>2. CASE UNCHANGED <<open, ghosts>>
    BY <1>1, <1>2 DEF GhostTypes, ghosts, races, guesses
  <1>3. ASSUME NEW r \in Request, NEW u \in User, RegisterCount(r, u)
        PROVE  GhostTypes'
    <2>1. UNCHANGED <<open, forked, late, raced, founders, failed, overlap>>
      BY <1>3 DEF RegisterCount, tables, guesses
    <2>2. rushed' \in BOOLEAN
      BY <1>3 DEF RegisterCount
    <2> QED
      BY <1>1, <2>1, <2>2 DEF GhostTypes
  <1>4. ASSUME NEW r \in Request, RegisterUser(r)
        PROVE  GhostTypes'
    <2>1. UNCHANGED <<open, forked, late, raced, rushed, failed, overlap>>
      BY <1>4 DEF RegisterUser, races, guesses
    <2>2. founders' \subseteq User
      BY <1>1, <1>4, RegisterUserReq DEF RegisterUser, GhostTypes
    <2> QED
      BY <1>1, <2>1, <2>2 DEF GhostTypes
  <1>5. ASSUME NEW r \in Request, NEW t \in Token, NewToken(r, t)
        PROVE  GhostTypes'
    <2>1. UNCHANGED <<open, forked, raced, rushed, founders, failed, overlap>>
      BY <1>5 DEF NewToken, guesses
    <2>2. late' \subseteq Device
      BY <1>1, <1>5, NewTokenGrow DEF NewToken, GhostTypes
    <2> QED
      BY <1>1, <2>1, <2>2 DEF GhostTypes
  <1>6. ASSUME NEW r \in Request, NEW u \in User, LoginRead(r, u)
        PROVE  GhostTypes'
    <2>1. UNCHANGED <<open, forked, late, raced, rushed, founders, failed>>
      BY <1>6 DEF LoginRead, tables, races
    <2>2. overlap' \subseteq User
      BY <1>1, <1>6 DEF LoginRead, GhostTypes
    <2> QED
      BY <1>1, <2>1, <2>2 DEF GhostTypes
  <1>7. ASSUME NEW r \in Request, VerifyFails(r)
        PROVE  GhostTypes'
    <2>1. UNCHANGED <<open, forked, late, raced, rushed, founders, overlap>>
      BY <1>7 DEF VerifyFails, races
    <2>2. req[r].user \in User
      BY <1>1, <1>7 DEF VerifyFails, RequestsFit, Fits, At
    <2>3. failed[req[r].user] + 1 \in 0..MaxAttempts
      <3>1. failed[req[r].user] \in 0..MaxAttempts
        BY <1>1, <2>2 DEF GhostTypes
      <3> QED
        BY <1>7, <3>1, SessionsAssumption DEF VerifyFails
    <2>4. failed' \in [User -> 0..MaxAttempts]
      BY <1>1, <1>7, <2>2, <2>3 DEF VerifyFails, GhostTypes
    <2> QED
      BY <1>1, <2>1, <2>4 DEF GhostTypes
  <1>8. ASSUME NEW r \in Request, VerifyOk(r)
        PROVE  GhostTypes'
    <2>1. UNCHANGED <<open, forked, late, raced, rushed, founders>>
      BY <1>8 DEF VerifyOk, races
    <2>2. overlap' \subseteq User
      BY <1>1, <1>8 DEF VerifyOk, GhostTypes
    <2>3. 0 \in 0..MaxAttempts
      BY SessionsAssumption
    <2>4. failed' \in [User -> 0..MaxAttempts]
      BY <1>1, <1>8, <2>3 DEF VerifyOk, GhostTypes
    <2> QED
      BY <1>1, <2>1, <2>2, <2>4 DEF GhostTypes
  <1>9. ASSUME NEW r \in Request, RefreshDelete(r)
        PROVE  GhostTypes'
    <2>1. UNCHANGED <<open, late, raced, rushed, founders, failed, overlap>>
      BY <1>9 DEF RefreshDelete, guesses
    <2>2. req[r].dev \in Device
      BY <1>1, <1>9 DEF RefreshDelete, RequestsFit, Fits, At
    <2>3. forked' \subseteq Device
      BY <1>1, <1>9, <2>2 DEF RefreshDelete, GhostTypes
    <2> QED
      BY <1>1, <2>1, <2>3 DEF GhostTypes
  <1>10. ASSUME NEW r \in Request, DeleteUserCount(r)
         PROVE  GhostTypes'
    <2>1. UNCHANGED <<open, forked, late, rushed, founders, failed, overlap>>
      BY <1>10 DEF DeleteUserCount, tables, guesses
    <2>2. raced' \in BOOLEAN
      BY <1>1, <1>10 DEF DeleteUserCount, GhostTypes
    <2> QED
      BY <1>1, <2>1, <2>2 DEF GhostTypes
  <1>11. ASSUME NEW r \in Request, NEW b \in BOOLEAN, SetRegistration(r, b)
         PROVE  GhostTypes'
    BY <1>1, <1>11 DEF SetRegistration, ghosts, races, guesses, GhostTypes
  <1>12. ASSUME NEW r \in Request, Abort(r)
         PROVE  GhostTypes'
    <2>1. UNCHANGED <<open, forked, raced, rushed, founders, failed, overlap>>
      BY <1>12 DEF Abort, tables, guesses
    <2>2. \A t \in Outdated(req[r].user, req[r].dev) : tok[t].dev \in Device
      BY <1>1 DEF Outdated, TokensOf, TablesFit, Live
    <2>3. late' \subseteq Device
      BY <1>1, <1>12, <2>2 DEF Abort, GhostTypes
    <2> QED
      BY <1>1, <2>1, <2>3 DEF GhostTypes
  <1>13. ASSUME NEW r \in Request,
                \/ \E u \in User : \/ DeleteUserRead(r, u)
                                   \/ \E adm \in BOOLEAN : CreateUser(r, u, adm)
                \/ \E t \in Token : RefreshMatch(r, t)
                \/ \E d \in Device : ChangeRead(r, d) \/ NewDevice(r, d)
                \/ \E c \in Device, D \in SUBSET Device : RevokeStart(r, c, D)
                \/ \E a \in User : AdminRequest(r, a)
                \/ ChangeDelete(r) \/ ChangeUpdate(r) \/ RevokeCommit(r)
                \/ DeleteUserExec(r)
         PROVE  GhostTypes'
    BY <1>2, <1>13 DEF DeleteUserRead, CreateUser, RefreshMatch, ChangeRead, NewDevice,
       RevokeStart, AdminRequest, ChangeDelete, ChangeUpdate, RevokeCommit,
       DeleteUserExec, tables
  <1>14. CASE UNCHANGED vars
    BY <1>2, <1>14 DEF vars, ghosts, races, guesses
  <1>15. CASE (\E t \in Token : TokenEnds(t)) \/ (\E u \in User : LockExpires(u))
    BY <1>2, <1>15 DEF TokenEnds, LockExpires
  <1> QED
    BY <1>3, <1>4, <1>5, <1>6, <1>7, <1>8, <1>9, <1>10, <1>11, <1>12, <1>13,
       <1>14, <1>15, NextCases DEF Reads, UserSteps, TokenSteps

LEMMA InitFit ==
  ASSUME Init
  PROVE  SessionsFit
  <1>1. 0 \in 0..MaxPassword /\ 0 \in 0..MaxAttempts
    BY SessionsAssumption
  <1>2. NoUser \in UserRow
    BY <1>1 DEF NoUser, UserRow
  <1>3. SessionsTypeOK
    <2>1. user \in [User -> UserRow]
      BY <1>2 DEF Init
    <2>2. dev \in [Device -> DeviceRow]
      BY <1>1 DEF Init, DeviceRow
    <2>3. tok \in [Token -> TokenRow]
      BY DEF Init, TokenRow
    <2>4. req \in [Request -> RequestState]
      BY IdleType DEF Init
    <2>5. failed \in [User -> 0..MaxAttempts]
      BY <1>1 DEF Init
    <2> QED
      BY <2>1, <2>2, <2>3, <2>4, <2>5 DEF Init, SessionsTypeOK
  <1>4. TablesFit
    BY DEF Init, TablesFit, Registered, Live
  <1>5. RequestsFit
    BY IdleType DEF Init, RequestsFit, Fits
  <1> QED
    BY <1>3, <1>4, <1>5 DEF SessionsFit

LEMMA FitStep ==
  ASSUME SessionsFit, [Next]_vars
  PROVE  SessionsFit'
  <1>1. SessionsTypeOK'
    BY GrowStep, GhostStep, RequestsFitStep
       DEF SessionsTypeOK, GhostTypes, Grow, UsersGrow, DevicesGrow, TokensGrow
  <1> QED
    BY <1>1, TablesFitStep, RequestsFitStep DEF SessionsFit

\* Types and foreign keys hold whatever requests run and where they stop: for
\* every number of accounts, devices, tokens and requests.
THEOREM SessionsFitting == Spec => []SessionsFit
  <1>1. Init => SessionsFit
    BY InitFit
  <1>2. SessionsFit /\ [Next]_vars => SessionsFit'
    BY FitStep
  <1> QED
    BY <1>1, <1>2, PTL DEF Spec

\* Every step keeps the types.
THEOREM SessionsTypeCorrect == Spec => []SessionsTypeOK
  <1>1. SessionsFit => SessionsTypeOK
    BY DEF SessionsFit
  <1> QED
    BY <1>1, SessionsFitting, PTL

\* A live token always has its device and its account.
THEOREM TokensOwned == Spec => []TokenNeedsDevice
  <1>1. SessionsFit => TokenNeedsDevice
    BY DEF SessionsFit, TablesFit, TokenNeedsDevice, Live, Registered, Users
  <1> QED
    BY <1>1, SessionsFitting, PTL

-----------------------------------------------------------------------------
(* Whose step it was.                                                       *)

\* A step of the request r.
StepOf(r) ==
  \/ Reads(r) \/ UserSteps(r) \/ TokenSteps(r)
  \/ \E d \in Device : NewDevice(r, d)
  \/ \E t \in Token : NewToken(r, t)
  \/ ChangeUpdate(r) \/ RevokeCommit(r) \/ DeleteUserExec(r)

\* A request that does not move may become late.
Stays(x) == Like(req'[x], req[x]) /\ (req[x].late => req'[x].late)

LEMMA OwnStep ==
  ASSUME SessionsFit, [Next]_vars, NEW x \in Request, ~Stays(x)
  PROVE  StepOf(x)
  <1>1. ~UNCHANGED req
    BY DEF Stays, Like
  <1>2. PICK r \in Request : StepOf(r)
    <2>1. ~UNCHANGED vars /\ (\A t \in Token : ~TokenEnds(t))
          /\ \A u \in User : ~LockExpires(u)
      BY <1>1 DEF vars, TokenEnds, LockExpires
    <2> QED
      BY <2>1, NextCases DEF StepOf
  <1>3. Moves(r)
    BY <1>2, GrowStep, FitsNow DEF StepOf
  <1>4. r = x
    BY <1>3 DEF Moves, OthersLike, Stays
  <1> QED
    BY <1>2, <1>4

\* What a request must have done to be where it is.
LEMMA CameBy ==
  ASSUME SessionsFit, [Next]_vars, NEW x \in Request, ~Stays(x)
  PROVE  /\ req'[x].pc = "reg_insert" => \E u \in User : RegisterCount(x, u)
         /\ req'[x].pc = "verify" => \E u \in User : LoginRead(x, u)
         /\ req'[x].pc = "device" =>
              \/ RegisterUser(x) /\ user[req[x].user].status = "unused"
              \/ VerifyOk(x)
         /\ req'[x].pc = "token" =>
              \/ RefreshDelete(x)
              \/ \E d \in Device : NewDevice(x, d) /\ Present(req[x].user)
         /\ req'[x].pc = "rf_delete" => \E t \in Token : RefreshMatch(x, t)
         /\ req'[x].pc = "ch_delete" => ChangeUpdate(x)
         /\ req'[x].pc = "du_exec" =>
              \/ \E u \in User : DeleteUserRead(x, u) /\ ~user[u].admin
              \/ DeleteUserCount(x) /\ EnoughAdmins(Cardinality(Admins))
  <1> DEFINE pc == req'[x].pc
             Goal == /\ pc = "reg_insert" => \E u \in User : RegisterCount(x, u)
                     /\ pc = "verify" => \E u \in User : LoginRead(x, u)
                     /\ pc = "device" =>
                          \/ RegisterUser(x) /\ user[req[x].user].status = "unused"
                          \/ VerifyOk(x)
                     /\ pc = "token" =>
                          \/ RefreshDelete(x)
                          \/ \E d \in Device : NewDevice(x, d) /\ Present(req[x].user)
                     /\ pc = "rf_delete" => \E t \in Token : RefreshMatch(x, t)
                     /\ pc = "ch_delete" => ChangeUpdate(x)
                     /\ pc = "du_exec" =>
                          \/ \E u \in User : DeleteUserRead(x, u) /\ ~user[u].admin
                          \/ DeleteUserCount(x) /\ EnoughAdmins(Cardinality(Admins))
  <1>1. StepOf(x)
    BY OwnStep
  <1>2. req'[x] = Idle => Goal
    BY IdleType
  <1>3. ASSUME NEW u \in User, RegisterCount(x, u)
        PROVE  Goal
    BY <1>3, RegisterCountReq
  <1>4. ASSUME NEW u \in User, LoginRead(x, u)
        PROVE  Goal
    BY <1>4, LoginReadReq
  <1>5. ASSUME NEW u \in User, DeleteUserRead(x, u)
        PROVE  Goal
    BY <1>5, DeleteUserReadReq
  <1>6. ASSUME NEW t \in Token, RefreshMatch(x, t)
        PROVE  Goal
    BY <1>6, RefreshMatchReq
  <1>7. ASSUME NEW d \in Device, ChangeRead(x, d)
        PROVE  Goal
    BY <1>7, ChangeReadReq
  <1>8. ASSUME NEW c \in Device, NEW D \in SUBSET Device, RevokeStart(x, c, D)
        PROVE  Goal
    BY <1>8, RevokeStartReq
  <1>9. ASSUME NEW a \in User, AdminRequest(x, a)
        PROVE  Goal
    BY <1>9, AdminRequestReq
  <1>10. ASSUME DeleteUserCount(x)
        PROVE  Goal
    BY <1>2, <1>10, DeleteUserCountReq
  <1>11. ASSUME Abort(x)
        PROVE  Goal
    BY <1>2, <1>11, AbortReq
  <1>12. ASSUME RegisterUser(x)
        PROVE  Goal
    BY <1>2, <1>12, RegisterUserReq
  <1>13. ASSUME VerifyOk(x)
        PROVE  Goal
    BY <1>13, VerifyOkReq
  <1>14. ASSUME RefreshDelete(x)
        PROVE  Goal
    BY <1>14, RefreshDeleteReq
  <1>15. ASSUME NEW d \in Device, NewDevice(x, d)
         PROVE  Goal
    BY <1>2, <1>15, NewDeviceReq
  <1>16. ASSUME ChangeUpdate(x)
        PROVE  Goal
    BY <1>16, ChangeUpdateReq
  <1>17. ASSUME \/ \E t \in Token : NewToken(x, t)
                \/ VerifyFails(x) \/ RevokeCommit(x)
                \/ \E u \in User, adm \in BOOLEAN : CreateUser(x, u, adm)
                \/ \E b \in BOOLEAN : SetRegistration(x, b)
                \/ DeleteUserExec(x) \/ ChangeDelete(x)
         PROVE  Goal
    BY <1>2, <1>17, EndReq
  <1> HIDE DEF Goal
  <1>18. Reads(x) => Goal
    BY <1>3, <1>4, <1>5, <1>6, <1>7, <1>8, <1>9, <1>10, <1>11, <1>17 DEF Reads
  <1>19. UserSteps(x) => Goal
    BY <1>12, <1>13, <1>17 DEF UserSteps
  <1>20. Goal
    BY <1>1, <1>14, <1>15, <1>16, <1>17, <1>18, <1>19 DEF StepOf, TokenSteps
  <1> QED
    BY <1>20 DEF Goal

\* A change of password is over only when it has ended or stopped.
LEMMA ChangeGoesOn ==
  ASSUME SessionsFit, [Next]_vars, NEW x \in Request, At(x, "ch_delete"),
         ~ChangeDelete(x), ~Abort(x)
  PROVE  Stays(x)
  <1>1. ~StepOf(x)
    BY DEF StepOf, Reads, UserSteps, TokenSteps, RegisterCount, LoginRead,
       DeleteUserRead, RefreshMatch, ChangeRead, RevokeStart, AdminRequest,
       SetRegistration, DeleteUserCount, RegisterUser, VerifyFails, VerifyOk,
       CreateUser, RefreshDelete, NewDevice, NewToken, ChangeUpdate, RevokeCommit,
       DeleteUserExec, At
  <1> QED
    BY <1>1, OwnStep

\* What a step may do to an account.
Kept(u) ==
  /\ user'[u].status = user[u].status /\ user'[u].admin = user[u].admin
  /\ user'[u].password = user[u].password /\ user'[u].attempts = user[u].attempts
Added(u, adm) ==
  /\ user[u].status = "unused" /\ user'[u].status = "present"
  /\ user'[u].admin = adm /\ user'[u].password = 0 /\ user'[u].attempts = 0
Counted(u, n) ==
  /\ Present(u) /\ user'[u].status = user[u].status
  /\ user'[u].admin = user[u].admin
  /\ user'[u].password = user[u].password /\ user'[u].attempts = n
Changed(u) ==
  /\ Present(u) /\ user'[u].status = user[u].status
  /\ user'[u].admin = user[u].admin /\ user'[u].attempts = user[u].attempts
  /\ user'[u].password = user[u].password + 1
Deleted(u) ==
  /\ Present(u) /\ user'[u].status = "deleted" /\ user'[u].admin = user[u].admin
  /\ user'[u].password = user[u].password /\ user'[u].attempts = user[u].attempts

LEMMA AddedBy ==
  ASSUME user \in [User -> UserRow], NEW u \in User, NEW adm \in BOOLEAN,
         user[u].status = "unused", user' = [user EXCEPT ![u] = NewUser(adm)]
  PROVE  Added(u, adm)
  <1>1. /\ NewUser(adm).status = "present" /\ NewUser(adm).admin = adm
        /\ NewUser(adm).password = 0 /\ NewUser(adm).attempts = 0
    BY DEF NewUser, NoUser
  <1>2. user'[u] = NewUser(adm)
    OBVIOUS
  <1> QED
    BY <1>1, <1>2 DEF Added

LEMMA AccountStep ==
  ASSUME SessionsFit, [Next]_vars, NEW u \in User
  PROVE  \/ Kept(u)
         \/ \E r \in Request : RegisterUser(r) /\ req[r].user = u /\ Added(u, req[r].flag)
         \/ \E r \in Request, adm \in BOOLEAN : CreateUser(r, u, adm) /\ Added(u, adm)
         \/ \E r \in Request : /\ VerifyFails(r) /\ req[r].user = u
                               /\ Counted(u, NextAttempts(req[r].n))
         \/ \E r \in Request : VerifyOk(r) /\ req[r].user = u /\ Counted(u, 0)
         \/ \E r \in Request : ChangeUpdate(r) /\ req[r].user = u /\ Changed(u)
         \/ \E r \in Request : DeleteUserExec(r) /\ req[r].user = u /\ Deleted(u)
  <1>1. /\ user \in [User -> UserRow] /\ user[u] \in UserRow /\ RequestsFit
        /\ req \in [Request -> RequestState]
    BY DEF SessionsFit, SessionsTypeOK
  <1>2. user'[u] = user[u] => Kept(u)
    BY DEF Kept
  <1>3. CASE UNCHANGED user
    BY <1>2, <1>3
  <1>4. ASSUME NEW r \in Request, RegisterUser(r), user'[u] # user[u]
        PROVE  req[r].user = u /\ Added(u, req[r].flag)
    <2>1. /\ user[req[r].user].status = "unused" /\ req[r].user \in User
          /\ user' = [user EXCEPT ![req[r].user] = NewUser(req[r].flag)]
          /\ req[r].flag \in BOOLEAN
      BY <1>1, <1>4, RegisterUserReq DEF RegisterUser, RequestState
    <2>2. req[r].user = u
      BY <1>1, <1>4, <2>1
    <2> QED
      BY <1>1, <2>1, <2>2, AddedBy
  <1>5. ASSUME NEW r \in Request, NEW v \in User, NEW adm \in BOOLEAN,
               CreateUser(r, v, adm), user'[u] # user[u]
        PROVE  v = u /\ Added(u, adm)
    <2>1. /\ user[v].status = "unused"
          /\ user' = [user EXCEPT ![v] = NewUser(adm)]
      BY <1>5 DEF CreateUser
    <2>2. v = u
      BY <1>1, <1>5, <2>1
    <2> QED
      BY <1>1, <2>1, <2>2, AddedBy
  <1>6. ASSUME NEW r \in Request, VerifyFails(r), user'[u] # user[u]
        PROVE  req[r].user = u /\ Counted(u, NextAttempts(req[r].n))
    <2> DEFINE n == NextAttempts(req[r].n)
               row(v) == [user[v] EXCEPT !.attempts = n, !.locked = @ \/ n >= Threshold]
    <2>1. /\ Present(req[r].user) /\ req[r].user \in User
          /\ user' = [user EXCEPT ![req[r].user] = row(req[r].user)]
      BY <1>1, <1>6 DEF VerifyFails, RequestsFit, Fits, At
    <2>2. req[r].user = u
      BY <1>1, <1>6, <2>1
    <2>3. user'[u] = row(u)
      BY <1>1, <2>1, <2>2
    <2>4. /\ row(u).status = user[u].status /\ row(u).admin = user[u].admin
          /\ row(u).password = user[u].password /\ row(u).attempts = n
      BY <1>1 DEF UserRow
    <2> HIDE DEF row
    <2> QED
      BY <2>1, <2>2, <2>3, <2>4 DEF Counted
  <1>7. ASSUME NEW r \in Request, VerifyOk(r), user'[u] # user[u]
        PROVE  req[r].user = u /\ Counted(u, 0)
    <2> DEFINE row(v) == [user[v] EXCEPT !.attempts = 0, !.locked = FALSE]
    <2>1. /\ Present(req[r].user) /\ req[r].user \in User
          /\ user' = [user EXCEPT ![req[r].user] = row(req[r].user)]
      BY <1>1, <1>7 DEF VerifyOk, RequestsFit, Fits, At
    <2>2. req[r].user = u
      BY <1>1, <1>7, <2>1
    <2>3. user'[u] = row(u)
      BY <1>1, <2>1, <2>2
    <2>4. /\ row(u).status = user[u].status /\ row(u).admin = user[u].admin
          /\ row(u).password = user[u].password /\ row(u).attempts = 0
      BY <1>1 DEF UserRow
    <2> HIDE DEF row
    <2> QED
      BY <2>1, <2>2, <2>3, <2>4 DEF Counted
  <1>8. ASSUME NEW r \in Request, ChangeUpdate(r), user'[u] # user[u]
        PROVE  req[r].user = u /\ Changed(u)
    <2> DEFINE row(v) == [user[v] EXCEPT !.password = @ + 1]
    <2>1. /\ Present(req[r].user) /\ req[r].user \in User
          /\ user' = [user EXCEPT ![req[r].user] = row(req[r].user)]
      BY <1>1, <1>8 DEF ChangeUpdate, RequestsFit, Fits, At
    <2>2. req[r].user = u
      BY <1>1, <1>8, <2>1
    <2>3. user'[u] = row(u)
      BY <1>1, <2>1, <2>2
    <2>4. /\ row(u).status = user[u].status /\ row(u).admin = user[u].admin
          /\ row(u).password = user[u].password + 1
          /\ row(u).attempts = user[u].attempts
      BY <1>1 DEF UserRow
    <2> HIDE DEF row
    <2> QED
      BY <2>1, <2>2, <2>3, <2>4 DEF Changed
  <1>9. ASSUME NEW r \in Request, DeleteUserExec(r), user'[u] # user[u]
        PROVE  req[r].user = u /\ Deleted(u)
    <2> DEFINE row(v) == [user[v] EXCEPT !.status = "deleted"]
    <2>1. /\ Present(req[r].user) /\ req[r].user \in User
          /\ user' = [user EXCEPT ![req[r].user] = row(req[r].user)]
      BY <1>1, <1>9 DEF DeleteUserExec, RequestsFit, Fits, At
    <2>2. req[r].user = u
      BY <1>1, <1>9, <2>1
    <2>3. user'[u] = row(u)
      BY <1>1, <2>1, <2>2
    <2>4. /\ row(u).status = "deleted" /\ row(u).admin = user[u].admin
          /\ row(u).password = user[u].password
          /\ row(u).attempts = user[u].attempts
      BY <1>1 DEF UserRow
    <2> HIDE DEF row
    <2> QED
      BY <2>1, <2>2, <2>3, <2>4 DEF Deleted
  <1>10. ASSUME NEW v \in User, LockExpires(v)
         PROVE  Kept(u)
    <2> DEFINE row(w) == [user[w] EXCEPT !.locked = FALSE]
    <2>1. user' = [user EXCEPT ![v] = row(v)]
      BY <1>10 DEF LockExpires
    <2>2. user'[u] = user[u] \/ user'[u] = row(u)
      BY <1>1, <2>1
    <2>3. /\ row(u).status = user[u].status /\ row(u).admin = user[u].admin
          /\ row(u).password = user[u].password
          /\ row(u).attempts = user[u].attempts
      BY <1>1 DEF UserRow
    <2> HIDE DEF row
    <2> QED
      BY <2>2, <2>3 DEF Kept
  <1>11. ASSUME NEW r \in Request,
                \/ Reads(r) \/ TokenSteps(r) \/ RevokeCommit(r)
                \/ \E d \in Device : NewDevice(r, d)
                \/ \E t \in Token : NewToken(r, t)
         PROVE  UNCHANGED user
    BY <1>11, ReadsKeep DEF TokenSteps, RefreshDelete, ChangeDelete, RevokeCommit,
       NewDevice, NewToken
  <1>12. UNCHANGED vars \/ (\E t \in Token : TokenEnds(t)) => UNCHANGED user
    BY DEF vars, TokenEnds
  <1>13. CASE user'[u] = user[u]
    BY <1>2, <1>13
  <1>14. ASSUME user'[u] # user[u]
         PROVE  \/ \E r \in Request : \/ RegisterUser(r) \/ VerifyFails(r) \/ VerifyOk(r)
                                      \/ \E v \in User, adm \in BOOLEAN : CreateUser(r, v, adm)
                                      \/ ChangeUpdate(r) \/ DeleteUserExec(r)
                \/ \E v \in User : LockExpires(v)
    BY <1>11, <1>12, <1>14, NextCases DEF UserSteps
  <1> DEFINE ByCreate == \E r \in Request, adm \in BOOLEAN : CreateUser(r, u, adm) /\ Added(u, adm)
  <1>15. ASSUME user'[u] # user[u], NEW r \in Request, NEW v \in User,
                NEW adm \in BOOLEAN, CreateUser(r, v, adm)
         PROVE  ByCreate
    <2>1. CreateUser(r, u, adm) /\ Added(u, adm)
      BY <1>5, <1>15
    <2> QED
      BY <2>1
  <1> HIDE DEF ByCreate
  <1>16. CASE user'[u] # user[u]
    <2>1. CASE \E r \in Request, v \in User, adm \in BOOLEAN : CreateUser(r, v, adm)
      BY <1>15, <1>16, <2>1 DEF ByCreate
    <2>2. CASE \E r \in Request : RegisterUser(r)
      BY <1>4, <1>16, <2>2
    <2>3. CASE \E r \in Request : VerifyFails(r)
      BY <1>6, <1>16, <2>3
    <2>4. CASE \E r \in Request : VerifyOk(r)
      BY <1>7, <1>16, <2>4
    <2>5. CASE \E r \in Request : ChangeUpdate(r)
      BY <1>8, <1>16, <2>5
    <2>6. CASE \E r \in Request : DeleteUserExec(r)
      BY <1>9, <1>16, <2>6
    <2>7. CASE \E v \in User : LockExpires(v)
      BY <1>10, <2>7
    <2> QED
      BY <1>14, <1>16, <2>1, <2>2, <2>3, <2>4, <2>5, <2>6, <2>7
  <1> QED
    BY <1>13, <1>16

-----------------------------------------------------------------------------
(* Sessions implements SessionLife.                                         *)

Opening == \E r \in Request, d \in Device : NewDevice(r, d) /\ Present(req[r].user)

\* Only the insert of a device lets a device exist.
LEMMA NewStaysNew ==
  ASSUME SessionsFit, [Next]_vars, ~Opening, NEW d \in Device,
         dev[d].status = "unused"
  PROVE  dev'[d].status = "unused"
  <1>1. dev \in [Device -> DeviceRow] /\ tok \in [Token -> TokenRow]
    BY DEF SessionsFit, SessionsTypeOK
  <1>2. ASSUME NEW D, DropDevices(D)
        PROVE  dev'[d].status = "unused"
    BY <1>1, <1>2, DevicesGone DEF Registered
  <1>3. ASSUME NEW r \in Request, NEW x \in Device, NewDevice(r, x)
        PROVE  UNCHANGED dev
    BY <1>3 DEF NewDevice, Opening
  <1>4. ASSUME NEW r \in Request, DeleteUserExec(r)
        PROVE  dev'[d].status = "unused"
    BY <1>2, <1>4 DEF DeleteUserExec
  <1>5. ASSUME NEW r \in Request, RevokeCommit(r)
        PROVE  dev'[d].status = "unused"
    BY <1>2, <1>5 DEF RevokeCommit
  <1>6. ASSUME NEW r \in Request,
               Reads(r) \/ UserSteps(r) \/ TokenSteps(r) \/ \E t \in Token : NewToken(r, t)
        PROVE  UNCHANGED dev
    BY <1>6, ReadsKeep DEF UserSteps, RegisterUser, VerifyFails, VerifyOk, CreateUser,
       TokenSteps, RefreshDelete, ChangeDelete, NewToken
  <1>7. CASE \/ UNCHANGED vars \/ (\E t \in Token : TokenEnds(t))
             \/ (\E u \in User : LockExpires(u))
    BY <1>7 DEF vars, TokenEnds, LockExpires
  <1> QED
    BY <1>3, <1>4, <1>5, <1>6, <1>7, ChangeUpdateGrow, NextCases

\* A token becomes live only for a device that a request holds one for.
LEMMA TokenComesFrom ==
  ASSUME SessionsFit, [Next]_vars, NEW t \in Token, Live(t)'
  PROVE  \/ Live(t) /\ tok'[t].dev = tok[t].dev
         \/ \E r \in Request : /\ NewToken(r, t) /\ Registered(req[r].dev)
                               /\ req[r].dev = tok'[t].dev
  <1>1. SessionsTypeOK /\ dev \in [Device -> DeviceRow] /\ tok \in [Token -> TokenRow]
    BY DEF SessionsFit, SessionsTypeOK
  <1>2. ASSUME NEW S, tok' = WithoutTokens(S)
        PROVE  Live(t) /\ tok'[t].dev = tok[t].dev
    BY <1>1, <1>2, TokensGone DEF Live
  <1>3. ASSUME NEW D, DropDevices(D)
        PROVE  Live(t) /\ tok'[t].dev = tok[t].dev
    BY <1>1, <1>3, DevicesGone DEF Live
  <1>4. ASSUME NEW r \in Request, NEW x \in Token, NewToken(r, x)
        PROVE  \/ Live(t) /\ tok'[t].dev = tok[t].dev
               \/ NewToken(r, t) /\ Registered(req[r].dev) /\ req[r].dev = tok'[t].dev
    <2>1. CASE x = t
      BY <1>4, <2>1, NewTokenGrow DEF NewToken, Live
    <2>2. CASE x # t
      BY <1>4, <2>2, NewTokenGrow DEF Live
    <2> QED
      BY <2>1, <2>2
  <1>5. UNCHANGED tok => Live(t) /\ tok'[t].dev = tok[t].dev
    BY DEF Live
  <1>6. ASSUME NEW r \in Request,
               \/ Reads(r) \/ UserSteps(r) \/ ChangeUpdate(r)
               \/ \E d \in Device : NewDevice(r, d)
        PROVE  UNCHANGED tok
    BY <1>6, ReadsKeep DEF UserSteps, RegisterUser, VerifyFails, VerifyOk, CreateUser,
       ChangeUpdate, NewDevice
  <1>7. ASSUME NEW r \in Request, TokenSteps(r)
        PROVE  Live(t) /\ tok'[t].dev = tok[t].dev
    BY <1>2, <1>7 DEF TokenSteps, RefreshDelete, ChangeDelete
  <1>8. ASSUME NEW r \in Request, RevokeCommit(r)
        PROVE  Live(t) /\ tok'[t].dev = tok[t].dev
    BY <1>3, <1>8 DEF RevokeCommit
  <1>9. ASSUME NEW r \in Request, DeleteUserExec(r)
        PROVE  Live(t) /\ tok'[t].dev = tok[t].dev
    BY <1>3, <1>5, <1>9 DEF DeleteUserExec
  <1>10. CASE \E x \in Token : TokenEnds(x)
    BY <1>2, <1>10 DEF TokenEnds
  <1>11. CASE UNCHANGED vars \/ (\E u \in User : LockExpires(u))
    BY <1>5, <1>11 DEF vars, LockExpires
  <1> QED
    BY <1>4, <1>5, <1>6, <1>7, <1>8, <1>9, <1>10, <1>11, NextCases

\* A request comes to renew a session only with a live token, or by going on.
LEMMA RequestComesFrom ==
  ASSUME SessionsFit, [Next]_vars, ~Opening, NEW x \in Request,
         req'[x].pc \in {"rf_delete", "token"}
  PROVE  Renewable(req'[x].dev)
  <1>1. CASE Stays(x)
    BY <1>1 DEF Stays, Like, Renewable
  <1>2. ASSUME NEW t \in Token, RefreshMatch(x, t)
        PROVE  Renewable(req'[x].dev)
    BY <1>2, RefreshMatchReq DEF RefreshMatch, Presentable, Renewable
  <1>3. CASE RefreshDelete(x)
    BY <1>3, RefreshDeleteReq DEF RefreshDelete, At, Renewable
  <1> QED
    BY <1>1, <1>2, <1>3, CameBy DEF Opening

\* Between two logins sessions only end.
LEMMA OnlyClose ==
  ASSUME SessionsFit, [Next]_vars, ~Opening
  PROVE  [Life!LifeNext]_([d \in Device |-> Phase(d)])
  <1>1. ASSUME NEW d \in Device
        PROVE  Phase(d)' = Phase(d) \/ (Phase(d) = "open" /\ Phase(d)' = "closed")
    <2>1. dev[d].status = "unused" <=> dev'[d].status = "unused"
      BY NewStaysNew, GrowStep DEF Grow, DevicesGrow
    <2>2. dev[d].status # "unused" /\ Registered(d)' => Registered(d)
      BY GrowStep DEF Grow, DevicesGrow
    <2>3. Renewable(d)' => Renewable(d)
      <3>1. ASSUME NEW t \in Token, Live(t)', tok'[t].dev = d
            PROVE  Renewable(d)
        BY <3>1, TokenComesFrom DEF Renewable, NewToken, At
      <3>2. ASSUME NEW x \in Request, req'[x].pc \in {"rf_delete", "token"}, req'[x].dev = d
            PROVE  Renewable(d)
        BY <3>2, RequestComesFrom
      <3> QED
        BY <3>1, <3>2 DEF Renewable
    <2> QED
      BY <2>1, <2>2, <2>3 DEF Phase
  <1> DEFINE S == {d \in Device : Phase(d)' # Phase(d)}
  <1>2. Life!Close(S)
    <2>1. \A d \in S : [x \in Device |-> Phase(x)][d] = "open"
      BY <1>1
    <2>2. [d \in Device |-> Phase(d)]' =
            [d \in Device |-> IF d \in S THEN "closed" ELSE [x \in Device |-> Phase(x)][d]]
      BY <1>1
    <2> QED
      BY <2>1, <2>2 DEF Life!Close
  <1>3. S \in SUBSET Device
    OBVIOUS
  <1> HIDE DEF S
  <1> QED
    BY <1>2, <1>3 DEF Life!LifeNext

\* A login opens one session.
LEMMA OpensOne ==
  ASSUME SessionsFit, NEW r \in Request, NEW d \in Device, NewDevice(r, d),
         Present(req[r].user)
  PROVE  Life!Open(d)
  <1>1. /\ \A x \in Device : x # d => dev'[x] = dev[x]
        /\ dev[d].status = "unused" /\ dev'[d].status = "present" /\ UNCHANGED tok
    BY NewDeviceGrow DEF NewDevice
  <1>2. req'[r].pc = "token" /\ req'[r].dev = d /\ Moves(r) /\ req[r].pc = "device"
    BY NewDeviceReq DEF NewDevice, At
  <1>3. Phase(d) = "new" /\ Phase(d)' = "open"
    BY <1>1, <1>2 DEF Phase, Registered, Renewable
  <1>4. ASSUME NEW x \in Device, x # d
        PROVE  Phase(x)' = Phase(x)
    <2>1. \A y \in Request : y # r => /\ req'[y].pc = req[y].pc
                                      /\ req'[y].dev = req[y].dev
      BY <1>2 DEF Moves, OthersLike, Like
    <2>2. Renewable(x)' <=> Renewable(x)
      BY <1>1, <1>2, <1>4, <2>1 DEF Renewable, Live
    <2> QED
      BY <1>1, <1>4, <2>2 DEF Phase, Registered
  <1> QED
    BY <1>3, <1>4 DEF Life!Open

\* A session that has ended is never renewed, for every number of accounts,
\* devices, tokens and requests.
THEOREM SessionsEnd == Spec => ImplementsLife
  <1>1. Init => Life!LifeInit
    BY DEF Init, Life!LifeInit, Phase
  <1>2. SessionsFit /\ [Next]_vars => [Life!LifeNext]_([d \in Device |-> Phase(d)])
    <2> SUFFICES ASSUME SessionsFit, [Next]_vars
                 PROVE  [Life!LifeNext]_([d \in Device |-> Phase(d)])
      OBVIOUS
    <2>1. CASE Opening
      BY <2>1, OpensOne DEF Opening, Life!LifeNext
    <2> QED
      BY <2>1, OnlyClose
  <1> QED
    BY <1>1, <1>2, SessionsFitting, PTL DEF Spec, ImplementsLife, Life!LifeSpec

-----------------------------------------------------------------------------
(* Rotation.                                                                *)

\* Fewer tokens and fewer requests for one do no harm.
LEMMA FewerTokens ==
  ASSUME TokensDiffer, forked \subseteq forked',
         \A t \in Token : Live(t)' => Live(t) /\ tok'[t].dev = tok[t].dev,
         \A x \in Request : req'[x].pc = "token" =>
           req[x].pc = "token" /\ req'[x].dev = req[x].dev
  PROVE  TokensDiffer'
  <1> SUFFICES ASSUME NEW d \in Device \ forked'
               PROVE  /\ \A s, t \in Token : Live(s)' /\ Live(t)' /\ tok'[s].dev = d
                                             /\ tok'[t].dev = d => s = t
                      /\ \A t \in Token, r \in Request :
                           ~(Live(t)' /\ tok'[t].dev = d /\ req'[r].pc = "token"
                             /\ req'[r].dev = d)
                      /\ \A r, x \in Request :
                           req'[r].pc = "token" /\ req'[x].pc = "token"
                           /\ req'[r].dev = d /\ req'[x].dev = d => r = x
    BY DEF TokensDiffer, At, Live
  <1>1. d \in Device \ forked
    OBVIOUS
  <1> QED
    BY <1>1 DEF TokensDiffer, At

\* The device of a new session had neither.
LEMMA FirstToken ==
  ASSUME SessionsFit, TokensDiffer, NEW r \in Request, NEW d0 \in Device,
         NewDevice(r, d0), Present(req[r].user)
  PROVE  TokensDiffer'
  <1>1. /\ UNCHANGED <<tok, forked>> /\ dev[d0].status = "unused"
    BY DEF NewDevice, ghosts, races
  <1>2. req'[r].pc = "token" /\ req'[r].dev = d0 /\ Moves(r)
    BY NewDeviceReq
  <1>3. \A x \in Request : x # r => req'[x].pc = req[x].pc /\ req'[x].dev = req[x].dev
    BY <1>2 DEF Moves, OthersLike, Like
  <1>4. \A t \in Token : Live(t) => tok[t].dev # d0
    BY <1>1 DEF SessionsFit, TablesFit, Live
  <1>5. \A x \in Request : req[x].pc = "token" => req[x].dev # d0
    BY <1>1 DEF SessionsFit, RequestsFit, Fits
  <1> SUFFICES ASSUME NEW d \in Device \ forked
               PROVE  /\ \A s, t \in Token : Live(s) /\ Live(t) /\ tok[s].dev = d
                                             /\ tok[t].dev = d => s = t
                      /\ \A t \in Token, x \in Request :
                           ~(Live(t) /\ tok[t].dev = d /\ req'[x].pc = "token"
                             /\ req'[x].dev = d)
                      /\ \A y, x \in Request :
                           req'[y].pc = "token" /\ req'[x].pc = "token"
                           /\ req'[y].dev = d /\ req'[x].dev = d => y = x
    BY <1>1 DEF TokensDiffer, At, Live
  <1>6. /\ \A s, t \in Token : Live(s) /\ Live(t) /\ tok[s].dev = d /\ tok[t].dev = d
                               => s = t
        /\ \A t \in Token, x \in Request :
             ~(Live(t) /\ tok[t].dev = d /\ req[x].pc = "token" /\ req[x].dev = d)
        /\ \A y, x \in Request :
             req[y].pc = "token" /\ req[x].pc = "token" /\ req[y].dev = d
             /\ req[x].dev = d => y = x
    BY DEF TokensDiffer, At
  <1>7. CASE d = d0
    BY <1>2, <1>3, <1>4, <1>5, <1>7
  <1>8. CASE d # d0
    BY <1>2, <1>3, <1>6, <1>8
  <1> QED
    BY <1>7, <1>8

\* Refresh: the old token goes before its successor comes, or the device is in
\* forked.
LEMMA NextToken ==
  ASSUME SessionsFit, TokensDiffer, NEW r \in Request, RefreshDelete(r)
  PROVE  TokensDiffer'
  <1> DEFINE t0 == req[r].tok
             d0 == req[r].dev
  <1>1. /\ tok' = WithoutTokens({t0})
        /\ forked \subseteq forked' /\ (~Live(t0) => d0 \in forked')
        /\ req[r].pc = "rf_delete"
    BY DEF RefreshDelete, At
  <1>2. req'[r].pc = "token" /\ req'[r].dev = d0 /\ Moves(r)
    BY RefreshDeleteReq
  <1>3. \A x \in Request : x # r => req'[x].pc = req[x].pc /\ req'[x].dev = req[x].dev
    BY <1>2 DEF Moves, OthersLike, Like
  <1>4. t0 \in Token /\ tok[t0].dev = d0
    BY <1>1 DEF SessionsFit, RequestsFit, Fits
  <1>5. \A t \in Token : Live(t)' => Live(t) /\ t # t0 /\ tok'[t].dev = tok[t].dev
    BY <1>1, TokensGone DEF Live, SessionsFit, SessionsTypeOK
  <1> SUFFICES ASSUME NEW d \in Device \ forked'
               PROVE  /\ \A s, t \in Token : Live(s)' /\ Live(t)' /\ tok'[s].dev = d
                                             /\ tok'[t].dev = d => s = t
                      /\ \A t \in Token, x \in Request :
                           ~(Live(t)' /\ tok'[t].dev = d /\ req'[x].pc = "token"
                             /\ req'[x].dev = d)
                      /\ \A y, x \in Request :
                           req'[y].pc = "token" /\ req'[x].pc = "token"
                           /\ req'[y].dev = d /\ req'[x].dev = d => y = x
    BY DEF TokensDiffer, At, Live
  <1>6. d \in Device \ forked
    BY <1>1
  <1>7. /\ \A s, t \in Token : Live(s) /\ Live(t) /\ tok[s].dev = d /\ tok[t].dev = d
                               => s = t
        /\ \A t \in Token, x \in Request :
             ~(Live(t) /\ tok[t].dev = d /\ req[x].pc = "token" /\ req[x].dev = d)
        /\ \A y, x \in Request :
             req[y].pc = "token" /\ req[x].pc = "token" /\ req[y].dev = d
             /\ req[x].dev = d => y = x
    BY <1>6 DEF TokensDiffer, At
  <1>8. CASE d = d0
    <2>1. Live(t0)
      BY <1>1, <1>8
    <2>2. \A t \in Token : ~(Live(t)' /\ tok'[t].dev = d)
      BY <1>4, <1>5, <1>7, <1>8, <2>1
    <2>3. \A x \in Request : req'[x].pc = "token" /\ req'[x].dev = d => x = r
      BY <1>3, <1>4, <1>7, <1>8, <2>1
    <2> QED
      BY <2>2, <2>3
  <1>9. CASE d # d0
    BY <1>2, <1>3, <1>5, <1>7, <1>9
  <1> QED
    BY <1>8, <1>9

\* The token comes in the place of the request.
LEMMA TokenComes ==
  ASSUME SessionsFit, TokensDiffer, NEW r \in Request, NEW t0 \in Token,
         NewToken(r, t0)
  PROVE  TokensDiffer'
  <1> DEFINE d0 == req[r].dev
  <1>1. /\ forked' = forked /\ req[r].pc = "token"
    BY DEF NewToken, At
  <1>2. req'[r].pc = "idle" /\ Moves(r)
    BY EndReq, IdleType
  <1>3. \A x \in Request : x # r => req'[x].pc = req[x].pc /\ req'[x].dev = req[x].dev
    BY <1>2 DEF Moves, OthersLike, Like
  <1>4. \A t \in Token : Live(t)' => \/ Live(t) /\ tok'[t].dev = tok[t].dev
                                     \/ t = t0 /\ tok'[t].dev = d0
    BY NewTokenGrow DEF Live
  <1> SUFFICES ASSUME NEW d \in Device \ forked
               PROVE  /\ \A s, t \in Token : Live(s)' /\ Live(t)' /\ tok'[s].dev = d
                                             /\ tok'[t].dev = d => s = t
                      /\ \A t \in Token, x \in Request :
                           ~(Live(t)' /\ tok'[t].dev = d /\ req'[x].pc = "token"
                             /\ req'[x].dev = d)
                      /\ \A y, x \in Request :
                           req'[y].pc = "token" /\ req'[x].pc = "token"
                           /\ req'[y].dev = d /\ req'[x].dev = d => y = x
    BY <1>1 DEF TokensDiffer, At, Live
  <1>5. /\ \A s, t \in Token : Live(s) /\ Live(t) /\ tok[s].dev = d /\ tok[t].dev = d
                               => s = t
        /\ \A t \in Token, x \in Request :
             ~(Live(t) /\ tok[t].dev = d /\ req[x].pc = "token" /\ req[x].dev = d)
        /\ \A y, x \in Request :
             req[y].pc = "token" /\ req[x].pc = "token" /\ req[y].dev = d
             /\ req[x].dev = d => y = x
    BY DEF TokensDiffer, At
  <1>6. CASE d = d0
    <2>1. \A t \in Token : Live(t)' /\ tok'[t].dev = d => t = t0
      BY <1>1, <1>4, <1>5, <1>6
    <2>2. \A x \in Request : ~(req'[x].pc = "token" /\ req'[x].dev = d)
      BY <1>1, <1>2, <1>3, <1>5, <1>6
    <2> QED
      BY <2>1, <2>2
  <1>7. CASE d # d0
    <2>1. \A t \in Token : Live(t)' /\ tok'[t].dev = d => Live(t) /\ tok[t].dev = d
      BY <1>4, <1>7
    <2>2. \A x \in Request : req'[x].pc = "token" => x # r
      BY <1>2
    <2> QED
      BY <1>3, <1>5, <2>1, <2>2
  <1> QED
    BY <1>6, <1>7

LEMMA ForkedGrows ==
  ASSUME [Next]_vars
  PROVE  forked \subseteq forked'
  <1>1. CASE \E r \in Request : RefreshDelete(r)
    BY <1>1 DEF RefreshDelete
  <1>2. CASE ~\E r \in Request : RefreshDelete(r)
    <2>1. CASE UNCHANGED vars
      BY <2>1 DEF vars
    <2>2. ASSUME NEW r \in Request, StepOf(r)
          PROVE  forked' = forked
      BY <1>2, <2>2 DEF StepOf, Reads, UserSteps, TokenSteps, RegisterCount, LoginRead,
         DeleteUserRead, RefreshMatch, ChangeRead, RevokeStart, AdminRequest,
         SetRegistration, DeleteUserCount, Abort, RegisterUser, VerifyFails, VerifyOk,
         CreateUser, ChangeDelete, NewDevice, NewToken, ChangeUpdate, RevokeCommit,
         DeleteUserExec, ghosts, races
    <2>3. CASE (\E t \in Token : TokenEnds(t)) \/ (\E u \in User : LockExpires(u))
      BY <2>3 DEF TokenEnds, LockExpires, ghosts, races
    <2> QED
      BY <2>1, <2>2, <2>3, NextCases DEF StepOf
  <1> QED
    BY <1>1, <1>2

LEMMA TokensDifferStep ==
  ASSUME SessionsFit, TokensDiffer, [Next]_vars
  PROVE  TokensDiffer'
  <1>1. CASE Opening
    BY <1>1, FirstToken DEF Opening
  <1>2. CASE \E r \in Request : RefreshDelete(r)
    BY <1>2, NextToken
  <1>3. CASE \E r \in Request, t \in Token : NewToken(r, t)
    BY <1>3, TokenComes
  <1>4. CASE ~Opening /\ (\A r \in Request : ~RefreshDelete(r))
             /\ \A r \in Request, t \in Token : ~NewToken(r, t)
    <2>1. \A t \in Token : Live(t)' => Live(t) /\ tok'[t].dev = tok[t].dev
      BY <1>4, TokenComesFrom
    <2>2. ASSUME NEW x \in Request, req'[x].pc = "token"
          PROVE  req[x].pc = "token" /\ req'[x].dev = req[x].dev
      <3>1. Stays(x)
        BY <1>4, <2>2, CameBy DEF Opening
      <3> QED
        BY <2>2, <3>1 DEF Stays, Like
    <2> QED
      BY <2>1, <2>2, ForkedGrows, FewerTokens
  <1> QED
    BY <1>1, <1>2, <1>3, <1>4

-----------------------------------------------------------------------------
(* Changes of password.                                                     *)

\* One request moves at a time.
LEMMA OneMoves ==
  ASSUME SessionsFit, [Next]_vars, NEW r \in Request, StepOf(r), NEW x \in Request, x # r
  PROVE  Stays(x)
  <1>1. Moves(r)
    BY GrowStep, FitsNow DEF StepOf
  <1> QED
    BY <1>1 DEF Moves, OthersLike, Stays

\* The change of password by r ends, or stops before its second write.
Ended(r) == At(r, "ch_delete") /\ (ChangeDelete(r) \/ Abort(r))

LEMMA EndedEffect ==
  ASSUME SessionsFit, NEW r \in Request, Ended(r)
  PROVE  /\ StepOf(r) /\ ~Stays(r)
         /\ UNCHANGED <<user, dev>>
         /\ \A x \in Overtaken(req[r].user, req[r].dev) : x # r => req'[x].late
         /\ \A t \in Outdated(req[r].user, req[r].dev) :
              ~Live(t)' \/ tok[t].dev \in late'
  <1>1. Leave(r, Overtaken(req[r].user, req[r].dev)) /\ req[r].pc = "ch_delete"
    BY DEF Ended, ChangeDelete, Abort, At
  <1>2. /\ req'[r].pc = "idle"
        /\ \A x \in Overtaken(req[r].user, req[r].dev) : x # r => req'[x].late
    BY <1>1, LeaveReq, IdleType
  <1>3. StepOf(r) /\ ~Stays(r)
    BY <1>1, <1>2 DEF Ended, StepOf, TokenSteps, Reads, Stays, Like
  <1>4. UNCHANGED <<user, dev>>
    BY DEF Ended, ChangeDelete, Abort, tables
  <1>5. ASSUME NEW t \in Outdated(req[r].user, req[r].dev)
        PROVE  ~Live(t)' \/ tok[t].dev \in late'
    <2>1. CASE ChangeDelete(r)
      <3>1. tok \in [Token -> TokenRow] /\ t \in Token
        BY DEF SessionsFit, SessionsTypeOK, Outdated, TokensOf
      <3>2. tok' = WithoutTokens(Outdated(req[r].user, req[r].dev))
        BY <2>1 DEF ChangeDelete
      <3> QED
        BY <3>1, <3>2, TokensGone DEF Live
    <2>2. CASE Abort(r)
      BY <2>2 DEF Ended, Abort
    <2> QED
      BY <2>1, <2>2 DEF Ended
  <1> QED
    BY <1>2, <1>3, <1>4, <1>5

LEMMA ChangeStaysOrEnds ==
  ASSUME SessionsFit, [Next]_vars, NEW x \in Request, At(x, "ch_delete")
  PROVE  Stays(x) \/ Ended(x)
  BY ChangeGoesOn DEF Ended

LEMMA PasswordKept ==
  ASSUME SessionsFit, [Next]_vars, NEW u \in User, user[u].status # "unused"
  PROVE  \/ user'[u].password = user[u].password
         \/ \E r \in Request : ChangeUpdate(r) /\ req[r].user = u
  BY AccountStep DEF Kept, Added, Counted, Changed, Deleted

LEMMA DevicePasswordKept ==
  ASSUME SessionsFit, [Next]_vars, NEW d \in Device, dev[d].status # "unused",
         \A r \in Request : ~ChangeUpdate(r)
  PROVE  dev'[d].password = dev[d].password
  <1>1. dev \in [Device -> DeviceRow] /\ tok \in [Token -> TokenRow]
    BY DEF SessionsFit, SessionsTypeOK
  <1>2. ASSUME NEW D, DropDevices(D)
        PROVE  dev'[d].password = dev[d].password
    BY <1>1, <1>2, DevicesGone
  <1>3. ASSUME NEW r \in Request, NEW x \in Device, NewDevice(r, x)
        PROVE  dev'[d].password = dev[d].password
    BY <1>3, NewDeviceGrow DEF NewDevice
  <1>4. ASSUME NEW r \in Request, DeleteUserExec(r)
        PROVE  dev'[d].password = dev[d].password
    BY <1>2, <1>4 DEF DeleteUserExec
  <1>5. ASSUME NEW r \in Request, RevokeCommit(r)
        PROVE  dev'[d].password = dev[d].password
    BY <1>2, <1>5 DEF RevokeCommit
  <1>6. ASSUME NEW r \in Request,
               Reads(r) \/ UserSteps(r) \/ TokenSteps(r) \/ \E t \in Token : NewToken(r, t)
        PROVE  UNCHANGED dev
    BY <1>6, ReadsKeep DEF UserSteps, RegisterUser, VerifyFails, VerifyOk, CreateUser,
       TokenSteps, RefreshDelete, ChangeDelete, NewToken
  <1>7. CASE \/ UNCHANGED vars \/ (\E t \in Token : TokenEnds(t))
             \/ (\E u \in User : LockExpires(u))
    BY <1>7 DEF vars, TokenEnds, LockExpires
  <1> QED
    BY <1>3, <1>4, <1>5, <1>6, <1>7, NextCases

LEMMA LateGrows ==
  ASSUME [Next]_vars
  PROVE  late \subseteq late'
  <1>1. CASE \E r \in Request, t \in Token : NewToken(r, t)
    BY <1>1 DEF NewToken
  <1>2. CASE \E r \in Request : Abort(r)
    BY <1>2 DEF Abort
  <1>3. CASE UNCHANGED vars
    BY <1>3 DEF vars
  <1>4. ASSUME NEW r \in Request, StepOf(r), ~Abort(r), \A t \in Token : ~NewToken(r, t)
        PROVE  late' = late
    BY <1>4 DEF StepOf, Reads, UserSteps, TokenSteps, RegisterCount, LoginRead,
       DeleteUserRead, RefreshMatch, ChangeRead, RevokeStart, AdminRequest,
       SetRegistration, DeleteUserCount, RegisterUser, VerifyFails, VerifyOk,
       CreateUser, RefreshDelete, ChangeDelete, NewDevice, ChangeUpdate, RevokeCommit,
       DeleteUserExec, ghosts, races
  <1>5. CASE (\E t \in Token : TokenEnds(t)) \/ (\E u \in User : LockExpires(u))
    BY <1>5 DEF TokenEnds, LockExpires, ghosts, races
  <1> QED
    BY <1>1, <1>2, <1>3, <1>4, <1>5, NextCases DEF StepOf

\* A device that may keep its session may keep it, unless the change of
\* password it waited for has ended.
LEMMA EntitledStep ==
  ASSUME SessionsFit, [Next]_vars, NEW d \in Device, Registered(d), Entitled(d)
  PROVE  \/ Entitled(d)'
         \/ \E r \in Request : /\ Ended(r) /\ req[r].user = dev[d].owner
                               /\ req[r].dev # d
                               /\ dev[d].password # user[dev[d].owner].password
  <1> DEFINE u == dev[d].owner
  <1>0. dev[d].password = user[u].password \/ d \in late \/ Changing(u, d)
    BY DEF Entitled
  <1>1. u \in User /\ Present(u) /\ user[u].status # "unused" /\ dev[d].status # "unused"
    BY DEF SessionsFit, TablesFit, Registered, Present
  <1>2. dev'[d].owner = u
    BY <1>1, GrowStep DEF Grow, DevicesGrow
  <1>3. ASSUME d \in late
        PROVE  Entitled(d)'
    BY <1>3, LateGrows DEF Entitled
  <1>4. ASSUME NEW x \in Request, Stays(x), At(x, "ch_delete"), req[x].user = u,
               req[x].dev # d
        PROVE  Entitled(d)'
    <2>1. req'[x].pc = "ch_delete" /\ req'[x].user = u /\ req'[x].dev # d
      BY <1>4 DEF Stays, Like, At
    <2> QED
      BY <1>2, <2>1 DEF Entitled, Changing, At
  <1>5. ASSUME NEW r \in Request, ChangeUpdate(r)
        PROVE  Entitled(d)'
    <2>1. /\ req'[r].pc = "ch_delete" /\ req'[r].dev = req[r].dev
          /\ req'[r].user = req[r].user
      BY <1>5, ChangeUpdateReq
    <2>2. \A x \in Request : At(x, "ch_delete") => Stays(x)
      BY <1>5, OneMoves DEF StepOf, ChangeUpdate, At
    <2>3. CASE req[r].user = u /\ req[r].dev # d
      BY <1>2, <2>1, <2>3 DEF Entitled, Changing, At
    <2>4. CASE req[r].user # u
      <3>1. req[r].dev # d
        BY <1>5, <2>4 DEF SessionsFit, RequestsFit, Fits, ChangeUpdate, At
      <3>2. dev'[d] = dev[d]
        BY <1>5, <3>1 DEF ChangeUpdate, SessionsFit, SessionsTypeOK
      <3>3. user'[u] = user[u]
        BY <1>1, <1>5, <2>4 DEF ChangeUpdate, SessionsFit, SessionsTypeOK
      <3>4. ASSUME dev[d].password = user[u].password
            PROVE  Entitled(d)'
        BY <1>2, <3>2, <3>3, <3>4 DEF Entitled
      <3>5. ASSUME Changing(u, d)
            PROVE  Entitled(d)'
        BY <1>4, <2>2, <3>5 DEF Changing
      <3> QED
        BY <1>0, <1>3, <3>4, <3>5
    <2>5. CASE req[r].user = u /\ req[r].dev = d
      <3>1. user \in [User -> UserRow] /\ dev \in [Device -> DeviceRow]
            /\ user[u] \in UserRow /\ dev[d] \in DeviceRow
        BY <1>1 DEF SessionsFit, SessionsTypeOK
      <3>2. /\ user' = [user EXCEPT ![u].password = @ + 1]
            /\ dev' = [dev EXCEPT ![d].password = user[u].password + 1]
        BY <1>1, <1>5, <2>5 DEF ChangeUpdate
      <3>3. user'[u] = [user[u] EXCEPT !.password = @ + 1]
            /\ dev'[d] = [dev[d] EXCEPT !.password = user[u].password + 1]
        BY <1>1, <3>1, <3>2
      <3>4. user'[u].password = user[u].password + 1
        BY <3>1, <3>3 DEF UserRow
      <3>5. dev'[d].password = user[u].password + 1
        BY <3>1, <3>3 DEF DeviceRow
      <3> QED
        BY <1>2, <3>4, <3>5 DEF Entitled
    <2> QED
      BY <2>3, <2>4, <2>5
  <1>6. CASE \A r \in Request : ~ChangeUpdate(r)
    <2>1. dev'[d].password = dev[d].password /\ user'[u].password = user[u].password
      BY <1>1, <1>6, PasswordKept, DevicePasswordKept
    <2>2. CASE dev[d].password = user[u].password
      BY <1>2, <2>1, <2>2 DEF Entitled
    <2>3. ASSUME NEW x \in Request, At(x, "ch_delete"), req[x].user = u, req[x].dev # d,
                 dev[d].password # user[u].password
          PROVE  Entitled(d)' \/ Ended(x)
      BY <1>4, <2>3, ChangeStaysOrEnds
    <2> QED
      BY <1>3, <2>2, <2>3 DEF Entitled, Changing
  <1> QED
    BY <1>5, <1>6

\* While another request runs no change of password ends.
LEMMA EntitledStays ==
  ASSUME SessionsFit, [Next]_vars, NEW d \in Device, Registered(d), Entitled(d),
         NEW x \in Request, StepOf(x), ~At(x, "ch_delete")
  PROVE  Entitled(d)'
  <1>1. \A r \in Request : ~Ended(r)
    BY EndedEffect, OneMoves DEF Ended
  <1> QED
    BY <1>1, EntitledStep

LEMMA TokensEntitled ==
  ASSUME SessionsFit, SessionsEntitled, [Next]_vars, NEW t \in Token, Live(t)',
         NEW d \in Device, tok'[t].dev = d
  PROVE  Entitled(d)'
  <1>1. ASSUME Live(t), tok[t].dev = d
        PROVE  Entitled(d)'
    <2>1. Registered(d) /\ Entitled(d)
      BY <1>1 DEF SessionsEntitled, SessionsFit, TablesFit
    <2>2. ASSUME NEW r \in Request, Ended(r), req[r].user = dev[d].owner, req[r].dev # d
          PROVE  Entitled(d)'
      <3>1. t \in Outdated(req[r].user, req[r].dev)
        BY <1>1, <2>2 DEF Outdated, TokensOf
      <3>2. d \in late'
        BY <1>1, <2>2, <3>1, EndedEffect
      <3> QED
        BY <3>2 DEF Entitled
    <2> QED
      BY <2>1, <2>2, EntitledStep
  <1>2. ASSUME NEW r \in Request, NewToken(r, t), Registered(d), req[r].dev = d
        PROVE  Entitled(d)'
    <2>1. req[r].pc = "token" /\ StepOf(r)
      BY <1>2 DEF NewToken, At, StepOf
    <2>2. CASE req[r].late
      <3>1. d \in late'
        BY <1>2, <2>2 DEF NewToken, DeviceKnown
      <3> QED
        BY <3>1 DEF Entitled
    <2>3. CASE ~req[r].late
      <3>1. Entitled(d)
        BY <1>2, <2>1, <2>3 DEF SessionsEntitled
      <3> QED
        BY <1>2, <2>1, <3>1, EntitledStays DEF At
    <2> QED
      BY <2>2, <2>3
  <1> QED
    BY <1>1, <1>2, TokenComesFrom

\* A request that will insert a token has the right to, or is late.
LEMMA HoldersEntitled ==
  ASSUME SessionsFit, SessionsEntitled, [Next]_vars, NEW x \in Request,
         req'[x].pc \in {"rf_delete", "token"}, NEW d \in Device, req'[x].dev = d,
         Registered(d)'
  PROVE  req'[x].late \/ Entitled(d)'
  <1>1. ASSUME Stays(x)
        PROVE  req'[x].late \/ Entitled(d)'
    <2>1. /\ req[x].pc \in {"rf_delete", "token"} /\ req[x].dev = d
          /\ req[x].late => req'[x].late
      BY <1>1 DEF Stays, Like
    <2>2. Registered(d)
      <3>1. dev[d].status # "unused"
        BY <2>1 DEF SessionsFit, RequestsFit, Fits
      <3> QED
        BY <3>1, GrowStep DEF Grow, DevicesGrow
    <2>3. req[x].late \/ Entitled(d)
      BY <2>1, <2>2 DEF SessionsEntitled
    <2>4. ASSUME NEW r \in Request, Ended(r), req[r].user = dev[d].owner, req[r].dev # d,
                 dev[d].password # user[dev[d].owner].password
          PROVE  req'[x].late
      <3>1. x \in Overtaken(req[r].user, req[r].dev)
        BY <2>1, <2>4 DEF Overtaken
      <3>2. x # r
        BY <2>1, <2>4 DEF Ended, At
      <3> QED
        BY <2>4, <3>1, <3>2, EndedEffect
    <2> QED
      BY <2>1, <2>2, <2>3, <2>4, EntitledStep
  <1>2. ASSUME NEW t \in Token, RefreshMatch(x, t)
        PROVE  Entitled(d)'
    <2>1. tok[t].dev = d /\ Live(t) /\ Registered(d) /\ StepOf(x) /\ req[x].pc = "idle"
      BY <1>2, RefreshMatchReq DEF RefreshMatch, Presentable, StepOf, Reads, At
    <2>2. Entitled(d)
      BY <2>1 DEF SessionsEntitled
    <2> QED
      BY <2>1, <2>2, EntitledStays DEF At
  <1>3. ASSUME RefreshDelete(x)
        PROVE  req'[x].late \/ Entitled(d)'
    <2>1. /\ req[x].dev = d /\ req[x].pc = "rf_delete" /\ StepOf(x)
          /\ req'[x].late = req[x].late
      BY <1>3, RefreshDeleteReq DEF RefreshDelete, StepOf, TokenSteps, At
    <2>2. Registered(d)
      BY <1>3 DEF RefreshDelete, Registered
    <2>3. req[x].late \/ Entitled(d)
      BY <2>1, <2>2 DEF SessionsEntitled
    <2> QED
      BY <2>1, <2>2, <2>3, EntitledStays DEF At
  <1>4. ASSUME NEW e \in Device, NewDevice(x, e), Present(req[x].user)
        PROVE  req'[x].late \/ Entitled(d)'
    <2> DEFINE u == req[x].user
    <2>1. /\ e = d /\ req'[x].late = req[x].late /\ StepOf(x)
          /\ req[x].pc = "device" /\ dev[d].status = "unused" /\ UNCHANGED user
      BY <1>4, NewDeviceReq DEF StepOf, NewDevice, At
    <2>2. dev'[d].owner = u /\ dev'[d].password = req[x].password
      BY <1>4, <2>1, NewDeviceGrow
    <2>3. \/ req[x].late \/ req[x].password = user[u].password
          \/ \E y \in Request : At(y, "ch_delete") /\ req[y].user = u
      BY <2>1 DEF SessionsEntitled
    <2>4. ASSUME req[x].password = user[u].password
          PROVE  Entitled(d)'
      BY <2>1, <2>2, <2>4 DEF Entitled
    <2>5. ASSUME NEW y \in Request, At(y, "ch_delete"), req[y].user = u
          PROVE  Entitled(d)'
      <3>1. Stays(y) /\ req[y].dev # d
        <4>1. y # x /\ dev[req[y].dev].status # "unused"
          BY <2>1, <2>5 DEF At, SessionsFit, RequestsFit, Fits
        <4> QED
          BY <2>1, <4>1, OneMoves
      <3>2. req'[y].pc = "ch_delete" /\ req'[y].user = u /\ req'[y].dev # d
        BY <2>5, <3>1 DEF Stays, Like, At
      <3> QED
        BY <2>2, <3>2 DEF Entitled, Changing, At
    <2> QED
      BY <2>1, <2>3, <2>4, <2>5
  <1> QED
    BY <1>1, <1>2, <1>3, <1>4, CameBy

\* A login knows the password, or is late, or a change has yet to delete.
Knows(x) ==
  \/ req[x].late
  \/ req[x].password = user[req[x].user].password
  \/ \E y \in Request : At(y, "ch_delete") /\ req[y].user = req[x].user

LEMMA KnowsStep ==
  ASSUME SessionsFit, [Next]_vars, NEW x \in Request,
         req[x].pc \in {"verify", "device"}, Knows(x),
         req'[x].user = req[x].user, req'[x].password = req[x].password,
         req[x].late => req'[x].late
  PROVE  \/ Knows(x)'
         \/ \E r \in Request : /\ Ended(r) /\ req[r].user = req[x].user
                               /\ req[x].password # user[req[x].user].password
  <1> DEFINE u == req[x].user
  <1>1. u \in User /\ user[u].status # "unused"
    BY DEF SessionsFit, RequestsFit, Fits
  <1>2. ASSUME req[x].late
        PROVE  Knows(x)'
    BY <1>2 DEF Knows
  <1>3. ASSUME NEW r \in Request, req'[r].pc = "ch_delete", req'[r].user = u
        PROVE  Knows(x)'
    BY <1>3 DEF Knows, At
  <1>4. ASSUME req[x].password = user[u].password
        PROVE  Knows(x)'
    <2>1. ASSUME user'[u].password = user[u].password
          PROVE  Knows(x)'
      BY <1>4, <2>1 DEF Knows
    <2>2. ASSUME NEW r \in Request, ChangeUpdate(r), req[r].user = u
          PROVE  Knows(x)'
      BY <1>3, <2>2, ChangeUpdateReq
    <2> QED
      BY <1>1, <2>1, <2>2, PasswordKept
  <1>5. ASSUME NEW y \in Request, At(y, "ch_delete"), req[y].user = u, Stays(y)
        PROVE  Knows(x)'
    BY <1>3, <1>5 DEF Stays, Like, At
  <1>6. \/ req[x].late \/ req[x].password = user[u].password
        \/ \E y \in Request : At(y, "ch_delete") /\ req[y].user = u
    BY DEF Knows
  <1> QED
    BY <1>2, <1>4, <1>5, <1>6, ChangeStaysOrEnds

LEMMA LoginsKnow ==
  ASSUME SessionsFit, SessionsEntitled, [Next]_vars, NEW x \in Request,
         req'[x].pc \in {"verify", "device"}
  PROVE  Knows(x)'
  <1>1. req[x].pc \in {"verify", "device"} => Knows(x)
    BY DEF SessionsEntitled, Knows
  <1>2. ASSUME Stays(x)
        PROVE  Knows(x)'
    <2>1. /\ req[x].pc \in {"verify", "device"} /\ req'[x].user = req[x].user
          /\ req'[x].password = req[x].password /\ (req[x].late => req'[x].late)
      BY <1>2 DEF Stays, Like
    <2>2. ASSUME NEW r \in Request, Ended(r), req[r].user = req[x].user,
                 req[x].password # user[req[x].user].password
          PROVE  Knows(x)'
      <3>1. x \in Overtaken(req[r].user, req[r].dev)
        BY <2>1, <2>2 DEF Overtaken
      <3>2. x # r
        BY <2>1, <2>2 DEF Ended, At
      <3>3. req'[x].late
        BY <2>2, <3>1, <3>2, EndedEffect
      <3> QED
        BY <3>3 DEF Knows
    <2> QED
      BY <1>1, <2>1, <2>2, KnowsStep
  <1>3. ASSUME NEW u \in User, LoginRead(x, u)
        PROVE  Knows(x)'
    <2>1. UNCHANGED user /\ req'[x].user = u /\ req'[x].password = user[u].password
      BY <1>3, LoginReadReq DEF LoginRead, tables
    <2> QED
      BY <2>1 DEF Knows
  <1>4. ASSUME RegisterUser(x), user[req[x].user].status = "unused"
        PROVE  Knows(x)'
    <2> DEFINE u == req[x].user
    <2>1. u \in User /\ req'[x].user = u /\ req'[x].password = 0
      BY <1>4, RegisterUserReq
    <2>2. user' = [user EXCEPT ![u] = NewUser(req[x].flag)]
      BY <1>4 DEF RegisterUser
    <2>3. user \in [User -> UserRow] /\ req[x].flag \in BOOLEAN
      <3>1. req[x] \in RequestState
        BY DEF SessionsFit, SessionsTypeOK
      <3> QED
        BY <3>1 DEF RequestState, SessionsFit, SessionsTypeOK
    <2>4. user'[u].password = 0
      BY <1>4, <2>1, <2>2, <2>3, AddedBy DEF Added
    <2> QED
      BY <2>1, <2>4 DEF Knows
  <1>5. ASSUME VerifyOk(x)
        PROVE  Knows(x)'
    <2>1. /\ req[x].pc = "verify" /\ req'[x].user = req[x].user
          /\ req'[x].password = req[x].password /\ req'[x].late = req[x].late
          /\ StepOf(x)
      BY <1>5, VerifyOkReq DEF VerifyOk, StepOf, UserSteps, At
    <2>2. \A r \in Request : ~Ended(r)
      BY <2>1, EndedEffect, OneMoves DEF Ended, At
    <2> QED
      BY <1>1, <2>1, <2>2, KnowsStep
  <1> QED
    BY <1>2, <1>3, <1>4, <1>5, CameBy

LEMMA SessionsEntitledStep ==
  ASSUME SessionsFit, SessionsEntitled, [Next]_vars
  PROVE  SessionsEntitled'
  <1>1. SessionsFit'
    BY FitStep
  <1>2. ASSUME NEW t \in Token, Live(t)'
        PROVE  Entitled(tok[t].dev)'
    <2>1. PICK d \in Device : d = tok'[t].dev
      BY <1>1, <1>2 DEF SessionsFit, TablesFit, Live
    <2>2. Entitled(d)'
      BY <1>2, <2>1, TokensEntitled
    <2> QED
      BY <2>1, <2>2 DEF Entitled, Changing, At
  <1>3. ASSUME NEW x \in Request, req'[x].pc \in {"rf_delete", "token"},
               Registered(req[x].dev)'
        PROVE  req'[x].late \/ Entitled(req[x].dev)'
    <2>1. PICK d \in Device : d = req'[x].dev
      BY <1>1, <1>3 DEF SessionsFit, RequestsFit, Fits
    <2>2. Registered(d)'
      BY <1>3, <2>1 DEF Registered
    <2>3. req'[x].late \/ Entitled(d)'
      BY <1>3, <2>1, <2>2, HoldersEntitled
    <2> QED
      BY <2>1, <2>3 DEF Entitled, Changing, At
  <1>4. ASSUME NEW x \in Request, req'[x].pc \in {"verify", "device"}
        PROVE  Knows(x)'
    BY <1>4, LoginsKnow
  <1> QED
    BY <1>2, <1>3, <1>4 DEF SessionsEntitled, Knows

-----------------------------------------------------------------------------
(* Accounts and admins.                                                     *)

LEMMA RacesGrow ==
  ASSUME SessionsFit, [Next]_vars
  PROVE  (raced => raced') /\ (rushed => rushed')
  <1>0. raced \in BOOLEAN /\ rushed \in BOOLEAN /\ raced' \in BOOLEAN /\ rushed' \in BOOLEAN
    BY GhostStep DEF SessionsFit, SessionsTypeOK, GhostTypes
  <1>1. CASE \E r \in Request, u \in User : RegisterCount(r, u)
    BY <1>1 DEF RegisterCount
  <1>2. ASSUME NEW r \in Request, DeleteUserCount(r)
        PROVE  (raced => raced') /\ (rushed => rushed')
    <2>1. rushed' = rushed
      BY <1>2 DEF DeleteUserCount
    <2>2. \/ raced' = (raced \/ \E x \in Request : At(x, "du_exec") /\ req[x].flag)
          \/ raced' = raced
      BY <1>2 DEF DeleteUserCount
    <2> QED
      BY <1>0, <2>1, <2>2
  <1>3. CASE UNCHANGED vars
    BY <1>3 DEF vars
  <1>4. ASSUME NEW r \in Request, StepOf(r), ~DeleteUserCount(r),
               \A u \in User : ~RegisterCount(r, u)
        PROVE  UNCHANGED <<raced, rushed>>
    BY <1>4 DEF StepOf, Reads, UserSteps, TokenSteps, LoginRead, NewToken,
       DeleteUserRead, RefreshMatch, ChangeRead, RevokeStart, AdminRequest, Abort,
       SetRegistration, RegisterUser, VerifyFails, VerifyOk,
       CreateUser, RefreshDelete, ChangeDelete, NewDevice, ChangeUpdate, RevokeCommit,
       DeleteUserExec, ghosts, races
  <1>5. ASSUME UNCHANGED <<raced, rushed>>
        PROVE  (raced => raced') /\ (rushed => rushed')
    BY <1>0, <1>5
  <1>6. ASSUME (\E t \in Token : TokenEnds(t)) \/ (\E u \in User : LockExpires(u))
        PROVE  UNCHANGED <<raced, rushed>>
    BY <1>6 DEF TokenEnds, LockExpires, ghosts, races
  <1>7. ASSUME NEW r \in Request, StepOf(r)
        PROVE  (raced => raced') /\ (rushed => rushed')
    <2>1. CASE \E u \in User : RegisterCount(r, u)
      BY <1>1, <2>1
    <2>2. CASE DeleteUserCount(r)
      BY <1>2, <2>2
    <2>3. CASE ~DeleteUserCount(r) /\ \A u \in User : ~RegisterCount(r, u)
      <3>1. UNCHANGED <<raced, rushed>>
        BY <1>4, <1>7, <2>3
      <3> QED
        BY <1>5, <3>1
    <2> QED
      BY <2>1, <2>2, <2>3
  <1> QED
    BY <1>3, <1>5, <1>6, <1>7, NextCases DEF StepOf

LEMMA UsedStays ==
  ASSUME SessionsFit, [Next]_vars, NEW u \in User, user[u].status # "unused"
  PROVE  user'[u].status # "unused" /\ user'[u].admin = user[u].admin
  BY GrowStep DEF Grow, UsersGrow

\* Accounts come by registration or from an admin.
LEMMA UsedBy ==
  ASSUME SessionsFit, [Next]_vars, NEW u \in User, user[u].status = "unused",
         user'[u].status # "unused"
  PROVE  \/ \E r \in Request : RegisterUser(r) /\ req[r].user = u /\ Added(u, req[r].flag)
         \/ \E r \in Request : /\ req[r].pc = "admin"
                               /\ \E v \in User : user[v].status # "unused"
  <1>1. ASSUME NEW r \in Request, NEW adm \in BOOLEAN, CreateUser(r, u, adm)
        PROVE  req[r].pc = "admin" /\ \E v \in User : user[v].status # "unused"
    BY <1>1 DEF CreateUser, At, SessionsFit, RequestsFit, Fits
  <1> QED
    BY <1>1, AccountStep DEF Kept, Counted, Changed, Deleted, Present

\* An admin stays, but for the request that deletes it.
LEMMA AdminStays ==
  ASSUME SessionsFit, [Next]_vars, NEW a \in Admins
  PROVE  \/ a \in Admins'
         \/ \E r \in Request : DeleteUserExec(r) /\ req[r].user = a
  <1>1. a \in User /\ user[a].status = "present" /\ user[a].admin
    BY DEF Admins, Users, Present
  <1>2. user'[a].status = "present" /\ user'[a].admin => a \in Admins'
    BY <1>1 DEF Admins, Users, Present
  <1> QED
    BY <1>1, <1>2, AccountStep DEF Kept, Added, Counted, Changed, Deleted

LEMMA DeleteOne ==
  ASSUME SessionsFit, [Next]_vars, NEW r \in Request, DeleteUserExec(r),
         NEW x \in Request, DeleteUserExec(x)
  PROVE  r = x
  <1>1. req'[x].pc = "idle" /\ req[x].pc = "du_exec" /\ StepOf(r)
    BY EndReq, IdleType DEF DeleteUserExec, At, StepOf
  <1> QED
    BY <1>1, OneMoves DEF Stays, Like

\* Beside the account that r is deleting another admin was counted.
LEMMA AdminRemainsStep ==
  ASSUME SessionsFit, CountsOfUsers, CountsOfAdmins, AdminRemains, [Next]_vars
  PROVE  AdminRemains'
  <1> SUFFICES ASSUME NEW v \in User, user'[v].status # "unused"
               PROVE  Admins' # {} \/ raced'
    BY DEF AdminRemains
  <1>1. CASE \E u \in User : user[u].status # "unused"
    <2>1. Admins # {} \/ raced
      BY <1>1 DEF AdminRemains
    <2>2. ASSUME NEW a \in Admins
          PROVE  Admins' # {} \/ raced
      <3>1. ASSUME NEW r \in Request, DeleteUserExec(r), req[r].user = a
            PROVE  Admins' # {} \/ raced
        <4>1. At(r, "du_exec") /\ user[a].admin
          BY <3>1 DEF DeleteUserExec, Admins
        <4>2. raced \/ \E b \in Admins : b # a
          BY <3>1, <4>1 DEF CountsOfAdmins
        <4>3. ASSUME NEW b \in Admins, b # a
              PROVE  b \in Admins'
          BY <3>1, <4>3, AdminStays, DeleteOne
        <4> QED
          BY <4>2, <4>3
      <3> QED
        BY <3>1, AdminStays
    <2> QED
      BY <2>1, <2>2, RacesGrow
  <1>2. CASE \A u \in User : user[u].status = "unused"
    <2>1. PICK r \in Request : RegisterUser(r) /\ req[r].user = v /\ Added(v, req[r].flag)
      BY <1>2, UsedBy
    <2>2. At(r, "reg_insert")
      BY <2>1 DEF RegisterUser
    <2>3. req[r].flag
      BY <1>2, <2>2 DEF CountsOfUsers
    <2>4. v \in Admins'
      BY <2>1, <2>3 DEF Added, Admins, Users, Present
    <2> QED
      BY <2>4
  <1> QED
    BY <1>1, <1>2

LEMMA CountedTwo ==
  ASSUME EnoughAdmins(Cardinality(Admins)), NEW u
  PROVE  \E a \in Admins : a # u
  <1> SUFFICES ASSUME \A a \in Admins : a = u
               PROVE  FALSE
    OBVIOUS
  <1>1. Admins \subseteq {u}
    OBVIOUS
  <1>2. IsFiniteSet({u}) /\ Cardinality({u}) = 1
    BY FS_Singleton
  <1>3. IsFiniteSet(Admins) /\ Cardinality(Admins) <= 1
    BY <1>1, <1>2, FS_Subset
  <1>4. Cardinality(Admins) \in Nat
    BY <1>3, FS_CardinalityType
  <1> QED
    BY <1>3, <1>4 DEF EnoughAdmins

LEMMA CountsOfAdminsStep ==
  ASSUME SessionsFit, CountsOfAdmins, [Next]_vars
  PROVE  CountsOfAdmins'
  <1>1. ASSUME NEW x \in Request, req'[x].pc = "du_exec"
        PROVE  IF req'[x].flag THEN raced' \/ \E a \in Admins' : a # req'[x].user
               ELSE ~user'[req'[x].user].admin
    <2>1. CASE Stays(x)
      <3> DEFINE u == req[x].user
      <3>1. /\ At(x, "du_exec") /\ req'[x].user = u /\ req'[x].flag = req[x].flag
        BY <1>1, <2>1 DEF Stays, Like, At
      <3>2. u \in User /\ user[u].status # "unused"
        BY <3>1 DEF SessionsFit, RequestsFit, Fits, At
      <3>3. CASE ~req[x].flag
        <4>1. ~user[u].admin
          BY <3>1, <3>3 DEF CountsOfAdmins
        <4>2. ~user'[u].admin
          BY <3>2, <4>1, UsedStays
        <4> QED
          BY <3>1, <3>3, <4>2
      <3>4. CASE req[x].flag
        <4>1. raced \/ \E a \in Admins : a # u
          BY <3>1, <3>4 DEF CountsOfAdmins
        <4>2. ASSUME NEW a \in Admins, a # u, a \notin Admins'
              PROVE  raced
          <5>1. PICK r \in Request : DeleteUserExec(r) /\ req[r].user = a
            BY <4>2, AdminStays
          <5>2. At(r, "du_exec") /\ user[a].admin
            BY <5>1 DEF DeleteUserExec, Admins
          <5>3. req[r].flag
            BY <5>1, <5>2 DEF CountsOfAdmins
          <5> QED
            BY <3>1, <3>4, <4>2, <5>1, <5>2, <5>3 DEF CountsOfAdmins
        <4>3. raced' \/ \E a \in Admins' : a # u
          BY <4>1, <4>2, RacesGrow
        <4> QED
          BY <3>1, <3>4, <4>3
      <3> QED
        BY <3>3, <3>4
    <2>2. ASSUME NEW u \in User, DeleteUserRead(x, u), ~user[u].admin
          PROVE  ~req'[x].flag /\ ~user'[req'[x].user].admin
      <3>1. req'[x].flag = FALSE /\ req'[x].user = u
        BY <2>2, DeleteUserReadReq
      <3>2. user' = user
        BY <2>2 DEF DeleteUserRead, tables
      <3> QED
        BY <2>2, <3>1, <3>2
    <2>3. ASSUME DeleteUserCount(x), EnoughAdmins(Cardinality(Admins))
          PROVE  req'[x].flag /\ \E a \in Admins' : a # req'[x].user
      <3>1. req'[x].flag = TRUE
        BY <2>3, DeleteUserCountReq
      <3>2. user' = user
        BY <2>3 DEF DeleteUserCount, tables
      <3>3. Admins' = Admins
        BY <3>2 DEF Admins, Users, Present
      <3>4. \E a \in Admins : a # req'[x].user
        BY <2>3, CountedTwo
      <3> QED
        BY <3>1, <3>3, <3>4
    <2> QED
      BY <1>1, <2>1, <2>2, <2>3, CameBy
  <1>2. ASSUME NEW x \in Request, req'[x].pc = "du_exec", req'[x].flag, Stays(x),
               NEW y \in Request, req'[y].pc = "du_exec", req'[y].flag, x # y
        PROVE  raced'
    <2>1. At(x, "du_exec") /\ req[x].flag
      BY <1>2 DEF Stays, Like, At
    <2>2. CASE Stays(y)
      <3>1. At(y, "du_exec") /\ req[y].flag
        BY <1>2, <2>2 DEF Stays, Like, At
      <3>2. raced
        BY <1>2, <2>1, <3>1 DEF CountsOfAdmins
      <3> QED
        BY <3>2, RacesGrow
    <2>3. CASE ~Stays(y)
      <3>1. DeleteUserCount(y) /\ EnoughAdmins(Cardinality(Admins))
        BY <1>2, <2>3, CameBy, DeleteUserReadReq
      <3> QED
        BY <2>1, <3>1 DEF DeleteUserCount
    <2> QED
      BY <2>2, <2>3
  <1>3. ASSUME NEW x \in Request, req'[x].pc = "du_exec", req'[x].flag,
               NEW y \in Request, req'[y].pc = "du_exec", req'[y].flag, x # y
        PROVE  raced'
    <2>1. Stays(x) \/ Stays(y)
      BY <1>3, OwnStep, OneMoves
    <2> QED
      BY <1>2, <1>3, <2>1
  <1> QED
    BY <1>1, <1>3 DEF CountsOfAdmins, At

LEMMA CountedNone ==
  ASSUME SessionsFit
  PROVE  IsFirst(Cardinality(Users)) <=> Users = {}
  <1>1. IsFiniteSet(Users)
    <2>1. Users \subseteq User
      BY DEF Users
    <2> QED
      BY <2>1, UserFinite, FS_Subset
  <1> QED
    BY <1>1, FS_EmptySet DEF IsFirst

\* Registration makes one admin.
LEMMA FoundersStep ==
  ASSUME SessionsFit, [Next]_vars
  PROVE  \/ founders' = founders
         \/ \E r \in Request : /\ RegisterUser(r) /\ req[r].flag
                               /\ user[req[r].user].status = "unused"
                               /\ user'[req[r].user].status # "unused"
                               /\ founders' = founders \cup {req[r].user}
  <1>1. CASE UNCHANGED vars
    BY <1>1 DEF vars
  <1>2. ASSUME NEW r \in Request, RegisterUser(r), founders' # founders
        PROVE  /\ req[r].flag /\ user[req[r].user].status = "unused"
               /\ user'[req[r].user].status # "unused"
               /\ founders' = founders \cup {req[r].user}
    <2>1. /\ req[r].flag /\ user[req[r].user].status = "unused"
          /\ founders' = founders \cup {req[r].user} /\ req[r].user \in User
          /\ req'[r].pc = "device" /\ req'[r].user = req[r].user
      BY <1>2, RegisterUserReq DEF RegisterUser
    <2>2. Fits(r)'
      BY RequestsFitStep DEF RequestsFit
    <2> QED
      BY <2>1, <2>2 DEF Fits
  <1>3. ASSUME NEW r \in Request, StepOf(r), ~RegisterUser(r)
        PROVE  founders' = founders
    BY <1>3 DEF StepOf, Reads, UserSteps, TokenSteps, LoginRead, NewToken, RegisterCount,
       DeleteUserRead, RefreshMatch, ChangeRead, RevokeStart, AdminRequest, Abort,
       SetRegistration, VerifyFails, VerifyOk, DeleteUserCount,
       CreateUser, RefreshDelete, ChangeDelete, NewDevice, ChangeUpdate, RevokeCommit,
       DeleteUserExec, ghosts
  <1>4. CASE (\E t \in Token : TokenEnds(t)) \/ (\E u \in User : LockExpires(u))
    BY <1>4 DEF TokenEnds, LockExpires, ghosts
  <1> QED
    BY <1>1, <1>2, <1>3, <1>4, NextCases DEF StepOf

LEMMA OneFounderStep ==
  ASSUME SessionsFit, CountsOfUsers, OneFounder, [Next]_vars
  PROVE  OneFounder'
  <1>1. CASE founders' = founders
    BY <1>1, RacesGrow DEF OneFounder
  <1>2. ASSUME NEW r \in Request, RegisterUser(r), req[r].flag,
               founders' = founders \cup {req[r].user}
        PROVE  OneFounder'
    <2>1. At(r, "reg_insert")
      BY <1>2 DEF RegisterUser
    <2>2. rushed \/ raced \/ \A u \in User : user[u].status = "unused"
      BY <1>2, <2>1 DEF CountsOfUsers
    <2>3. founders \subseteq User /\ \A u \in founders : user[u].status # "unused"
      BY DEF CountsOfUsers, SessionsFit, SessionsTypeOK
    <2>4. rushed \/ raced \/ founders = {}
      BY <2>2, <2>3
    <2> QED
      BY <1>2, <2>4, RacesGrow DEF OneFounder
  <1> QED
    BY <1>1, <1>2, FoundersStep

LEMMA CountsOfUsersStep ==
  ASSUME SessionsFit, CountsOfUsers, AdminRemains, [Next]_vars
  PROVE  CountsOfUsers'
  <1>1. ASSUME NEW x \in Request, req'[x].pc = "reg_insert"
        PROVE  IF req'[x].flag
                 THEN rushed' \/ raced' \/ \A u \in User : user'[u].status = "unused"
                 ELSE \E u \in User : user'[u].status # "unused"
    <2>1. CASE Stays(x)
      <3>1. At(x, "reg_insert") /\ req'[x].flag = req[x].flag
        BY <1>1, <2>1 DEF Stays, Like, At
      <3>2. CASE ~req[x].flag
        BY <3>1, <3>2, UsedStays DEF CountsOfUsers
      <3>3. CASE req[x].flag
        <4>1. rushed \/ raced \/ \A u \in User : user[u].status = "unused"
          BY <3>1, <3>3 DEF CountsOfUsers
        <4>2. ASSUME \A u \in User : user[u].status = "unused",
                     NEW v \in User, user'[v].status # "unused"
              PROVE  rushed
          <5>1. PICK r \in Request : RegisterUser(r) /\ req[r].user = v
            BY <4>2, UsedBy
          <5>2. At(r, "reg_insert")
            BY <5>1 DEF RegisterUser
          <5>3. req[r].flag
            BY <4>2, <5>2 DEF CountsOfUsers
          <5>4. r # x
            <6>1. req'[r].pc # "reg_insert"
              BY <5>1, RegisterUserReq, IdleType
            <6> QED
              BY <1>1, <6>1
          <5> QED
            BY <3>1, <3>3, <5>2, <5>3, <5>4 DEF CountsOfUsers
        <4>3. rushed' \/ raced' \/ \A u \in User : user'[u].status = "unused"
          BY <4>1, <4>2, RacesGrow
        <4> QED
          BY <3>1, <3>3, <4>3
      <3> QED
        BY <3>2, <3>3
    <2>2. ASSUME NEW u \in User, RegisterCount(x, u)
          PROVE  IF req'[x].flag
                   THEN raced' \/ \A v \in User : user'[v].status = "unused"
                   ELSE \E v \in User : user'[v].status # "unused"
      <3>1. user' = user /\ raced' = raced
        BY <2>2 DEF RegisterCount, tables
      <3>2. req'[x].flag <=> Users = {}
        BY <2>2, RegisterCountReq, CountedNone
      <3>3. CASE Users = {}
        <4>1. Admins = {}
          BY <3>3 DEF Admins
        <4> QED
          BY <3>1, <3>2, <3>3, <4>1 DEF AdminRemains
      <3>4. CASE Users # {}
        <4>1. \E v \in User : user[v].status # "unused"
          BY <3>4 DEF Users, Present
        <4> QED
          BY <3>1, <3>2, <3>4, <4>1
      <3> QED
        BY <3>3, <3>4
    <2> QED
      BY <1>1, <2>1, <2>2, CameBy
  <1>2. ASSUME NEW x \in Request, req'[x].pc = "reg_insert", req'[x].flag, Stays(x),
               NEW y \in Request, req'[y].pc = "reg_insert", req'[y].flag, x # y
        PROVE  rushed'
    <2>1. At(x, "reg_insert") /\ req[x].flag
      BY <1>2 DEF Stays, Like, At
    <2>2. CASE Stays(y)
      <3>1. At(y, "reg_insert") /\ req[y].flag
        BY <1>2, <2>2 DEF Stays, Like, At
      <3>2. rushed
        BY <1>2, <2>1, <3>1 DEF CountsOfUsers
      <3> QED
        BY <3>2, RacesGrow
    <2>3. CASE ~Stays(y)
      <3>1. PICK u \in User : RegisterCount(y, u)
        BY <1>2, <2>3, CameBy
      <3>2. IsFirst(Cardinality(Users))
        BY <1>2, <3>1, RegisterCountReq
      <3> QED
        BY <2>1, <3>1, <3>2 DEF RegisterCount
    <2> QED
      BY <2>2, <2>3
  <1>3. ASSUME NEW x \in Request, req'[x].pc = "reg_insert", req'[x].flag,
               NEW y \in Request, req'[y].pc = "reg_insert", req'[y].flag, x # y
        PROVE  rushed'
    <2>1. Stays(x) \/ Stays(y)
      BY <1>3, OwnStep, OneMoves
    <2> QED
      BY <1>2, <1>3, <2>1
  <1>4. ASSUME NEW u \in founders'
        PROVE  user'[u].status # "unused"
    <2>1. founders \subseteq User /\ \A v \in founders : user[v].status # "unused"
      BY DEF CountsOfUsers, SessionsFit, SessionsTypeOK
    <2> QED
      BY <1>4, <2>1, FoundersStep, UsedStays
  <1> QED
    BY <1>1, <1>3, <1>4 DEF CountsOfUsers, At

-----------------------------------------------------------------------------
(* The counter of failed logins.                                            *)

\* A login that ends writes the counter it goes by.
LEMMA VerifyCounts ==
  ASSUME SessionsFit, NEW r \in Request, NEW u \in User, req[r].user = u, Present(u)
  PROVE  /\ VerifyFails(r) => /\ user'[u].attempts = NextAttempts(req[r].n)
                              /\ failed'[u] = failed[u] + 1
         /\ VerifyOk(r) => user'[u].attempts = 0 /\ failed'[u] = 0
  <1>1. /\ user \in [User -> UserRow] /\ user[u] \in UserRow
        /\ failed \in [User -> 0..MaxAttempts]
    BY DEF SessionsFit, SessionsTypeOK
  <1>2. ASSUME VerifyFails(r)
        PROVE  user'[u].attempts = NextAttempts(req[r].n)
    <2> DEFINE n == NextAttempts(req[r].n)
               row(v) == [user[v] EXCEPT !.attempts = n, !.locked = @ \/ n >= Threshold]
    <2>1. user' = [user EXCEPT ![u] = row(u)]
      BY <1>2 DEF VerifyFails
    <2>2. user'[u] = row(u)
      BY <1>1, <2>1
    <2>3. row(u).attempts = n
      BY <1>1 DEF UserRow
    <2> HIDE DEF row
    <2> QED
      BY <2>2, <2>3
  <1>3. ASSUME VerifyOk(r)
        PROVE  user'[u].attempts = 0
    <2> DEFINE row(v) == [user[v] EXCEPT !.attempts = 0, !.locked = FALSE]
    <2>1. user' = [user EXCEPT ![u] = row(u)]
      BY <1>3 DEF VerifyOk
    <2>2. user'[u] = row(u)
      BY <1>1, <2>1
    <2>3. row(u).attempts = 0
      BY <1>1 DEF UserRow
    <2> HIDE DEF row
    <2> QED
      BY <2>2, <2>3
  <1>4. VerifyFails(r) => failed'[u] = failed[u] + 1
    BY <1>1 DEF VerifyFails
  <1>5. VerifyOk(r) => failed'[u] = 0
    BY <1>1 DEF VerifyOk
  <1> QED
    BY <1>2, <1>3, <1>4, <1>5

\* The logins of u that the step ends.
Verifies(u) == \E r \in Request : (VerifyFails(r) \/ VerifyOk(r)) /\ req[r].user = u

\* Only the logins of an account move its ghosts.
LEMMA GuessesStep ==
  ASSUME SessionsFit, [Next]_vars, NEW u \in User, ~Verifies(u)
  PROVE  failed'[u] = failed[u] /\ (u \in overlap => u \in overlap')
  <1>1. failed \in [User -> 0..MaxAttempts]
    BY DEF SessionsFit, SessionsTypeOK
  <1>2. CASE UNCHANGED vars
    BY <1>2 DEF vars
  <1>3. ASSUME NEW r \in Request, VerifyFails(r) \/ VerifyOk(r)
        PROVE  failed'[u] = failed[u] /\ (u \in overlap => u \in overlap')
    <2>1. req[r].user # u
      BY <1>3 DEF Verifies
    <2>2. CASE VerifyFails(r)
      BY <1>1, <2>1, <2>2 DEF VerifyFails
    <2>3. CASE VerifyOk(r)
      BY <1>1, <2>1, <2>3 DEF VerifyOk
    <2> QED
      BY <1>3, <2>2, <2>3
  <1>4. ASSUME NEW r \in Request, NEW v \in User, LoginRead(r, v)
        PROVE  failed' = failed /\ overlap \subseteq overlap'
    BY <1>4 DEF LoginRead
  <1>5. ASSUME NEW r \in Request, StepOf(r), ~VerifyFails(r), ~VerifyOk(r),
               \A v \in User : ~LoginRead(r, v)
        PROVE  failed' = failed /\ overlap' = overlap
    BY <1>5 DEF StepOf, Reads, UserSteps, TokenSteps, NewToken, RegisterCount,
       DeleteUserRead, RefreshMatch, ChangeRead, RevokeStart, AdminRequest, Abort,
       SetRegistration, DeleteUserCount, RegisterUser,
       CreateUser, RefreshDelete, ChangeDelete, NewDevice, ChangeUpdate, RevokeCommit,
       DeleteUserExec, ghosts, guesses
  <1>6. CASE (\E t \in Token : TokenEnds(t)) \/ (\E v \in User : LockExpires(v))
    BY <1>6 DEF TokenEnds, LockExpires, ghosts, guesses
  <1> QED
    BY <1>2, <1>3, <1>4, <1>5, <1>6, NextCases DEF StepOf

LEMMA CountersReadStep ==
  ASSUME SessionsFit, CountersRead, [Next]_vars
  PROVE  CountersRead'
  <1>1. ASSUME NEW r \in Request, VerifyFails(r) \/ VerifyOk(r)
        PROVE  /\ At(r, "verify") /\ ~Stays(r) /\ StepOf(r)
               /\ req[r].user \in User /\ user[req[r].user].status # "unused"
    <2>1. req'[r].pc # "verify" /\ req[r].pc = "verify" /\ StepOf(r)
      BY <1>1, EndReq, VerifyOkReq, IdleType
         DEF VerifyFails, VerifyOk, At, StepOf, UserSteps
    <2> QED
      BY <2>1 DEF Stays, Like, At, SessionsFit, RequestsFit, Fits
  <1>2. ASSUME NEW u \in User, user'[u].status = "unused"
        PROVE  failed'[u] = 0
    <2>1. user[u].status = "unused"
      BY <1>2, UsedStays
    <2>2. ~Verifies(u)
      BY <1>1, <2>1 DEF Verifies
    <2> QED
      BY <2>1, <2>2, GuessesStep DEF CountersRead
  <1>3. ASSUME NEW x \in Request, req'[x].pc = "verify", NEW u \in User,
               req'[x].user = u, u \notin overlap'
        PROVE  /\ user'[u].status = "present" => req'[x].n = user'[u].attempts
               /\ \A y \in Request : req'[y].pc = "verify" /\ req'[y].user = u => y = x
    <2>1. CASE Stays(x)
      <3>1. /\ At(x, "verify") /\ req[x].user = u /\ req'[x].n = req[x].n
        BY <1>3, <2>1 DEF Stays, Like, At
      <3>2. user[u].status # "unused"
        BY <3>1 DEF At, SessionsFit, RequestsFit, Fits
      <3>3. u \notin overlap
        <4>1. CASE ~Verifies(u)
          BY <1>3, <4>1, GuessesStep
        <4>2. ASSUME NEW r \in Request, VerifyFails(r)
              PROVE  overlap' = overlap
          BY <4>2 DEF VerifyFails
        <4>3. ASSUME NEW r \in Request, VerifyOk(r), req[r].user = u
              PROVE  overlap' = overlap
          <5>1. x \in Request \ {r}
            BY <1>1, <2>1, <4>3
          <5> QED
            BY <3>1, <4>3, <5>1 DEF VerifyOk
        <4> QED
          BY <1>3, <4>1, <4>2, <4>3 DEF Verifies
      <3>4. /\ Present(u) => req[x].n = user[u].attempts
            /\ \A y \in Request : At(y, "verify") /\ req[y].user = u => y = x
        BY <3>1, <3>3 DEF CountersRead
      <3>5. \A r \in Request : ~((VerifyFails(r) \/ VerifyOk(r)) /\ req[r].user = u)
        BY <1>1, <2>1, <3>4
      <3>6. user'[u].status = "present" => Present(u) /\ user'[u].attempts = user[u].attempts
        BY <3>2, <3>5, AccountStep DEF Kept, Added, Changed, Deleted, Present
      <3>7. ASSUME NEW y \in Request, req'[y].pc = "verify", req'[y].user = u
            PROVE  y = x
        <4>1. CASE Stays(y)
          BY <3>4, <3>7, <4>1 DEF Stays, Like, At
        <4>2. CASE ~Stays(y)
          <5>1. PICK v \in User : LoginRead(y, v)
            BY <3>7, <4>2, CameBy
          <5>2. v = u
            BY <3>7, <5>1, LoginReadReq
          <5>3. u \in overlap'
            BY <3>1, <5>1, <5>2 DEF LoginRead
          <5> QED
            BY <1>3, <5>3
        <4> QED
          BY <4>1, <4>2
      <3> QED
        BY <3>1, <3>4, <3>6, <3>7
    <2>2. CASE ~Stays(x)
      <3>1. PICK v \in User : LoginRead(x, v)
        BY <1>3, <2>2, CameBy
      <3>2. v = u /\ req'[x].n = user[u].attempts
        BY <1>3, <3>1, LoginReadReq
      <3>3. user' = user /\ ~\E y \in Request : At(y, "verify") /\ req[y].user = u
        BY <1>3, <3>1, <3>2 DEF LoginRead, tables
      <3>4. ASSUME NEW y \in Request, y # x, req'[y].pc = "verify"
            PROVE  req'[y].user # u
        <4>1. Stays(y)
          BY <2>2, <3>4, OwnStep, OneMoves
        <4> QED
          BY <3>3, <3>4, <4>1 DEF Stays, Like, At
      <3> QED
        BY <3>2, <3>3, <3>4
    <2> QED
      BY <2>1, <2>2
  <1>4. ASSUME NEW x \in Request, req'[x].pc = "verify"
        PROVE  \/ req'[x].user \in overlap'
               \/ /\ user'[req'[x].user].status = "present" =>
                       req'[x].n = user'[req'[x].user].attempts
                  /\ \A y \in Request :
                       req'[y].pc = "verify" /\ req'[y].user = req'[x].user => y = x
    <2>1. req'[x].user \in User
      BY <1>4, RequestsFitStep DEF RequestsFit, Fits
    <2> QED
      BY <1>3, <1>4, <2>1
  <1> QED
    BY <1>2, <1>4 DEF CountersRead, At, Present

LEMMA CounterExactStep ==
  ASSUME SessionsFit, CountersRead, CounterExact, [Next]_vars
  PROVE  CounterExact'
  <1> SUFFICES ASSUME NEW u \in User, user'[u].status = "present"
               PROVE  user'[u].attempts = failed'[u] \/ u \in overlap'
    BY DEF CounterExact, Users, Present
  <1>1. CASE ~Verifies(u)
    <2>1. failed'[u] = failed[u] /\ (u \in overlap => u \in overlap')
      BY <1>1, GuessesStep
    <2>2. CASE user[u].status = "unused"
      <3>1. user'[u].attempts = 0
        BY <2>2, AccountStep DEF Kept, Added, Counted, Changed, Deleted, Present
      <3> QED
        BY <2>1, <2>2, <3>1 DEF CountersRead
    <2>3. CASE user[u].status # "unused"
      <3>1. Present(u) /\ user'[u].attempts = user[u].attempts
        BY <1>1, <2>3, AccountStep DEF Kept, Added, Changed, Deleted, Present, Verifies
      <3>2. user[u].attempts = failed[u] \/ u \in overlap
        BY <3>1 DEF CounterExact, Users
      <3> QED
        BY <2>1, <3>1, <3>2
    <2> QED
      BY <2>2, <2>3
  <1>2. ASSUME NEW r \in Request, VerifyFails(r) \/ VerifyOk(r), req[r].user = u
        PROVE  user'[u].attempts = failed'[u] \/ u \in overlap'
    <2>1. At(r, "verify")
      BY <1>2 DEF VerifyFails, VerifyOk
    <2>2. user[u].status # "unused"
      BY <1>2, <2>1 DEF At, SessionsFit, RequestsFit, Fits
    <2>3. Present(u)
      BY <2>2, AccountStep DEF Kept, Added, Counted, Changed, Deleted, Present
    <2>4. CASE VerifyOk(r)
      BY <1>2, <2>3, <2>4, VerifyCounts
    <2>5. CASE VerifyFails(r)
      <3>1. /\ user'[u].attempts = NextAttempts(req[r].n) /\ failed'[u] = failed[u] + 1
            /\ overlap' = overlap
        BY <1>2, <2>3, <2>5, VerifyCounts DEF VerifyFails
      <3>2. user[u].attempts = failed[u] \/ u \in overlap
        BY <2>3 DEF CounterExact, Users
      <3>3. req[r].n = user[u].attempts \/ u \in overlap
        BY <1>2, <2>1, <2>3 DEF CountersRead
      <3> QED
        BY <3>1, <3>2, <3>3 DEF NextAttempts
    <2> QED
      BY <1>2, <2>4, <2>5
  <1> QED
    BY <1>1, <1>2 DEF Verifies

-----------------------------------------------------------------------------
(* The invariant and what follows from it.                                  *)

LEMMA SessionsInvInit ==
  ASSUME Init
  PROVE  SessionsInv
  <1>1. \A r \in Request : req[r].pc = "idle"
    BY IdleType DEF Init
  <1>2. \A t \in Token : ~Live(t)
    BY DEF Init, Live
  <1>3. \A u \in User : user[u].status = "unused" /\ ~Present(u) /\ failed[u] = 0
    BY DEF Init, NoUser, Present
  <1>4. TokensDiffer
    BY <1>1, <1>2 DEF TokensDiffer, At
  <1>5. CountsOfUsers
    BY <1>1 DEF CountsOfUsers, At, Init
  <1>6. CountsOfAdmins
    BY <1>1 DEF CountsOfAdmins, At
  <1>7. AdminRemains
    BY <1>3 DEF AdminRemains
  <1>8. OneFounder
    BY DEF OneFounder, Init
  <1>9. CountersRead
    BY <1>1, <1>3 DEF CountersRead, At
  <1>10. CounterExact
    BY <1>3 DEF CounterExact, Users
  <1>11. SessionsEntitled
    BY <1>1, <1>2 DEF SessionsEntitled
  <1> QED
    BY <1>4, <1>5, <1>6, <1>7, <1>8, <1>9, <1>10, <1>11, InitFit DEF SessionsInv

LEMMA SessionsInvStep ==
  ASSUME SessionsInv, [Next]_vars
  PROVE  SessionsInv'
  BY FitStep, TokensDifferStep, CountsOfUsersStep, CountsOfAdminsStep,
     AdminRemainsStep, OneFounderStep, CountersReadStep, CounterExactStep,
     SessionsEntitledStep DEF SessionsInv

\* The inductive invariant holds for every number of accounts, devices, tokens
\* and requests.
THEOREM SessionsInvariant == Spec => []SessionsInv
  <1>1. Init => SessionsInv
    BY SessionsInvInit
  <1>2. SessionsInv /\ [Next]_vars => SessionsInv'
    BY SessionsInvStep
  <1> QED
    BY <1>1, <1>2, PTL DEF Spec

\* Rotation leaves a device one token, or one request that will insert one.
THEOREM Rotation == Spec => []OneToken
  <1>1. SessionsInv => OneToken
    <2> SUFFICES ASSUME SessionsInv, NEW d \in Device \ forked,
                        NEW x \in Claims(d), NEW y \in Claims(d)
                 PROVE  x = y
      BY DEF OneToken
    <2>1. TokensDiffer
      BY DEF SessionsInv
    <2> QED
      BY <2>1 DEF TokensDiffer, Claims
  <1> QED
    BY <1>1, SessionsInvariant, PTL

\* A change of password ends the sessions of the other devices.
THEOREM OldSessionsEnded == Spec => []OldSessionsEnd
  <1>1. SessionsInv => OldSessionsEnd
    BY DEF SessionsInv, SessionsEntitled, Entitled, Changing, OldSessionsEnd
  <1> QED
    BY <1>1, SessionsInvariant, PTL

\* There is always an admin, unless two deletions of admins overlapped.
THEOREM AdminsRemain == Spec => []AdminRemains
  <1>1. SessionsInv => AdminRemains
    BY DEF SessionsInv
  <1> QED
    BY <1>1, SessionsInvariant, PTL

\* Registration makes one admin, unless the first two overlapped.
THEOREM FounderUnique == Spec => []OneFounder
  <1>1. SessionsInv => OneFounder
    BY DEF SessionsInv
  <1> QED
    BY <1>1, SessionsInvariant, PTL

\* The counter of failed logins is exact, unless logins overlapped.
THEOREM CountersExact == Spec => []CounterExact
  <1>1. SessionsInv => CounterExact
    BY DEF SessionsInv
  <1> QED
    BY <1>1, SessionsInvariant, PTL
=============================================================================
