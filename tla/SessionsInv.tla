----------------------------- MODULE SessionsInv -----------------------------
(***************************************************************************)
(* The inductive invariant of Sessions: what the tables promise together    *)
(* with what a request may still rely on of what it has read.               *)
(***************************************************************************)
EXTENDS Sessions

\* A device of the table belongs to an account of the table, and a live token
\* to a device of the table; a row that is gone was there.
TablesFit ==
  /\ \A d \in Device :
       /\ dev[d].status # "unused" => dev[d].owner \in User
       /\ Registered(d) => Present(dev[d].owner)
  /\ \A t \in Token :
       /\ tok[t].status # "unused" => /\ tok[t].dev \in Device
                                      /\ dev[tok[t].dev].status # "unused"
       /\ Live(t) => Registered(tok[t].dev)

\* What a request has read was in the tables once.
Fits(r) ==
  /\ req[r].pc \in {"reg_insert", "verify", "device", "ch_update", "ch_delete",
                    "admin", "du_count", "du_exec"} => req[r].user \in User
  /\ req[r].pc \in {"verify", "device", "admin", "du_count", "du_exec"} =>
       user[req[r].user].status # "unused"
  /\ req[r].pc \in {"token", "rf_delete", "ch_update", "ch_delete"} =>
       req[r].dev \in Device /\ dev[req[r].dev].status # "unused"
  /\ req[r].pc \in {"ch_update", "ch_delete"} =>
       dev[req[r].dev].owner = req[r].user
  /\ req[r].pc = "rf_delete" =>
       /\ req[r].tok \in Token /\ tok[req[r].tok].status # "unused"
       /\ tok[req[r].tok].dev = req[r].dev

RequestsFit == \A r \in Request : Fits(r)

\* Types, and what fits together by the foreign keys.
SessionsFit == SessionsTypeOK /\ TablesFit /\ RequestsFit

\* OneToken in terms of tokens and of requests that will insert one.
TokensDiffer ==
  \A d \in Device \ forked :
    /\ \A s, t \in Token : Live(s) /\ Live(t) /\ tok[s].dev = d /\ tok[t].dev = d
                           => s = t
    /\ \A t \in Token, r \in Request :
         ~(Live(t) /\ tok[t].dev = d /\ At(r, "token") /\ req[r].dev = d)
    /\ \A r, x \in Request :
         At(r, "token") /\ At(x, "token") /\ req[r].dev = d /\ req[x].dev = d
         => r = x

\* A count of the accounts that was not zero was right for ever; one that was
\* zero still is, unless somebody else counted zero too or admins were deleted
\* at the same time.
CountsOfUsers ==
  /\ \A r \in Request : At(r, "reg_insert") =>
       IF req[r].flag
         THEN rushed \/ raced \/ \A u \in User : user[u].status = "unused"
         ELSE \E u \in User : user[u].status # "unused"
  /\ \A r, x \in Request :
       At(r, "reg_insert") /\ At(x, "reg_insert") /\ req[r].flag /\ req[x].flag
       => r = x \/ rushed
  /\ \A u \in founders : user[u].status # "unused"

\* An admin about to be deleted was counted beside another one.
CountsOfAdmins ==
  /\ \A r \in Request : At(r, "du_exec") =>
       IF req[r].flag
         THEN raced \/ \E a \in Admins : a # req[r].user
         ELSE ~user[req[r].user].admin
  /\ \A r, x \in Request :
       At(r, "du_exec") /\ At(x, "du_exec") /\ req[r].flag /\ req[x].flag
       => r = x \/ raced

\* A login that is alone has read the counter as it is.
CountersRead ==
  /\ \A u \in User : user[u].status = "unused" => failed[u] = 0
  /\ \A r \in Request : At(r, "verify") =>
       \/ req[r].user \in overlap
       \/ /\ Present(req[r].user) => req[r].n = user[req[r].user].attempts
          /\ \A x \in Request :
               At(x, "verify") /\ req[x].user = req[r].user => x = r

\* A change of password of u is under way, and not by a request of d.
Changing(u, d) ==
  \E r \in Request : At(r, "ch_delete") /\ req[r].user = u /\ req[r].dev # d

\* The device d may keep a session.
Entitled(d) ==
  \/ dev[d].password = user[dev[d].owner].password
  \/ d \in late
  \/ Changing(dev[d].owner, d)

\* Whoever has a session, or will have one, is entitled to it, or late.
SessionsEntitled ==
  /\ \A t \in Token : Live(t) => Entitled(tok[t].dev)
  /\ \A r \in Request :
       /\ req[r].pc \in {"rf_delete", "token"} /\ Registered(req[r].dev) =>
            req[r].late \/ Entitled(req[r].dev)
       /\ req[r].pc \in {"verify", "device"} =>
            \/ req[r].late
            \/ req[r].password = user[req[r].user].password
            \/ \E x \in Request : At(x, "ch_delete") /\ req[x].user = req[r].user

\* The inductive invariant behind the safety properties of Sessions: tables and
\* requests fit together whatever is interleaved (auth, devices and admin
\* handlers).
SessionsInv ==
  /\ SessionsFit /\ TokensDiffer
  /\ CountsOfUsers /\ CountsOfAdmins /\ AdminRemains /\ OneFounder
  /\ CountersRead /\ CounterExact /\ SessionsEntitled
=============================================================================
