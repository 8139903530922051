------------------------------- MODULE WebQr -------------------------------
(***************************************************************************)
(* Login of another page with an HR account (api/web_qr.py): a code scanned *)
(* with the HR app, or e-mail and password typed on that page.  Nothing is  *)
(* in the database before the session: the code, the poll key and the       *)
(* one-time ticket are cache entries that expire, each read, written and    *)
(* deleted by its own command, so requests interleave between them, and a   *)
(* worker may die between two of them.  Time is counted in units no shorter *)
(* than a request.                                                          *)
(***************************************************************************)
EXTENDS Integers, FiniteSets

CONSTANTS
    Codes,       \* codes the pages ask for; each comes with its own poll key
    Tickets,     \* one-time tickets
    Users,       \* accounts
    Apps,        \* pages and programs that may ask for a login
    Requests,    \* requests in flight at one time
    CODE_TTL,    \* web_qr.CODE_TTL_S
    GRACE,       \* web_qr.APPROVED_GRACE_S
    FINISH_TTL,  \* web_qr.FINISH_TTL_S
    PwFailLimit, \* seat_checkin.PW_FAIL_LIMIT
    MaxNow,      \* bound: the last unit of time
    MaxChanges,  \* bound: switches turned off and employees who leave
    NoUser, NoCode

\* A code lives well beyond a unit of time, which is what its counters rely on.
ASSUME Lifetimes ==
    /\ CODE_TTL \in Nat /\ CODE_TTL > 2
    /\ GRACE \in Nat /\ FINISH_TTL \in Nat /\ MaxNow \in Nat
    /\ NoUser \notin Users /\ NoCode \notin Codes

VARIABLES
    now,        \* time.time()
    record,     \* _CODE + code -> what the page asked for and who confirmed
    pollExp,    \* _POLL + poll -> code: when the entry is gone (0: no entry)
    ticket,     \* _FIN + token -> the one-time ticket
    once,       \* _ONCE + key -> when the counter is gone
    fails,      \* _FAIL_KEY + email: wrong passwords in a row
    on,         \* switches: the <<page, way>> pairs that are enabled
    active,     \* accounts enabled and of a working employee
    req,        \* requests in flight
    confirmed,  \* confirmations the HR app was told of
    sessions    \* logins written to the activity log, session committed

vars == <<now, record, pollExp, ticket, once, fails, on, active, req,
          confirmed, sessions>>
cacheVars == <<record, pollExp, ticket, once, fails>>

Vias   == {"qr", "password"}
NoRec  == [exp |-> 0]
Idle   == [at |-> "idle"]

Live(e) == now < e.exp                \* an entry the cache still returns

(* utils/web_qr.record_age_ok *)
AgeOk(r, ttl) == now - r.ts \in 0..ttl

(* utils/web_qr.poll_state = "ok" *)
PollOk(r) == /\ AgeOk(r, CODE_TTL + GRACE)
             /\ r.state = "ok" /\ r.user # NoUser

(* utils/web_qr.remaining_ttl *)
RemainingTtl(r) == LET left == CODE_TTL - (now - r.ts)
                   IN (IF left > 0 THEN left ELSE 0) + GRACE

(* _once: the first INCR of the key, which also gives it its lifetime *)
FirstAlways(key)  == key # <<>>          \* mutant: the counter is not looked at
First(key)        == ~ \E o \in once : o.key = key /\ Live(o)
Count(key, ttl)   == once' = {o \in once : Live(o)} \cup
                         (IF First(key) THEN {[key |-> key, exp |-> now + ttl]} ELSE {})

Init == /\ now = 1
        /\ record = [c \in Codes |-> NoRec]
        /\ pollExp = [c \in Codes |-> 0]
        /\ ticket = [t \in Tickets |-> NoRec]
        /\ once = {} /\ confirmed = {} /\ sessions = {}
        /\ fails = [u \in Users |-> 0]
        /\ on = Apps \X Vias
        /\ active = Users
        /\ req = [q \in Requests |-> Idle]

Begin(q, s) == req[q] = Idle /\ req' = [req EXCEPT ![q] = s]
Goto(q, s)  == req' = [req EXCEPT ![q] = s]
Done(q)     == req' = [req EXCEPT ![q] = Idle]

InFlight == {q \in Requests : req[q] # Idle}
FreshTicket(t) == ticket[t] = NoRec /\ \A o \in once : o.key # <<"f", t>>

(* ------------------------- the page that shows the code ---------------- *)
Start(c, a) ==
    /\ <<a, "qr">> \in on
    /\ record[c] = NoRec /\ \A o \in once : o.key \notin {<<"p", c>>, <<"a", c>>}
    /\ record' = [record EXCEPT ![c] =
           [app |-> a, ts |-> now, state |-> "wait", user |-> NoUser,
            exp |-> now + CODE_TTL + GRACE]]
    /\ pollExp' = [pollExp EXCEPT ![c] = now + CODE_TTL + GRACE]
    /\ UNCHANGED <<now, ticket, once, fails, on, active, req, confirmed, sessions>>

(* status: poll key, then the record it names; anything but a confirmed    *)
(* record of this page ends the request without a change.                  *)
StatusRead(q, c) ==
    /\ now < pollExp[c] /\ Live(record[c]) /\ PollOk(record[c])
    /\ <<record[c].app, "qr">> \in on
    /\ Begin(q, [at |-> "status", code |-> c, rec |-> record[c], since |-> now])
    /\ UNCHANGED <<now, record, pollExp, ticket, once, fails, on, active,
                   confirmed, sessions>>

(* The counter, and the ticket only this request knows: one step. *)
StatusIssue(q, t) ==
    /\ req[q].at = "status" /\ FreshTicket(t)
    /\ LET c == req[q].code
       IN  /\ Count(<<"p", c>>, CODE_TTL)
           /\ IF First(<<"p", c>>)
              THEN /\ ticket' = [ticket EXCEPT ![t] =
                         [user |-> req[q].rec.user, app |-> req[q].rec.app,
                          via |-> "qr", ts |-> now, exp |-> now + FINISH_TTL,
                          code |-> c, told |-> FALSE]]
                   /\ Goto(q, [at |-> "drop", code |-> c, token |-> t,
                               since |-> req[q].since])
              ELSE Done(q) /\ UNCHANGED ticket
    /\ UNCHANGED <<now, record, pollExp, fails, on, active, confirmed, sessions>>

(* The entries are deleted and the browser is told its ticket. *)
StatusDrop(q) ==
    /\ req[q].at = "drop"
    /\ ticket' = [ticket EXCEPT ![req[q].token].told = TRUE]
    /\ record' = [record EXCEPT ![req[q].code].exp = 0]
    /\ pollExp' = [pollExp EXCEPT ![req[q].code] = 0]
    /\ Done(q)
    /\ UNCHANGED <<now, once, fails, on, active, confirmed, sessions>>

(* ------------------------- the employee who scans it ------------------- *)
ApproveRead(q, c, u) ==
    /\ Live(record[c]) /\ <<record[c].app, "qr">> \in on
    /\ Begin(q, [at |-> "approve", code |-> c, rec |-> record[c], user |-> u,
                 since |-> now])
    /\ UNCHANGED <<now, record, pollExp, ticket, once, fails, on, active,
                   confirmed, sessions>>

(* utils/web_qr.approve, then the counter *)
ApproveOnce(q) ==
    /\ req[q].at = "approve"
    /\ LET r == req[q].rec
           c == req[q].code
           mayApprove == AgeOk(r, CODE_TTL) /\ r.state = "wait" /\ r.user = NoUser
       IN IF mayApprove
          THEN /\ Count(<<"a", c>>, CODE_TTL)
               /\ IF First(<<"a", c>>) THEN Goto(q, [req[q] EXCEPT !.at = "write"])
                                       ELSE Done(q)
          ELSE Done(q) /\ UNCHANGED once
    /\ UNCHANGED <<now, record, pollExp, ticket, fails, on, active,
                   confirmed, sessions>>

ApproveWrite(q) ==
    /\ req[q].at = "write"
    /\ LET r == req[q].rec
       IN  record' = [record EXCEPT ![req[q].code] =
               [r EXCEPT !.state = "ok", !.user = req[q].user,
                         !.exp = now + RemainingTtl(r)]]
    /\ confirmed' = confirmed \cup {[code |-> req[q].code, user |-> req[q].user]}
    /\ Done(q)
    /\ UNCHANGED <<now, pollExp, ticket, once, fails, on, active, sessions>>

(* ------------------------- e-mail and password -------------------------- *)
(* check_hr_password and password_start: the counter is read, the password *)
(* checked, and the counter written back.                                  *)
PasswordStart(u, a, right, t) ==
    /\ <<a, "password">> \in on /\ fails[u] < PwFailLimit
    /\ IF ~right
       THEN fails' = [fails EXCEPT ![u] = @ + 1] /\ UNCHANGED ticket
       ELSE /\ u \in active /\ FreshTicket(t)
            /\ fails' = [fails EXCEPT ![u] = 0]
            /\ ticket' = [ticket EXCEPT ![t] =
                   [user |-> u, app |-> a, via |-> "password", ts |-> now,
                    exp |-> now + FINISH_TTL, code |-> NoCode, told |-> TRUE]]
    /\ UNCHANGED <<now, record, pollExp, once, on, active, req, confirmed, sessions>>

(* ------------------------- the ticket becomes a session ----------------- *)
(* finish (pages) and redeem (the Hub, for programs): the switch of either *)
(* way, then the counter, then the ticket is read and deleted.             *)
FinishOnce(q, t, a) ==
    /\ \E v \in Vias : <<a, v>> \in on
    /\ ticket[t] # NoRec /\ ticket[t].told
    /\ IF First(<<"f", t>>)
       THEN Begin(q, [at |-> "take", token |-> t, app |-> a, since |-> now])
       ELSE req[q] = Idle /\ UNCHANGED req
    /\ Count(<<"f", t>>, FINISH_TTL)
    /\ UNCHANGED <<now, record, pollExp, ticket, fails, on, active,
                   confirmed, sessions>>

FinishTake(q) ==
    /\ req[q].at = "take"
    /\ LET t == req[q].token
       IN  /\ ticket' = [ticket EXCEPT ![t].exp = 0]
           /\ IF Live(ticket[t])
              THEN Goto(q, [at |-> "login", app |-> req[q].app, rec |-> ticket[t],
                            since |-> req[q].since])
              ELSE Done(q)
    /\ UNCHANGED <<now, record, pollExp, once, fails, on, active,
                   confirmed, sessions>>

(* finish_valid, the switch of the way the ticket came by, and the employee *)
FinishValid(r, a) == r.app = a /\ r.user # NoUser /\ AgeOk(r, FINISH_TTL)

FinishLogin(q) ==
    /\ req[q].at = "login"
    /\ LET r == req[q].rec
       IN  sessions' = IF FinishValid(r, req[q].app) /\ <<r.app, r.via>> \in on
                          /\ r.user \in active
                       THEN sessions \cup {[user |-> r.user, app |-> r.app,
                                via |-> r.via, code |-> r.code, at |-> now, by |-> q]}
                       ELSE sessions
    /\ Done(q)
    /\ UNCHANGED <<now, record, pollExp, ticket, once, fails, on, active, confirmed>>

(* Switches turned off and employees gone, capped by MaxChanges. *)
Changes == Cardinality((Apps \X Vias) \ on) + Cardinality(Users \ active)

(* ------------------------- around the requests -------------------------- *)
(* A worker dies: what it wrote to the cache stays, its login is lost.      *)
Crash(q) == /\ req[q] # Idle /\ Done(q)
            /\ UNCHANGED <<now, record, pollExp, ticket, once, fails, on, active,
                           confirmed, sessions>>

(* No request lasts longer than a unit of time. *)
Tick == /\ now < MaxNow
        /\ \A q \in InFlight : req[q].since = now
        /\ now' = now + 1
        /\ UNCHANGED <<cacheVars, on, active, req, confirmed, sessions>>

SwitchOff(a, v) == /\ <<a, v>> \in on /\ Changes < MaxChanges /\ on' = on \ {<<a, v>>}
                   /\ UNCHANGED <<now, cacheVars, active, req, confirmed, sessions>>

LeaveCompany(u) == /\ u \in active /\ Changes < MaxChanges /\ active' = active \ {u}
                   /\ UNCHANGED <<now, cacheVars, on, req, confirmed, sessions>>

Next ==
    \/ Tick
    \/ \E c \in Codes, a \in Apps : Start(c, a)
    \/ \E q \in Requests :
          \/ \E c \in Codes : StatusRead(q, c)
          \/ \E c \in Codes, u \in Users : ApproveRead(q, c, u)
          \/ \E t \in Tickets : StatusIssue(q, t)
          \/ \E t \in Tickets, a \in Apps : FinishOnce(q, t, a)
          \/ StatusDrop(q) \/ ApproveOnce(q) \/ ApproveWrite(q)
          \/ FinishTake(q) \/ FinishLogin(q) \/ Crash(q)
    \/ \E u \in Users, a \in Apps, right \in BOOLEAN, t \in Tickets :
          PasswordStart(u, a, right, t)
    \/ \E a \in Apps, v \in Vias : SwitchOff(a, v)
    \/ \E u \in Users : LeaveCompany(u)

Spec == Init /\ [][Next]_vars

(* ------------------------- what is promised ------------------------------ *)
Rec    == [app : Apps, ts : Nat, state : {"wait", "ok"}, user : Users \cup {NoUser},
           exp : Nat]
Ticket == [user : Users, app : Apps, via : Vias, ts : Nat, exp : Nat,
           code : Codes \cup {NoCode}, told : BOOLEAN]
Key    == ({"p", "a"} \X Codes) \cup ({"f"} \X Tickets)
Request ==
    {Idle} \cup [at : {"status"}, code : Codes, rec : {r \in Rec : r.user # NoUser}, since : Nat]
           \cup [at : {"drop"}, code : Codes, token : Tickets, since : Nat]
           \cup [at : {"approve", "write"}, code : Codes, rec : Rec, user : Users, since : Nat]
           \cup [at : {"take"}, token : Tickets, app : Apps, since : Nat]
           \cup [at : {"login"}, app : Apps, rec : Ticket, since : Nat]

\* Types of the cache entries, the requests and what the database keeps of a login.
TypeOK ==
    /\ now \in Nat
    /\ record \in [Codes -> Rec \cup {NoRec}]
    /\ pollExp \in [Codes -> Nat]
    /\ ticket \in [Tickets -> Ticket \cup {NoRec}]
    /\ once \subseteq [key : Key, exp : Nat]
    /\ fails \in [Users -> Nat]
    /\ on \subseteq Apps \X Vias /\ active \subseteq Users
    /\ req \in [Requests -> Request]
    /\ confirmed \subseteq [code : Codes, user : Users]
    /\ sessions \subseteq [user : Users, app : Apps, via : Vias, code : Codes \cup {NoCode},
                           at : Nat, by : Requests]

(* The promise of each code, read off what the HR app was told and what the *)
(* activity log holds.                                                      *)
Granted ==
    [c \in Codes |->
        LET who == {x.user : x \in {y \in confirmed : y.code = c}}
            ins == {s \in sessions : s.code = c}
        IN IF who = {} /\ ins = {} THEN [state |-> "waiting", user |-> NoUser]
           ELSE IF Cardinality(who) = 1 /\ ins = {}
           THEN [state |-> "approved", user |-> CHOOSE u \in who : TRUE]
           ELSE IF Cardinality(ins) = 1 /\ who = {s.user : s \in ins}
           THEN [state |-> "in", user |-> CHOOSE u \in who : TRUE]
           ELSE [state |-> "broken", user |-> NoUser]]

Promise == INSTANCE LoginGrant WITH grant <- Granted

(* Two employees may scan one code, its browser may ask twice, and a worker *)
(* may die: a code still lets one employee in, once, and only the one who   *)
(* confirmed it (WebQr implements LoginGrant).                              *)
KeepsPromise == Promise!Spec
=============================================================================
