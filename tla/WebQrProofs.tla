---------------------------- MODULE WebQrProofs ----------------------------
(* WebQr implements LoginGrant, for every number of codes, tickets, accounts, pages and  *)
(* requests in flight.                                                                   *)
EXTENDS WebQr, FiniteSetTheorems, TLAPS

At(q, step) == req[q].at = step

-----------------------------------------------------------------------------
(* Types. *)

\* What is known of a request from where it is.
LEMMA RequestFields ==
  ASSUME TypeOK, NEW q \in Requests
  PROVE  /\ req[q] \in Request
         /\ req[q] # Idle => req[q].since \in Nat
         /\ req[q] = Idle <=> At(q, "idle")
         /\ At(q, "status") => req[q].code \in Codes /\ req[q].rec \in Rec /\ req[q].rec.user \in Users
         /\ At(q, "drop") => req[q].code \in Codes /\ req[q].token \in Tickets
         /\ At(q, "approve") \/ At(q, "write")
            => req[q].code \in Codes /\ req[q].rec \in Rec /\ req[q].user \in Users
         /\ At(q, "take") => req[q].token \in Tickets /\ req[q].app \in Apps
         /\ At(q, "login") => req[q].rec \in Ticket /\ req[q].app \in Apps
  <1>1. req[q] \in Request
    BY DEF TypeOK
  <1> QED BY <1>1 DEF Request, Idle, At, Rec

\* What TypeOK says of a step that leaves the cache and the database alone.
LEMMA RequestTyped ==
  ASSUME TypeOK, NEW q \in Requests, NEW s \in Request, req' = [req EXCEPT ![q] = s],
         UNCHANGED <<now, cacheVars, on, active, confirmed, sessions>>
  PROVE  TypeOK'
  BY DEF TypeOK, cacheVars

LEMMA IdleTyped == Idle \in Request
  BY DEF Request

\* The counters.
LEMMA CountTyped ==
  ASSUME TypeOK, NEW key \in Key, NEW ttl \in Nat, Count(key, ttl)
  PROVE  once' \subseteq [key : Key, exp : Nat]
  <1>1. now + ttl \in Nat
    BY DEF TypeOK
  <1> QED BY <1>1 DEF TypeOK, Count

\* A field that an entry does not have is not written.
LEMMA Rewritten ==
  /\ \A v \in Ticket \cup {NoRec} : /\ [v EXCEPT !.told = TRUE] \in Ticket \cup {NoRec}
                                    /\ [v EXCEPT !.exp = 0] \in Ticket \cup {NoRec}
  /\ \A r \in Rec \cup {NoRec} : [r EXCEPT !.exp = 0] \in Rec \cup {NoRec}
  <1>1. [NoRec EXCEPT !.told = TRUE] = NoRec /\ [NoRec EXCEPT !.exp = 0] = NoRec
    BY DEF NoRec
  <1>2. \A v \in Ticket : [v EXCEPT !.told = TRUE] \in Ticket /\ [v EXCEPT !.exp = 0] \in Ticket
    BY DEF Ticket
  <1>3. \A r \in Rec : [r EXCEPT !.exp = 0] \in Rec
    BY DEF Rec
  <1> QED BY <1>1, <1>2, <1>3

LEMMA TypeInit == Init => TypeOK
  <1> SUFFICES ASSUME Init PROVE TypeOK
    OBVIOUS
  <1>1. req \in [Requests -> Request]
    BY IdleTyped DEF Init
  <1> QED BY <1>1 DEF Init, TypeOK, Vias

LEMMA TypeStep == TypeOK /\ [Next]_vars => TypeOK'
  <1> SUFFICES ASSUME TypeOK, [Next]_vars PROVE TypeOK'
    OBVIOUS
  <1> USE Lifetimes
  <1>1. CASE UNCHANGED vars
    BY <1>1 DEF vars, TypeOK
  <1>2. CASE Tick
    BY <1>2 DEF Tick, TypeOK, cacheVars
  <1>3. ASSUME NEW c \in Codes, NEW a \in Apps, Start(c, a) PROVE TypeOK'
    <2> DEFINE rec == [app |-> a, ts |-> now, state |-> "wait", user |-> NoUser,
                       exp |-> now + CODE_TTL + GRACE]
    <2>1. rec \in Rec /\ now + CODE_TTL + GRACE \in Nat
      BY DEF Rec, TypeOK
    <2>2. record' = [record EXCEPT ![c] = rec]
      BY <1>3 DEF Start
    <2> HIDE DEF rec
    <2> QED BY <1>3, <2>1, <2>2 DEF Start, TypeOK
  <1>4. ASSUME NEW q \in Requests, NEW c \in Codes, StatusRead(q, c) PROVE TypeOK'
    <2>1. record[c] \in Rec
      BY <1>4 DEF StatusRead, TypeOK, Live, NoRec
    <2> DEFINE s == [at |-> "status", code |-> c, rec |-> record[c], since |-> now]
    <2>2. s \in Request
      BY <1>4, <2>1 DEF Request, TypeOK, StatusRead, PollOk
    <2>3. req' = [req EXCEPT ![q] = s]
      BY <1>4 DEF StatusRead, Begin
    <2> HIDE DEF s
    <2> QED BY <1>4, <2>2, <2>3, RequestTyped DEF StatusRead, cacheVars
  <1>5. ASSUME NEW q \in Requests, NEW c \in Codes, NEW u \in Users, ApproveRead(q, c, u)
        PROVE  TypeOK'
    <2>1. record[c] \in Rec
      BY <1>5 DEF ApproveRead, TypeOK, Live, NoRec
    <2> DEFINE s == [at |-> "approve", code |-> c, rec |-> record[c], user |-> u, since |-> now]
    <2>2. s \in Request
      BY <2>1 DEF Request, TypeOK
    <2>3. req' = [req EXCEPT ![q] = s]
      BY <1>5 DEF ApproveRead, Begin
    <2> HIDE DEF s
    <2> QED BY <1>5, <2>2, <2>3, RequestTyped DEF ApproveRead, cacheVars
  <1>6. ASSUME NEW q \in Requests, NEW t \in Tickets, StatusIssue(q, t) PROVE TypeOK'
    <2> DEFINE c == req[q].code
               new == [user |-> req[q].rec.user, app |-> req[q].rec.app, via |-> "qr", ts |-> now,
                       exp |-> now + FINISH_TTL, code |-> c, told |-> FALSE]
               s == [at |-> "drop", code |-> c, token |-> t, since |-> req[q].since]
    <2>1. /\ c \in Codes /\ req[q].rec \in Rec /\ req[q].since \in Nat
          /\ req[q].rec.user \in Users
      BY <1>6, RequestFields DEF StatusIssue, At, Idle
    <2>2. new \in Ticket /\ s \in Request
      BY <2>1 DEF Ticket, Rec, Vias, Request, TypeOK
    <2>3. once' \subseteq [key : Key, exp : Nat]
      BY <1>6, <2>1, CountTyped DEF StatusIssue, Key
    <2>4. /\ ticket' \in {ticket, [ticket EXCEPT ![t] = new]}
          /\ req' \in {[req EXCEPT ![q] = s], [req EXCEPT ![q] = Idle]}
      BY <1>6 DEF StatusIssue, Goto, Done
    <2> HIDE DEF c, new, s
    <2> QED BY <1>6, <2>2, <2>3, <2>4, IdleTyped DEF StatusIssue, TypeOK
  <1>7. ASSUME NEW q \in Requests, StatusDrop(q) PROVE TypeOK'
    <2>1. req[q].code \in Codes /\ req[q].token \in Tickets
      BY <1>7, RequestFields DEF StatusDrop, At
    <2>2. /\ [ticket[req[q].token] EXCEPT !.told = TRUE] \in Ticket \cup {NoRec}
          /\ [record[req[q].code] EXCEPT !.exp = 0] \in Rec \cup {NoRec}
      BY <2>1, Rewritten DEF TypeOK
    <2>3. ticket' \in [Tickets -> Ticket \cup {NoRec}]
      BY <1>7, <2>1, <2>2 DEF StatusDrop, TypeOK
    <2>4. record' \in [Codes -> Rec \cup {NoRec}]
      BY <1>7, <2>1, <2>2 DEF StatusDrop, TypeOK
    <2>5. pollExp' \in [Codes -> Nat] /\ req' \in [Requests -> Request]
      BY <1>7, <2>1, IdleTyped DEF StatusDrop, Done, TypeOK
    <2> QED BY <1>7, <2>3, <2>4, <2>5 DEF StatusDrop, TypeOK
  <1>8. ASSUME NEW q \in Requests, ApproveOnce(q) PROVE TypeOK'
    <2>1. /\ req[q].code \in Codes
          /\ [req[q] EXCEPT !.at = "write"] \in Request
      BY <1>8, RequestFields DEF ApproveOnce, At, Request, Idle
    <2>2. once' \subseteq [key : Key, exp : Nat]
      BY <1>8, <2>1, CountTyped DEF ApproveOnce, Key, TypeOK
    <2>3. \E s \in Request : req' = [req EXCEPT ![q] = s]
      BY <1>8, <2>1, IdleTyped DEF ApproveOnce, Goto, Done
    <2> QED BY <1>8, <2>2, <2>3 DEF ApproveOnce, TypeOK
  <1>9. ASSUME NEW q \in Requests, ApproveWrite(q) PROVE TypeOK'
    <2> DEFINE r == req[q].rec
               new == [r EXCEPT !.state = "ok", !.user = req[q].user, !.exp = now + RemainingTtl(r)]
    <2>1. req[q].code \in Codes /\ r \in Rec /\ req[q].user \in Users
      BY <1>9, RequestFields DEF ApproveWrite, At
    <2>2. now + RemainingTtl(r) \in Nat
      BY <2>1 DEF RemainingTtl, Rec, TypeOK
    <2>3. new \in Rec
      BY <2>1, <2>2 DEF Rec
    <2>4. record' = [record EXCEPT ![req[q].code] = new]
      BY <1>9 DEF ApproveWrite
    <2> HIDE DEF r, new
    <2> QED BY <1>9, <2>1, <2>3, <2>4, IdleTyped DEF ApproveWrite, Done, TypeOK
  <1>10. ASSUME NEW u \in Users, NEW a \in Apps, NEW right \in BOOLEAN, NEW t \in Tickets,
                PasswordStart(u, a, right, t)
         PROVE  TypeOK'
    <2> DEFINE new == [user |-> u, app |-> a, via |-> "password", ts |-> now,
                       exp |-> now + FINISH_TTL, code |-> NoCode, told |-> TRUE]
    <2>1. new \in Ticket
      BY DEF Ticket, Vias, TypeOK
    <2>2. /\ ticket' \in {ticket, [ticket EXCEPT ![t] = new]}
          /\ fails' \in {[fails EXCEPT ![u] = @ + 1], [fails EXCEPT ![u] = 0]}
      BY <1>10 DEF PasswordStart
    <2> HIDE DEF new
    <2> QED BY <1>10, <2>1, <2>2 DEF PasswordStart, TypeOK
  <1>11. ASSUME NEW q \in Requests, NEW t \in Tickets, NEW a \in Apps, FinishOnce(q, t, a)
         PROVE  TypeOK'
    <2>1. once' \subseteq [key : Key, exp : Nat]
      BY <1>11, CountTyped DEF FinishOnce, Key
    <2>2. [at |-> "take", token |-> t, app |-> a, since |-> now] \in Request
      BY DEF Request, TypeOK
    <2> QED BY <1>11, <2>1, <2>2 DEF FinishOnce, Begin, TypeOK
  <1>12. ASSUME NEW q \in Requests, FinishTake(q) PROVE TypeOK'
    <2> DEFINE t == req[q].token
               s == [at |-> "login", app |-> req[q].app, rec |-> ticket[t], since |-> req[q].since]
    <2>1. t \in Tickets /\ req[q].app \in Apps /\ req[q].since \in Nat
      BY <1>12, RequestFields DEF FinishTake, At, Idle
    <2>2. [ticket[t] EXCEPT !.exp = 0] \in Ticket \cup {NoRec}
      BY <2>1, Rewritten DEF TypeOK
    <2>3. Live(ticket[t]) => s \in Request
      BY <2>1 DEF Live, NoRec, TypeOK, Request
    <2>4. \E v \in Request : req' = [req EXCEPT ![q] = v]
      BY <1>12, <2>3, IdleTyped DEF FinishTake, Goto, Done
    <2> HIDE DEF s
    <2> QED BY <1>12, <2>1, <2>2, <2>4 DEF FinishTake, TypeOK
  <1>13. ASSUME NEW q \in Requests, FinishLogin(q) PROVE TypeOK'
    <2> DEFINE r == req[q].rec
               new == [user |-> r.user, app |-> r.app, via |-> r.via, code |-> r.code, at |-> now,
                       by |-> q]
    <2>1. r \in Ticket
      BY <1>13, RequestFields DEF FinishLogin, At
    <2>2. new \in [user : Users, app : Apps, via : Vias, code : Codes \cup {NoCode},
                   at : Nat, by : Requests]
      BY <2>1 DEF Ticket, TypeOK
    <2>3. sessions' \in {sessions, sessions \cup {new}}
      BY <1>13 DEF FinishLogin
    <2> HIDE DEF new, r
    <2> QED BY <1>13, <2>2, <2>3, IdleTyped DEF FinishLogin, Done, TypeOK
  <1>14. ASSUME NEW q \in Requests, Crash(q) PROVE TypeOK'
    BY <1>14, IdleTyped DEF Crash, Done, TypeOK
  <1>15. ASSUME NEW a \in Apps, NEW v \in Vias, SwitchOff(a, v) PROVE TypeOK'
    BY <1>15 DEF SwitchOff, TypeOK, cacheVars
  <1>16. ASSUME NEW u \in Users, LeaveCompany(u) PROVE TypeOK'
    BY <1>16 DEF LeaveCompany, TypeOK, cacheVars
  <1> QED BY <1>1, <1>2, <1>3, <1>4, <1>5, <1>6, <1>7, <1>8, <1>9, <1>10, <1>11, <1>12, <1>13,
             <1>14, <1>15, <1>16 DEF Next

-----------------------------------------------------------------------------
(* The inductive invariant.  A counter of a code lives longer than the requests that     *)
(* read the code before it was raised, so none of them gets past it; the counter of a    *)
(* ticket lives as long as the ticket.                                                   *)

Ok(c) == record[c] # NoRec /\ record[c].state = "ok"

\* A counter that lives at least until e.
Until(key, e) == \E o \in once : o.key = key /\ o.exp >= e

Told(t, c) == ticket[t] # NoRec /\ ticket[t].code = c /\ ticket[t].told
Dropped(c) == \E t \in Tickets : Told(t, c)
Used(c)    == \E t \in Tickets : Told(t, c) /\ ticket[t].exp = 0

Timely == \A q \in Requests : req[q] # Idle => req[q].since <= now /\ now <= req[q].since + 1

\* One request confirms a code: who passed the counter writes while no other can pass it,
\* and who read the code before it was confirmed finds the counter raised.
ApprovalOf(q) ==
  /\ At(q, "write") => /\ req[q].rec.state = "wait" /\ ~Ok(req[q].code)
                       /\ Until(<<"a", req[q].code>>, req[q].since + CODE_TTL)
  /\ At(q, "approve") /\ req[q].rec.state = "wait" /\ Ok(req[q].code)
     => Until(<<"a", req[q].code>>, req[q].since + CODE_TTL - 1)
OneWriter ==
  \A q, r \in Requests : At(q, "write") /\ At(r, "write") /\ req[q].code = req[r].code => q = r
ConfirmedIsOk ==
  /\ \A c \in Codes, u \in Users :
       [code |-> c, user |-> u] \in confirmed <=> Ok(c) /\ record[c].user = u
  /\ \A c \in Codes : Ok(c) => record[c].user \in Users
OneApproval == (\A q \in Requests : ApprovalOf(q)) /\ OneWriter /\ ConfirmedIsOk

\* One ticket of a code is told to the browser, in the name of who confirmed it.
PollOf(q) ==
  /\ At(q, "status") => /\ Ok(req[q].code) /\ req[q].rec.user = record[req[q].code].user
                        /\ Dropped(req[q].code)
                           => Until(<<"p", req[q].code>>, req[q].since + CODE_TTL - 1)
  /\ At(q, "drop") => /\ ticket[req[q].token] # NoRec
                      /\ ticket[req[q].token].code = req[q].code
                      /\ ~ticket[req[q].token].told /\ ~Dropped(req[q].code)
                      /\ Until(<<"p", req[q].code>>, req[q].since + CODE_TTL)
OneDrop ==
  \A q, r \in Requests : At(q, "drop") /\ At(r, "drop") /\ req[q].code = req[r].code => q = r
DroppedIsGone == \A c \in Codes : Dropped(c) => record[c].exp = 0
OneTold == \A c \in Codes : \A t, v \in Tickets : Told(t, c) /\ Told(v, c) => t = v
TicketOf(t) == ticket[t] # NoRec /\ ticket[t].code \in Codes
               => Ok(ticket[t].code) /\ ticket[t].user = record[ticket[t].code].user
OneTicket == /\ \A q \in Requests : PollOf(q)
             /\ OneDrop /\ DroppedIsGone /\ OneTold
             /\ \A t \in Tickets : TicketOf(t)

\* One session comes of it.
NotLonger == \A t \in Tickets : ticket[t] # NoRec => ticket[t].exp <= now + FINISH_TTL
EntryOf(q) ==
  /\ At(q, "take") =>
       /\ ticket[req[q].token] # NoRec /\ ticket[req[q].token].told
       /\ Live(ticket[req[q].token]) => Until(<<"f", req[q].token>>, ticket[req[q].token].exp)
  /\ At(q, "login") /\ req[q].rec.code \in Codes =>
       /\ Ok(req[q].rec.code) /\ req[q].rec.user = record[req[q].rec.code].user
       /\ Used(req[q].rec.code)
       /\ \A s \in sessions : s.code # req[q].rec.code
OneTake ==
  \A q, r \in Requests : At(q, "take") /\ At(r, "take") /\ req[q].token = req[r].token /\ q # r
                        => ~Live(ticket[req[q].token])
OneLogin ==
  \A q, r \in Requests : At(q, "login") /\ At(r, "login") /\ req[q].rec.code = req[r].rec.code
                        /\ req[q].rec.code \in Codes => q = r
SessionOf(s) == s.code \in Codes => Ok(s.code) /\ s.user = record[s.code].user /\ Used(s.code)
OneSession == \A s, v \in sessions : s.code = v.code /\ s.code \in Codes => s = v
OneEntry == /\ NotLonger
            /\ \A q \in Requests : EntryOf(q)
            /\ OneTake /\ OneLogin
            /\ \A s \in sessions : SessionOf(s)
            /\ OneSession

IInv == TypeOK /\ Timely /\ OneApproval /\ OneTicket /\ OneEntry

-----------------------------------------------------------------------------
(* Lemmas about the counters and about what the steps leave alone. *)

KeepsUntil == \A key, e : e \in Int /\ e > now /\ Until(key, e) => Until(key, e)'

\* A counter that is alive is not raised again, and stays when another one is.
LEMMA CountKeeps ==
  ASSUME TypeOK, NEW key, NEW ttl, Count(key, ttl)
  PROVE  KeepsUntil
  <1> SUFFICES ASSUME NEW k, NEW e \in Int, e > now, Until(k, e)
               PROVE  Until(k, e)'
    BY DEF KeepsUntil
  <1>1. PICK o \in once : o.key = k /\ o.exp >= e
    BY DEF Until
  <1>2. o.exp \in Nat /\ now \in Nat
    BY DEF TypeOK
  <1>3. Live(o)
    BY <1>1, <1>2 DEF Live
  <1>4. o \in once'
    BY <1>3 DEF Count
  <1> QED BY <1>1, <1>4 DEF Until

\* Who gets past a counter raises it.
LEMMA CountRaises ==
  ASSUME TypeOK, NEW key, NEW ttl \in Nat, First(key), Count(key, ttl), NEW e, e = now + ttl
  PROVE  Until(key, e)'
  <1> DEFINE o == [key |-> key, exp |-> now + ttl]
  <1>1. o \in once' /\ o.key = key /\ o.exp = now + ttl /\ now + ttl \in Nat
    BY DEF Count, TypeOK
  <1> HIDE DEF o
  <1> QED BY <1>1 DEF Until, TypeOK

\* Nobody gets past a counter that is alive.
LEMMA FirstIsFree ==
  ASSUME TypeOK, NEW key, First(key), NEW e \in Int, e > now
  PROVE  ~Until(key, e)
  <1> SUFFICES ASSUME NEW o \in once, o.key = key, o.exp >= e PROVE FALSE
    BY DEF Until
  <1>1. o.exp \in Nat /\ now \in Nat
    BY DEF TypeOK
  <1> QED BY <1>1 DEF First, Live

\* No counter that is alive disappears.
LEMMA UntilStep ==
  ASSUME TypeOK, [Next]_vars
  PROVE  KeepsUntil
  <1>1. ASSUME once' = once
        PROVE  KeepsUntil
    BY <1>1 DEF KeepsUntil, Until
  <1>2. ASSUME NEW q \in Requests, NEW t \in Tickets, StatusIssue(q, t)
        PROVE  KeepsUntil
    BY <1>2, CountKeeps DEF StatusIssue
  <1>3. ASSUME NEW q \in Requests, ApproveOnce(q)
        PROVE  KeepsUntil
    BY <1>1, <1>3, CountKeeps DEF ApproveOnce
  <1>4. ASSUME NEW q \in Requests, NEW t \in Tickets, NEW a \in Apps, FinishOnce(q, t, a)
        PROVE  KeepsUntil
    BY <1>4, CountKeeps DEF FinishOnce
  <1>5. ASSUME NEW q \in Requests, NEW c \in Codes,
               \/ StatusRead(q, c) \/ (\E u \in Users : ApproveRead(q, c, u)) \/ StatusDrop(q)
               \/ ApproveWrite(q) \/ FinishTake(q) \/ FinishLogin(q) \/ Crash(q)
        PROVE  once' = once
    BY <1>5 DEF StatusRead, ApproveRead, StatusDrop, ApproveWrite, FinishTake, FinishLogin, Crash
  <1>6. CASE \E q \in Requests :
               StatusDrop(q) \/ ApproveWrite(q) \/ FinishTake(q) \/ FinishLogin(q) \/ Crash(q)
    BY <1>1, <1>6 DEF StatusDrop, ApproveWrite, FinishTake, FinishLogin, Crash
  <1>7. CASE \/ Tick \/ (\E c \in Codes, a \in Apps : Start(c, a))
             \/ (\E u \in Users, a \in Apps, right \in BOOLEAN, t \in Tickets :
                    PasswordStart(u, a, right, t))
             \/ (\E a \in Apps, v \in Vias : SwitchOff(a, v)) \/ (\E u \in Users : LeaveCompany(u))
    BY <1>1, <1>7 DEF Tick, Start, PasswordStart, SwitchOff, LeaveCompany, cacheVars
  <1>8. CASE UNCHANGED vars
    BY <1>1, <1>8 DEF vars
  <1> QED BY <1>1, <1>2, <1>3, <1>4, <1>5, <1>6, <1>7, <1>8 DEF Next

\* A step moves one request at most, and one that begins begins now.
LEMMA TimelyStep ==
  ASSUME TypeOK, Timely, [Next]_vars
  PROVE  Timely'
  <1> USE DEF Timely
  <1>1. ASSUME NEW q \in Requests, now' = now, NEW s, req' = [req EXCEPT ![q] = s],
               s = Idle \/ s.since = now \/ (req[q] # Idle /\ s.since = req[q].since)
        PROVE  Timely'
    <2>1. now \in Nat
      BY DEF TypeOK
    <2>2. \A r \in Requests : req'[r] = IF r = q THEN s ELSE req[r]
      BY <1>1 DEF TypeOK
    <2> QED BY <1>1, <2>1, <2>2
  <1>2. ASSUME UNCHANGED <<now, req>>
        PROVE  Timely'
    BY <1>2
  <1>3. CASE UNCHANGED vars
    BY <1>2, <1>3 DEF vars
  <1>4. CASE Tick
    <2>1. \A q \in Requests : req[q] # Idle => req[q].since = now
      BY <1>4 DEF Tick, InFlight
    <2>2. now' = now + 1 /\ req' = req /\ now \in Nat
      BY <1>4 DEF Tick, TypeOK
    <2> QED BY <2>1, <2>2
  <1>5. CASE \/ (\E c \in Codes, a \in Apps : Start(c, a))
             \/ (\E u \in Users, a \in Apps, right \in BOOLEAN, t \in Tickets :
                    PasswordStart(u, a, right, t))
             \/ (\E a \in Apps, v \in Vias : SwitchOff(a, v)) \/ (\E u \in Users : LeaveCompany(u))
    BY <1>2, <1>5 DEF Start, PasswordStart, SwitchOff, LeaveCompany
  <1>6. ASSUME NEW q \in Requests, NEW c \in Codes,
               StatusRead(q, c) \/ \E u \in Users : ApproveRead(q, c, u)
        PROVE  Timely'
    BY <1>1, <1>6 DEF StatusRead, ApproveRead, Begin
  <1>7. ASSUME NEW q \in Requests, NEW t \in Tickets, NEW a \in Apps, FinishOnce(q, t, a)
        PROVE  Timely'
    BY <1>1, <1>2, <1>7 DEF FinishOnce, Begin
  <1>8. ASSUME NEW q \in Requests, NEW t \in Tickets, StatusIssue(q, t)
        PROVE  Timely'
    <2>1. req[q] # Idle /\ now' = now
      BY <1>8 DEF StatusIssue, Idle
    <2> QED BY <1>1, <1>8, <2>1 DEF StatusIssue, Goto, Done
  <1>9. ASSUME NEW q \in Requests, ApproveOnce(q)
        PROVE  Timely'
    <2>1. req[q] # Idle /\ now' = now
      BY <1>9 DEF ApproveOnce, Idle
    <2>2. [req[q] EXCEPT !.at = "write"].since = req[q].since
      BY <1>9, RequestFields DEF ApproveOnce, Request, Idle
    <2> QED BY <1>1, <1>9, <2>1, <2>2 DEF ApproveOnce, Goto, Done
  <1>10. ASSUME NEW q \in Requests, FinishTake(q)
         PROVE  Timely'
    <2>1. req[q] # Idle /\ now' = now
      BY <1>10 DEF FinishTake, Idle
    <2> QED BY <1>1, <1>10, <2>1 DEF FinishTake, Goto, Done
  <1>11. ASSUME NEW q \in Requests, StatusDrop(q) \/ ApproveWrite(q) \/ FinishLogin(q) \/ Crash(q)
         PROVE  Timely'
    BY <1>1, <1>11 DEF StatusDrop, ApproveWrite, FinishLogin, Crash, Done
  <1> QED BY <1>3, <1>4, <1>5, <1>6, <1>7, <1>8, <1>9, <1>10, <1>11 DEF Next

\* Who confirmed a code stays known, and only a confirmation makes it known.
OkKept == \A c \in Codes : Ok(c) => Ok(c)' /\ record'[c].user = record[c].user
SameOk == OkKept /\ \A c \in Codes : Ok(c)' => Ok(c)

LEMMA SameRecord == ASSUME UNCHANGED record PROVE SameOk
  BY DEF SameOk, OkKept, Ok

LEMMA StartOk ==
  ASSUME TypeOK, NEW c \in Codes, NEW a \in Apps, Start(c, a)
  PROVE  SameOk
  <1>1. /\ record[c] = NoRec /\ record \in [Codes -> Rec \cup {NoRec}]
        /\ record' = [record EXCEPT ![c] = [app |-> a, ts |-> now, state |-> "wait",
                         user |-> NoUser, exp |-> now + CODE_TTL + GRACE]]
    BY DEF Start, TypeOK
  <1> QED BY <1>1 DEF SameOk, OkKept, Ok

LEMMA DropOk ==
  ASSUME TypeOK, NEW q \in Requests, StatusDrop(q)
  PROVE  SameOk
  <1>1. /\ record \in [Codes -> Rec \cup {NoRec}]
        /\ record' = [record EXCEPT ![req[q].code] = [record[req[q].code] EXCEPT !.exp = 0]]
    BY DEF StatusDrop, TypeOK
  <1>2. \A r \in Rec : /\ [r EXCEPT !.exp = 0].state = r.state /\ [r EXCEPT !.exp = 0].user = r.user
                       /\ [r EXCEPT !.exp = 0] \in Rec
    BY DEF Rec
  <1>3. [NoRec EXCEPT !.exp = 0] = NoRec /\ NoRec \notin Rec
    BY DEF NoRec, Rec
  <1> QED BY <1>1, <1>2, <1>3 DEF SameOk, OkKept, Ok

\* What a confirmation writes.
LEMMA WriteOk ==
  ASSUME TypeOK, NEW q \in Requests, ApproveWrite(q), NEW c, c = req[q].code
  PROVE  /\ c \in Codes /\ req[q].user \in Users
         /\ Ok(c)' /\ record'[c].user = req[q].user
         /\ \A d \in Codes \ {c} : record'[d] = record[d]
         /\ req' = [req EXCEPT ![q] = Idle]
  <1> DEFINE r == req[q].rec
             new == [r EXCEPT !.state = "ok", !.user = req[q].user, !.exp = now + RemainingTtl(r)]
  <1>1. r \in Rec /\ c \in Codes /\ req[q].user \in Users
    BY RequestFields DEF ApproveWrite, At
  <1>2. record' = [record EXCEPT ![c] = new] /\ req' = [req EXCEPT ![q] = Idle]
    BY DEF ApproveWrite, Done
  <1>3. now + RemainingTtl(r) \in Nat
    BY <1>1, Lifetimes DEF RemainingTtl, Rec, TypeOK
  <1>4. new \in Rec /\ new.state = "ok" /\ new.user = req[q].user
    BY <1>1, <1>3 DEF Rec
  <1>5. NoRec \notin Rec
    BY DEF NoRec, Rec
  <1> HIDE DEF new, r
  <1>6. record'[c] = new /\ \A d \in Codes \ {c} : record'[d] = record[d]
    BY <1>1, <1>2 DEF TypeOK
  <1> QED BY <1>1, <1>2, <1>4, <1>5, <1>6 DEF Ok

-----------------------------------------------------------------------------
(* One approval. *)

\* A step that confirms nothing and starts no approval.
LEMMA ApprovalFrame ==
  ASSUME TypeOK, Timely, OneApproval, SameOk, KeepsUntil, confirmed' = confirmed,
         \A q \in Requests : req'[q] = req[q] \/ ~(At(q, "approve") \/ At(q, "write"))'
  PROVE  OneApproval'
  <1>1. ASSUME NEW q \in Requests PROVE ApprovalOf(q)'
    <2>1. CASE req'[q] = req[q] /\ (At(q, "approve") \/ At(q, "write"))
      <3>1. PICK c : c = req[q].code
        OBVIOUS
      <3>2. PICK d : d = req[q].since
        OBVIOUS
      <3>3. /\ c \in Codes /\ d \in Nat /\ now \in Nat /\ now <= d + 1
            /\ d + CODE_TTL \in Int /\ d + CODE_TTL > now
            /\ d + CODE_TTL - 1 \in Int /\ d + CODE_TTL - 1 > now
        BY <2>1, <3>1, <3>2, RequestFields, Lifetimes DEF Timely, TypeOK, At, Idle
      <3>4. /\ Until(<<"a", c>>, d + CODE_TTL) => Until(<<"a", c>>, d + CODE_TTL)'
            /\ Until(<<"a", c>>, d + CODE_TTL - 1) => Until(<<"a", c>>, d + CODE_TTL - 1)'
        BY <3>3 DEF KeepsUntil
      <3>5. ApprovalOf(q) /\ (Ok(c)' => Ok(c))
        BY <3>3 DEF OneApproval, SameOk
      <3> QED BY <2>1, <3>1, <3>2, <3>4, <3>5 DEF ApprovalOf, At, Ok, Until
    <2>2. CASE ~(At(q, "approve") \/ At(q, "write"))'
      BY <2>2 DEF ApprovalOf
    <2> QED BY <2>1, <2>2 DEF At
  <1>2. OneWriter'
    BY DEF OneWriter, OneApproval, At
  <1>3. ConfirmedIsOk'
    <2>1. \A c \in Codes : (Ok(c)' <=> Ok(c)) /\ (Ok(c) => record'[c].user = record[c].user)
      BY DEF SameOk, OkKept
    <2> QED BY <2>1 DEF ConfirmedIsOk, OneApproval, Ok
  <1> QED BY <1>1, <1>2, <1>3 DEF OneApproval

LEMMA ApprovalOfReading ==
  ASSUME TypeOK, Timely, OneApproval, KeepsUntil, NEW q \in Requests, NEW b \in Codes, NEW u \in Users,
         ApproveRead(q, b, u)
  PROVE  OneApproval'
  <1>1. /\ record' = record /\ confirmed' = confirmed /\ now' = now
        /\ record[b].state = "wait" => ~Ok(b)
        /\ \A r \in Requests : req'[r] = IF r = q
              THEN [at |-> "approve", code |-> b, rec |-> record[b], user |-> u, since |-> now]
              ELSE req[r]
    BY DEF ApproveRead, Begin, TypeOK, Ok
  <1>2. ASSUME NEW r \in Requests, r # q, At(r, "approve") \/ At(r, "write") PROVE ApprovalOf(r)'
    <2>1. PICK c : c = req[r].code
      OBVIOUS
    <2>2. PICK d : d = req[r].since
      OBVIOUS
    <2>3. /\ c \in Codes /\ d \in Nat /\ now \in Nat /\ now <= d + 1
          /\ d + CODE_TTL \in Int /\ d + CODE_TTL > now
          /\ d + CODE_TTL - 1 \in Int /\ d + CODE_TTL - 1 > now
      BY <1>2, <2>1, <2>2, RequestFields, Lifetimes DEF Timely, TypeOK, At, Idle
    <2>4. /\ Until(<<"a", c>>, d + CODE_TTL) => Until(<<"a", c>>, d + CODE_TTL)'
          /\ Until(<<"a", c>>, d + CODE_TTL - 1) => Until(<<"a", c>>, d + CODE_TTL - 1)'
      BY <2>3 DEF KeepsUntil
    <2>5. ApprovalOf(r)
      BY DEF OneApproval
    <2> QED BY <1>1, <1>2, <2>1, <2>2, <2>4, <2>5 DEF ApprovalOf, At, Ok, Until
  <1>3. ASSUME NEW r \in Requests, r # q, ~(At(r, "approve") \/ At(r, "write")) PROVE ApprovalOf(r)'
    BY <1>1, <1>3 DEF ApprovalOf, At
  <1>4. ApprovalOf(q)'
    BY <1>1 DEF ApprovalOf, At, Ok
  <1>5. OneWriter'
    BY <1>1 DEF OneWriter, OneApproval, At
  <1>6. ConfirmedIsOk'
    BY <1>1 DEF ConfirmedIsOk, OneApproval, Ok
  <1> QED BY <1>2, <1>3, <1>4, <1>5, <1>6 DEF OneApproval

\* Who gets past the counter finds the code unconfirmed, and no other who got past it.
LEMMA ApprovalOfCounting ==
  ASSUME TypeOK, Timely, OneApproval, KeepsUntil, NEW q \in Requests, ApproveOnce(q)
  PROVE  OneApproval'
  <1> DEFINE mayApprove == /\ AgeOk(req[q].rec, CODE_TTL) /\ req[q].rec.state = "wait"
                           /\ req[q].rec.user = NoUser
  <1>0. /\ record' = record /\ confirmed' = confirmed /\ now' = now
        /\ SameOk
    BY SameRecord DEF ApproveOnce
  <1>1. CASE req' = [req EXCEPT ![q] = Idle]
    <2>1. \A r \in Requests : req'[r] = IF r = q THEN Idle ELSE req[r]
      BY <1>1 DEF TypeOK
    <2> QED BY <1>0, <2>1, ApprovalFrame DEF At, Idle
  <1>2. CASE /\ mayApprove /\ First(<<"a", req[q].code>>) /\ Count(<<"a", req[q].code>>, CODE_TTL)
             /\ req' = [req EXCEPT ![q] = [req[q] EXCEPT !.at = "write"]]
    <2>1. PICK c : c = req[q].code
      OBVIOUS
    <2>2. PICK d : d = req[q].since
      OBVIOUS
    <2>3. /\ At(q, "approve") /\ c \in Codes /\ d \in Nat /\ now \in Nat /\ d <= now /\ now <= d + 1
      BY <2>1, <2>2, RequestFields DEF ApproveOnce, Timely, TypeOK, At, Idle
    <2>4. PICK w : w = [req[q] EXCEPT !.at = "write"]
      OBVIOUS
    <2>5. /\ w.at = "write" /\ w.code = c /\ w.since = d /\ w.rec.state = "wait"
          /\ \A r \in Requests : req'[r] = IF r = q THEN w ELSE req[r]
      BY <1>2, <2>1, <2>2, <2>3, <2>4, RequestFields DEF TypeOK, Request, Idle, At
    <2>6. \A e \in Int : e > now => ~Until(<<"a", c>>, e)
      BY <1>2, <2>1, FirstIsFree
    <2>7. ~Ok(c)
      <3>1. d + CODE_TTL - 1 \in Int /\ d + CODE_TTL - 1 > now
        BY <2>3, Lifetimes
      <3>2. ApprovalOf(q)
        BY DEF OneApproval
      <3> QED BY <1>2, <2>1, <2>2, <2>3, <2>6, <3>1, <3>2 DEF ApprovalOf
    <2>8. ASSUME NEW r \in Requests, At(r, "write") PROVE req[r].code # c
      <3>1. req[r].since \in Nat /\ now <= req[r].since + 1
        BY <2>8, RequestFields DEF Timely, At, Idle
      <3>2. req[r].since + CODE_TTL \in Int /\ req[r].since + CODE_TTL > now
        BY <2>3, <3>1, Lifetimes
      <3>3. ApprovalOf(r)
        BY DEF OneApproval
      <3> QED BY <2>6, <2>8, <3>2, <3>3 DEF ApprovalOf
    <2>9. Until(<<"a", c>>, d + CODE_TTL)'
      <3>1. PICK e : e = now + CODE_TTL
        OBVIOUS
      <3>2. CODE_TTL \in Nat
        BY Lifetimes
      <3>3. Until(<<"a", c>>, e)'
        BY <1>2, <2>1, <3>1, <3>2, CountRaises
      <3>4. PICK o \in once' : o.key = <<"a", c>> /\ o.exp >= e
        BY <3>3 DEF Until
      <3>5. o.exp \in Nat
        <4>1. once' \subseteq [key : Key, exp : Nat]
          <5>1. <<"a", c>> \in Key
            BY <2>3 DEF Key
          <5> QED BY <1>2, <2>1, <3>2, <5>1, CountTyped
        <4> QED BY <4>1
      <3>6. o.exp >= d + CODE_TTL
        BY <2>3, <3>1, <3>2, <3>4, <3>5
      <3> QED BY <3>4, <3>6 DEF Until
    <2>10. ApprovalOf(q)'
      BY <1>0, <2>5, <2>7, <2>9 DEF ApprovalOf, At, Ok, Until
    <2>11. ASSUME NEW r \in Requests, r # q, At(r, "approve") \/ At(r, "write") PROVE ApprovalOf(r)'
      <3>1. PICK b : b = req[r].code
        OBVIOUS
      <3>2. PICK s : s = req[r].since
        OBVIOUS
      <3>3. /\ b \in Codes /\ s \in Nat /\ now <= s + 1
            /\ s + CODE_TTL \in Int /\ s + CODE_TTL > now
            /\ s + CODE_TTL - 1 \in Int /\ s + CODE_TTL - 1 > now
        BY <2>3, <2>11, <3>1, <3>2, RequestFields, Lifetimes DEF Timely, TypeOK, At, Idle
      <3>4. /\ Until(<<"a", b>>, s + CODE_TTL) => Until(<<"a", b>>, s + CODE_TTL)'
            /\ Until(<<"a", b>>, s + CODE_TTL - 1) => Until(<<"a", b>>, s + CODE_TTL - 1)'
        BY <3>3 DEF KeepsUntil
      <3>5. ApprovalOf(r)
        BY DEF OneApproval
      <3>6. req'[r] = req[r]
        BY <2>5, <2>11
      <3> QED BY <1>0, <2>11, <3>1, <3>2, <3>4, <3>5, <3>6 DEF ApprovalOf, At, Ok, Until
    <2>12. ASSUME NEW r \in Requests, r # q, ~(At(r, "approve") \/ At(r, "write")) PROVE ApprovalOf(r)'
      BY <2>5, <2>12 DEF ApprovalOf, At
    <2>13. OneWriter'
      BY <2>5, <2>8 DEF OneWriter, OneApproval, At
    <2>14. ConfirmedIsOk'
      BY <1>0 DEF ConfirmedIsOk, OneApproval, Ok
    <2> QED BY <2>10, <2>11, <2>12, <2>13, <2>14 DEF OneApproval
  <1> QED BY <1>1, <1>2 DEF ApproveOnce, Goto, Done

\* A confirmation is the code's first, and who read it before finds the counter raised.
LEMMA ApprovalOfWriting ==
  ASSUME TypeOK, Timely, OneApproval, KeepsUntil, NEW q \in Requests, ApproveWrite(q)
  PROVE  OneApproval'
  <1>1. PICK c : c = req[q].code
    OBVIOUS
  <1>2. PICK u : u = req[q].user
    OBVIOUS
  <1>3. PICK d : d = req[q].since
    OBVIOUS
  <1>4. /\ At(q, "write") /\ once' = once /\ now' = now
        /\ confirmed' = confirmed \cup {[code |-> c, user |-> u]}
        /\ d \in Nat /\ now \in Nat /\ d <= now /\ now <= d + 1
    BY <1>1, <1>2, <1>3, RequestFields DEF ApproveWrite, At, Timely, TypeOK, Idle
  <1>5. /\ c \in Codes /\ u \in Users /\ Ok(c)' /\ record'[c].user = u
        /\ \A b \in Codes \ {c} : record'[b] = record[b]
        /\ \A r \in Requests : req'[r] = IF r = q THEN Idle ELSE req[r]
    BY <1>1, <1>2, WriteOk DEF TypeOK
  <1>6. ~Ok(c) /\ Until(<<"a", c>>, d + CODE_TTL)
    BY <1>1, <1>3, <1>4 DEF OneApproval, ApprovalOf
  <1>7. ASSUME NEW r \in Requests, r # q, At(r, "write") PROVE ApprovalOf(r)'
    <2>1. req[r].code # c /\ req[r].code \in Codes /\ req'[r] = req[r]
      BY <1>1, <1>4, <1>5, <1>7, RequestFields DEF OneApproval, OneWriter
    <2>2. ApprovalOf(r)
      BY DEF OneApproval
    <2> QED BY <1>4, <1>5, <1>7, <2>1, <2>2 DEF ApprovalOf, At, Ok, Until
  <1>8. ASSUME NEW r \in Requests, r # q, At(r, "approve") PROVE ApprovalOf(r)'
    <2>1. PICK b : b = req[r].code
      OBVIOUS
    <2>2. PICK s : s = req[r].since
      OBVIOUS
    <2>3. b \in Codes /\ s \in Nat /\ s <= now /\ req'[r] = req[r]
      BY <1>5, <1>8, <2>1, <2>2, RequestFields DEF Timely, At, Idle
    <2>4. CASE b # c
      <3>1. ApprovalOf(r)
        BY DEF OneApproval
      <3> QED BY <1>4, <1>5, <1>8, <2>1, <2>3, <2>4, <3>1 DEF ApprovalOf, At, Ok, Until
    <2>5. CASE b = c
      <3>1. PICK o \in once : o.key = <<"a", c>> /\ o.exp >= d + CODE_TTL
        BY <1>6 DEF Until
      <3>2. o.exp \in Nat
        BY DEF TypeOK
      <3>3. o.exp >= s + CODE_TTL - 1
        BY <1>4, <2>3, <3>1, <3>2, Lifetimes
      <3> QED BY <1>4, <1>8, <2>1, <2>2, <2>3, <2>5, <3>1, <3>3 DEF ApprovalOf, At, Until
    <2> QED BY <2>4, <2>5
  <1>9. ASSUME NEW r \in Requests, r = q \/ ~(At(r, "approve") \/ At(r, "write")) PROVE ApprovalOf(r)'
    BY <1>5, <1>9 DEF ApprovalOf, At, Idle
  <1>10. OneWriter'
    BY <1>5 DEF OneWriter, OneApproval, At, Idle
  <1>11. ConfirmedIsOk'
    <2>1. ASSUME NEW b \in Codes, NEW v \in Users
          PROVE  [code |-> b, user |-> v] \in confirmed' <=> Ok(b)' /\ record'[b].user = v
      <3>1. [code |-> b, user |-> v] \in confirmed <=> Ok(b) /\ record[b].user = v
        BY DEF OneApproval, ConfirmedIsOk
      <3>2. CASE b = c
        BY <1>4, <1>5, <1>6, <3>1, <3>2
      <3>3. CASE b # c
        BY <1>4, <1>5, <3>1, <3>3 DEF Ok
      <3> QED BY <3>2, <3>3
    <2>2. ASSUME NEW b \in Codes, Ok(b)' PROVE record'[b].user \in Users
      BY <1>5, <2>2 DEF Ok, OneApproval, ConfirmedIsOk
    <2> QED BY <2>1, <2>2 DEF ConfirmedIsOk
  <1> QED BY <1>7, <1>8, <1>9, <1>10, <1>11 DEF OneApproval

\* What each step does to the requests: at most one moves.
LEMMA Moved ==
  ASSUME TypeOK, NEW q \in Requests, NEW s, req' = [req EXCEPT ![q] = s]
  PROVE  \A r \in Requests : req'[r] = IF r = q THEN s ELSE req[r]
  BY DEF TypeOK

LEMMA ApprovalStep ==
  ASSUME TypeOK, Timely, OneApproval, [Next]_vars
  PROVE  OneApproval'
  <1>0. KeepsUntil
    BY UntilStep
  <1>1. ASSUME SameOk, confirmed' = confirmed, req' = req
        PROVE  OneApproval'
    BY <1>0, <1>1, ApprovalFrame
  <1>2. ASSUME SameOk, confirmed' = confirmed, NEW q \in Requests, NEW s,
               req' = [req EXCEPT ![q] = s], s.at \notin {"approve", "write"}
        PROVE  OneApproval'
    BY <1>0, <1>2, Moved, ApprovalFrame DEF At
  <1>3. CASE UNCHANGED vars
    BY <1>1, <1>3, SameRecord DEF vars
  <1>4. CASE \/ Tick
             \/ (\E u \in Users, a \in Apps, right \in BOOLEAN, t \in Tickets :
                    PasswordStart(u, a, right, t))
             \/ (\E a \in Apps, v \in Vias : SwitchOff(a, v)) \/ (\E u \in Users : LeaveCompany(u))
    BY <1>1, <1>4, SameRecord DEF Tick, PasswordStart, SwitchOff, LeaveCompany, cacheVars
  <1>5. ASSUME NEW c \in Codes, NEW a \in Apps, Start(c, a)
        PROVE  OneApproval'
    BY <1>1, <1>5, StartOk DEF Start
  <1>6. ASSUME NEW q \in Requests, NEW c \in Codes, StatusRead(q, c)
        PROVE  OneApproval'
    BY <1>2, <1>6, SameRecord DEF StatusRead, Begin
  <1>7. ASSUME NEW q \in Requests, NEW c \in Codes, NEW u \in Users, ApproveRead(q, c, u)
        PROVE  OneApproval'
    BY <1>0, <1>7, ApprovalOfReading
  <1>8. ASSUME NEW q \in Requests, NEW t \in Tickets, StatusIssue(q, t)
        PROVE  OneApproval'
    BY <1>2, <1>8, SameRecord DEF StatusIssue, Goto, Done, Idle
  <1>9. ASSUME NEW q \in Requests, NEW t \in Tickets, NEW a \in Apps, FinishOnce(q, t, a)
        PROVE  OneApproval'
    BY <1>1, <1>2, <1>9, SameRecord DEF FinishOnce, Begin
  <1>10. ASSUME NEW q \in Requests, StatusDrop(q)
         PROVE  OneApproval'
    <2>1. SameOk
      BY <1>10, DropOk
    <2> QED BY <1>2, <1>10, <2>1 DEF StatusDrop, Done, Idle
  <1>11. ASSUME NEW q \in Requests, ApproveOnce(q)
         PROVE  OneApproval'
    BY <1>0, <1>11, ApprovalOfCounting
  <1>12. ASSUME NEW q \in Requests, ApproveWrite(q)
         PROVE  OneApproval'
    BY <1>0, <1>12, ApprovalOfWriting
  <1>13. ASSUME NEW q \in Requests, FinishTake(q)
         PROVE  OneApproval'
    BY <1>2, <1>13, SameRecord DEF FinishTake, Goto, Done, Idle
  <1>14. ASSUME NEW q \in Requests, FinishLogin(q) \/ Crash(q)
         PROVE  OneApproval'
    BY <1>2, <1>14, SameRecord DEF FinishLogin, Crash, Done, Idle
  <1> QED BY <1>3, <1>4, <1>5, <1>6, <1>7, <1>8, <1>9, <1>10, <1>11, <1>12, <1>13, <1>14 DEF Next

-----------------------------------------------------------------------------
(* One ticket. *)

\* No step makes a confirmed code unconfirmed, or another employee's.
LEMMA OkStep ==
  ASSUME TypeOK, OneApproval, [Next]_vars
  PROVE  OkKept
  <1>1. ASSUME record' = record PROVE OkKept
    BY <1>1, SameRecord DEF SameOk
  <1>2. ASSUME NEW c \in Codes, NEW a \in Apps, Start(c, a) PROVE OkKept
    BY <1>2, StartOk DEF SameOk
  <1>3. ASSUME NEW q \in Requests, StatusDrop(q) PROVE OkKept
    BY <1>3, DropOk DEF SameOk
  <1>4. ASSUME NEW q \in Requests, ApproveWrite(q) PROVE OkKept
    <2>1. PICK c : c = req[q].code
      OBVIOUS
    <2>2. ~Ok(c)
      BY <1>4, <2>1 DEF OneApproval, ApprovalOf, ApproveWrite, At
    <2>3. \A d \in Codes \ {c} : record'[d] = record[d]
      BY <1>4, <2>1, WriteOk
    <2> QED BY <2>2, <2>3 DEF OkKept, Ok
  <1>5. ASSUME NEW q \in Requests,
               \/ \E c \in Codes : StatusRead(q, c) \/ \E u \in Users : ApproveRead(q, c, u)
               \/ \E t \in Tickets : StatusIssue(q, t) \/ \E a \in Apps : FinishOnce(q, t, a)
               \/ ApproveOnce(q) \/ FinishTake(q) \/ FinishLogin(q) \/ Crash(q)
        PROVE  OkKept
    BY <1>1, <1>5 DEF StatusRead, ApproveRead, StatusIssue, FinishOnce, ApproveOnce, FinishTake,
                      FinishLogin, Crash
  <1>6. CASE \/ Tick \/ UNCHANGED vars
             \/ (\E u \in Users, a \in Apps, right \in BOOLEAN, t \in Tickets :
                    PasswordStart(u, a, right, t))
             \/ (\E a \in Apps, v \in Vias : SwitchOff(a, v)) \/ (\E u \in Users : LeaveCompany(u))
    BY <1>1, <1>6 DEF Tick, PasswordStart, SwitchOff, LeaveCompany, cacheVars, vars
  <1> QED BY <1>2, <1>3, <1>4, <1>5, <1>6 DEF Next

TicketKept(t) ==
  ticket[t] # NoRec => /\ ticket'[t] # NoRec /\ ticket'[t].code = ticket[t].code
                       /\ ticket'[t].user = ticket[t].user /\ ticket'[t].told = ticket[t].told

\* A request of a page that does not move, while no ticket of its code is told.
LEMMA PollOfKept ==
  ASSUME TypeOK, Timely, OneTicket, OkKept, KeepsUntil, NEW q \in Requests, req'[q] = req[q],
         NEW c, c = req[q].code, Dropped(c)' => Dropped(c),
         At(q, "drop") => TicketKept(req[q].token)
  PROVE  PollOf(q)'
  <1>1. CASE ~(At(q, "status") \/ At(q, "drop"))
    BY <1>1 DEF PollOf, At
  <1>2. CASE At(q, "status") \/ At(q, "drop")
    <2>1. PICK d : d = req[q].since
      OBVIOUS
    <2>2. /\ c \in Codes /\ d \in Nat /\ now \in Nat /\ now <= d + 1
          /\ d + CODE_TTL \in Int /\ d + CODE_TTL > now
          /\ d + CODE_TTL - 1 \in Int /\ d + CODE_TTL - 1 > now
      BY <1>2, <2>1, RequestFields, Lifetimes DEF Timely, TypeOK, At, Idle
    <2>3. /\ Until(<<"p", c>>, d + CODE_TTL) => Until(<<"p", c>>, d + CODE_TTL)'
          /\ Until(<<"p", c>>, d + CODE_TTL - 1) => Until(<<"p", c>>, d + CODE_TTL - 1)'
      BY <2>2 DEF KeepsUntil
    <2>4. PollOf(q) /\ (Ok(c) => Ok(c)' /\ record'[c].user = record[c].user)
      BY <2>2 DEF OneTicket, OkKept
    <2>5. CASE At(q, "status")
      BY <2>1, <2>2, <2>3, <2>4, <2>5 DEF PollOf, At, Ok, Until, Dropped, Told
    <2>6. CASE At(q, "drop")
      <3>1. PICK t \in Tickets : t = req[q].token
        BY <2>6, RequestFields
      <3>2. ticket'[t] # NoRec /\ ticket'[t].code = c /\ ~ticket'[t].told
        BY <2>4, <2>6, <3>1 DEF PollOf, TicketKept
      <3>3. ~Dropped(c)'
        BY <2>4, <2>6 DEF PollOf
      <3>4. Until(<<"p", c>>, d + CODE_TTL)'
        BY <2>1, <2>3, <2>4, <2>6 DEF PollOf
      <3> QED BY <2>1, <2>6, <3>1, <3>2, <3>3, <3>4 DEF PollOf, At, Until, Dropped, Told
    <2> QED BY <1>2, <2>5, <2>6
  <1> QED BY <1>1, <1>2

\* A ticket keeps its code and its employee, and a ticket written by a step is of no code.
TicketsKept ==
  \A t \in Tickets : TicketKept(t) /\ (ticket[t] = NoRec => ticket'[t] = NoRec \/ ticket'[t].code = NoCode)
GoneStays == \A c \in Codes : Ok(c) /\ record[c].exp = 0 => record'[c].exp = 0

\* A step that issues no ticket of a code and tells none.
LEMMA TicketFrame ==
  ASSUME TypeOK, Timely, OneTicket, OkKept, KeepsUntil, TicketsKept, GoneStays,
         \A q \in Requests : req'[q] = req[q] \/ ~(At(q, "status") \/ At(q, "drop"))'
  PROVE  OneTicket'
  <1>0. \A c \in Codes : c # NoCode
    BY Lifetimes
  <1>1. \A t \in Tickets, c \in Codes : Told(t, c)' <=> Told(t, c)
    BY <1>0 DEF Told, TicketsKept, TicketKept
  <1>2. \A c \in Codes : Dropped(c)' <=> Dropped(c)
    BY <1>1 DEF Dropped
  <1>3. ASSUME NEW q \in Requests PROVE PollOf(q)'
    <2>1. CASE ~(At(q, "status") \/ At(q, "drop"))'
      BY <2>1 DEF PollOf
    <2>2. CASE req'[q] = req[q] /\ (At(q, "status") \/ At(q, "drop"))
      <3>1. PICK c : c = req[q].code
        OBVIOUS
      <3>2. c \in Codes /\ (At(q, "drop") => req[q].token \in Tickets)
        BY <2>2, <3>1, RequestFields
      <3> QED BY <1>2, <2>2, <3>1, <3>2, PollOfKept DEF TicketsKept
    <2> QED BY <2>1, <2>2 DEF At
  <1>4. OneDrop'
    BY DEF OneDrop, OneTicket, At
  <1>5. ASSUME NEW t \in Tickets PROVE TicketOf(t)'
    BY <1>0 DEF OneTicket, TicketOf, OkKept, TicketsKept, TicketKept, Ok
  <1>6. ASSUME NEW c \in Codes, Dropped(c)' PROVE record'[c].exp = 0
    <2>1. PICK t \in Tickets : Told(t, c)
      BY <1>2, <1>6 DEF Dropped
    <2>2. Ok(c) /\ record[c].exp = 0
      BY <2>1 DEF OneTicket, TicketOf, Told, DroppedIsGone, Dropped
    <2> QED BY <2>2 DEF GoneStays
  <1>7. OneTold'
    BY <1>1 DEF OneTold, OneTicket
  <1> QED BY <1>3, <1>4, <1>5, <1>6, <1>7 DEF OneTicket, DroppedIsGone

\* Whoever reads a confirmed record reads it before its ticket is told.
LEMMA TicketOfReading ==
  ASSUME TypeOK, Timely, OneTicket, KeepsUntil, NEW q \in Requests, NEW b \in Codes, StatusRead(q, b)
  PROVE  OneTicket'
  <1>1. /\ record' = record /\ ticket' = ticket /\ now' = now /\ OkKept
        /\ record[b].state = "ok" /\ record[b].exp > now /\ now \in Nat /\ record[b] # NoRec
    BY SameRecord DEF StatusRead, PollOk, Live, SameOk, TypeOK, NoRec
  <1>2. \A r \in Requests : req'[r] = IF r = q
           THEN [at |-> "status", code |-> b, rec |-> record[b], since |-> now] ELSE req[r]
    BY Moved DEF StatusRead, Begin
  <1>3. \A c \in Codes : Dropped(c)' <=> Dropped(c)
    BY <1>1 DEF Dropped, Told
  <1>4. ASSUME NEW r \in Requests, r # q PROVE PollOf(r)'
    <2>1. PICK c : c = req[r].code
      OBVIOUS
    <2>2. Dropped(c)' => Dropped(c)
      BY <1>1 DEF Dropped, Told
    <2> QED BY <1>1, <1>2, <1>4, <2>1, <2>2, PollOfKept DEF TicketKept
  <1>5. PollOf(q)'
    <2>1. ~Dropped(b)
      BY <1>1 DEF OneTicket, DroppedIsGone
    <2> QED BY <1>1, <1>2, <2>1 DEF PollOf, At, Ok, Dropped, Told
  <1>6. OneDrop'
    BY <1>2 DEF OneDrop, OneTicket, At
  <1>7. DroppedIsGone' /\ OneTold' /\ \A t \in Tickets : TicketOf(t)'
    BY <1>1 DEF OneTicket, DroppedIsGone, OneTold, TicketOf, Dropped, Told, Ok
  <1> QED BY <1>4, <1>5, <1>6, <1>7 DEF OneTicket

\* Who gets past the counter of a code finds no other ticket of it told or about to be.
LEMMA TicketOfIssuing ==
  ASSUME TypeOK, Timely, OneTicket, KeepsUntil, NEW q \in Requests, NEW t \in Tickets,
         StatusIssue(q, t)
  PROVE  OneTicket'
  <1>0. OkKept /\ record' = record /\ now' = now
    BY SameRecord DEF StatusIssue, SameOk
  <1>1. CASE ticket' = ticket /\ req' = [req EXCEPT ![q] = Idle]
    <2>1. \A r \in Requests : req'[r] = req[r] \/ ~(At(r, "status") \/ At(r, "drop"))'
      BY <1>1, Moved DEF At, Idle
    <2>2. TicketsKept /\ GoneStays
      BY <1>0, <1>1 DEF TicketsKept, TicketKept, GoneStays
    <2> QED BY <1>0, <2>1, <2>2, TicketFrame
  <1>2. ASSUME NEW c, c = req[q].code, NEW d, d = req[q].since, NEW new,
               First(<<"p", c>>), Count(<<"p", c>>, CODE_TTL),
               new = [user |-> req[q].rec.user, app |-> req[q].rec.app, via |-> "qr", ts |-> now,
                      exp |-> now + FINISH_TTL, code |-> c, told |-> FALSE],
               ticket' = [ticket EXCEPT ![t] = new],
               req' = [req EXCEPT ![q] = [at |-> "drop", code |-> c, token |-> t, since |-> d]]
        PROVE  OneTicket'
    <2>1. /\ At(q, "status") /\ c \in Codes /\ d \in Nat /\ now \in Nat /\ d <= now /\ now <= d + 1
          /\ req[q].rec.user = record[c].user /\ Ok(c)
      BY <1>2, RequestFields DEF StatusIssue, Timely, TypeOK, At, Idle, OneTicket, PollOf
    <2>2. /\ new # NoRec /\ new.code = c /\ new.told = FALSE /\ new.user = record[c].user
          /\ ticket[t] = NoRec
          /\ \A v \in Tickets : ticket'[v] = IF v = t THEN new ELSE ticket[v]
      BY <1>2, <2>1 DEF StatusIssue, FreshTicket, TypeOK, NoRec
    <2>3. \A r \in Requests : req'[r] = IF r = q
             THEN [at |-> "drop", code |-> c, token |-> t, since |-> d] ELSE req[r]
      BY <1>2, Moved
    <2>4. \A b : \A v \in Tickets : Told(v, b)' <=> Told(v, b)
      BY <2>2 DEF Told
    <2>5. \A b : Dropped(b)' <=> Dropped(b)
      BY <2>4 DEF Dropped
    <2>6. \A e \in Int : e > now => ~Until(<<"p", c>>, e)
      BY <1>2, FirstIsFree
    <2>7. ~Dropped(c)
      <3>1. d + CODE_TTL - 1 \in Int /\ d + CODE_TTL - 1 > now
        BY <2>1, Lifetimes
      <3> QED BY <1>2, <2>1, <2>6, <3>1 DEF OneTicket, PollOf
    <2>8. ASSUME NEW r \in Requests, At(r, "drop") PROVE req[r].code # c
      <3>1. req[r].since \in Nat /\ now <= req[r].since + 1
        BY <2>8, RequestFields DEF Timely, At, Idle
      <3>2. req[r].since + CODE_TTL \in Int /\ req[r].since + CODE_TTL > now
        BY <2>1, <3>1, Lifetimes
      <3>3. PollOf(r)
        BY DEF OneTicket
      <3> QED BY <2>6, <2>8, <3>2, <3>3 DEF PollOf
    <2>9. Until(<<"p", c>>, d + CODE_TTL)'
      <3>1. PICK e : e = now + CODE_TTL
        OBVIOUS
      <3>2. CODE_TTL \in Nat /\ <<"p", c>> \in Key
        BY <2>1, Lifetimes DEF Key
      <3>3. Until(<<"p", c>>, e)'
        BY <1>2, <3>1, <3>2, CountRaises
      <3>4. PICK o \in once' : o.key = <<"p", c>> /\ o.exp >= e
        BY <3>3 DEF Until
      <3>5. once' \subseteq [key : Key, exp : Nat]
        BY <1>2, <3>2, CountTyped
      <3>6. o.exp >= d + CODE_TTL
        BY <2>1, <3>1, <3>2, <3>4, <3>5
      <3> QED BY <3>4, <3>6 DEF Until
    <2>10. PollOf(q)'
      BY <2>2, <2>3, <2>5, <2>7, <2>9 DEF PollOf, At, Until, Dropped, Told
    <2>11. ASSUME NEW r \in Requests, r # q PROVE PollOf(r)'
      <3>1. PICK b : b = req[r].code
        OBVIOUS
      <3>2. req'[r] = req[r] /\ (At(r, "drop") => TicketKept(req[r].token))
        <4>1. At(r, "drop") => req[r].token \in Tickets /\ ticket[req[r].token] # NoRec
          BY RequestFields DEF OneTicket, PollOf
        <4> QED BY <2>2, <2>3, <2>11, <4>1 DEF TicketKept
      <3> QED BY <1>0, <2>5, <3>1, <3>2, PollOfKept
    <2>12. OneDrop'
      BY <2>3, <2>8 DEF OneDrop, OneTicket, At
    <2>13. DroppedIsGone' /\ OneTold'
      BY <1>0, <2>4, <2>5 DEF OneTicket, DroppedIsGone, OneTold
    <2>14. ASSUME NEW v \in Tickets PROVE TicketOf(v)'
      BY <1>0, <2>1, <2>2 DEF OneTicket, TicketOf, Ok
    <2> QED BY <2>10, <2>11, <2>12, <2>13, <2>14 DEF OneTicket
  <1> QED BY <1>1, <1>2 DEF StatusIssue, Goto, Done

\* The one ticket of a code is told, and who read its record before finds the counter raised.
LEMMA TicketOfTelling ==
  ASSUME TypeOK, Timely, OneTicket, KeepsUntil, NEW q \in Requests, StatusDrop(q)
  PROVE  OneTicket'
  <1>1. PICK c : c = req[q].code
    OBVIOUS
  <1>2. PICK t : t = req[q].token
    OBVIOUS
  <1>3. PICK d : d = req[q].since
    OBVIOUS
  <1>4. /\ At(q, "drop") /\ once' = once /\ now' = now /\ c \in Codes /\ t \in Tickets
        /\ d \in Nat /\ now \in Nat /\ d <= now /\ now <= d + 1
        /\ \A r \in Requests : req'[r] = IF r = q THEN Idle ELSE req[r]
    BY <1>1, <1>2, <1>3, RequestFields, Moved DEF StatusDrop, At, Timely, TypeOK, Idle, Done
  <1>5. /\ ticket[t] # NoRec /\ ticket[t].code = c /\ ~ticket[t].told /\ ~Dropped(c)
        /\ Until(<<"p", c>>, d + CODE_TTL)
    BY <1>1, <1>2, <1>3, <1>4 DEF OneTicket, PollOf
  <1>6. SameOk
    BY DropOk
  <1>7. /\ ticket'[t] # NoRec /\ ticket'[t].code = c /\ ticket'[t].told
        /\ ticket'[t].user = ticket[t].user
        /\ \A v \in Tickets \ {t} : ticket'[v] = ticket[v]
    <2>1. ticket' = [ticket EXCEPT ![t] = [ticket[t] EXCEPT !.told = TRUE]] /\ ticket[t] \in Ticket
      BY <1>2, <1>4, <1>5 DEF StatusDrop, TypeOK
    <2>2. \A v \in Ticket : /\ [v EXCEPT !.told = TRUE].code = v.code /\ [v EXCEPT !.told = TRUE].told
                            /\ [v EXCEPT !.told = TRUE].user = v.user
                            /\ [v EXCEPT !.told = TRUE] # NoRec
      BY DEF Ticket, NoRec
    <2> QED BY <1>4, <1>5, <2>1, <2>2 DEF TypeOK
  <1>8. \A b \in Codes : b = c \/ record[b].exp = 0 => record'[b].exp = 0
    <2>1. /\ record \in [Codes -> Rec \cup {NoRec}]
          /\ record' = [record EXCEPT ![c] = [record[c] EXCEPT !.exp = 0]]
      BY <1>1 DEF StatusDrop, TypeOK
    <2>2. \A r \in Rec \cup {NoRec} : [r EXCEPT !.exp = 0].exp = 0
      BY DEF Rec, NoRec
    <2> QED BY <1>4, <2>1, <2>2
  <1>9. /\ \A b : \A v \in Tickets : Told(v, b)' <=> Told(v, b) \/ (v = t /\ b = c)
        /\ \A b : Dropped(b)' <=> Dropped(b) \/ b = c
    <2>1. \A b : \A v \in Tickets : Told(v, b)' <=> Told(v, b) \/ (v = t /\ b = c)
      BY <1>4, <1>5, <1>7 DEF Told
    <2> QED BY <1>4, <2>1 DEF Dropped
  <1>10. ASSUME NEW r \in Requests, r # q PROVE PollOf(r)'
    <2>1. PICK b : b = req[r].code
      OBVIOUS
    <2>2. req'[r] = req[r] /\ (At(r, "drop") => b # c /\ TicketKept(req[r].token))
      <3>1. At(r, "drop") => /\ req[r].token \in Tickets /\ b # c
                             /\ ticket[req[r].token].code = b
        BY <1>1, <1>4, <1>10, <2>1, RequestFields DEF OneTicket, PollOf, OneDrop
      <3> QED BY <1>4, <1>5, <1>7, <1>10, <3>1 DEF TicketKept
    <2>3. CASE b # c
      BY <1>6, <1>9, <2>1, <2>2, <2>3, PollOfKept DEF SameOk
    <2>4. CASE b = c /\ At(r, "status")
      <3>1. PICK s : s = req[r].since
        OBVIOUS
      <3>2. s \in Nat /\ s <= now
        BY <2>4, <3>1, RequestFields DEF Timely, At, Idle
      <3>3. PICK o \in once : o.key = <<"p", c>> /\ o.exp >= d + CODE_TTL
        BY <1>5 DEF Until
      <3>4. o.exp \in Nat
        BY DEF TypeOK
      <3>5. o.exp >= s + CODE_TTL - 1
        BY <1>4, <3>2, <3>3, <3>4, Lifetimes
      <3>6. Ok(c)' /\ record'[c].user = req[r].rec.user
        <4>1. PollOf(r) /\ c = req[r].code
          BY <2>1, <2>4 DEF OneTicket
        <4>2. Ok(c) /\ req[r].rec.user = record[c].user
          BY <2>4, <4>1 DEF PollOf
        <4> QED BY <1>4, <1>6, <4>2 DEF SameOk, OkKept
      <3> QED BY <1>4, <2>1, <2>2, <2>4, <3>1, <3>3, <3>5, <3>6 DEF PollOf, At, Ok, Until
    <2>5. CASE ~At(r, "status") /\ ~At(r, "drop")
      BY <2>2, <2>5 DEF PollOf, At
    <2> QED BY <2>2, <2>3, <2>4, <2>5
  <1>11. PollOf(q)' /\ OneDrop'
    BY <1>4 DEF PollOf, OneDrop, OneTicket, At, Idle
  <1>12. DroppedIsGone' /\ OneTold'
    BY <1>5, <1>8, <1>9 DEF OneTicket, DroppedIsGone, OneTold, Dropped
  <1>13. ASSUME NEW v \in Tickets PROVE TicketOf(v)'
    BY <1>5, <1>6, <1>7, <1>13 DEF OneTicket, TicketOf, SameOk, OkKept, Ok
  <1> QED BY <1>10, <1>11, <1>12, <1>13 DEF OneTicket

\* What a password login and a ticket taken do to the tickets.
LEMMA PasswordTickets ==
  ASSUME TypeOK, NEW u \in Users, NEW a \in Apps, NEW right \in BOOLEAN, NEW t \in Tickets,
         PasswordStart(u, a, right, t)
  PROVE  TicketsKept /\ \A v \in Tickets : /\ ticket[v] # NoRec => ticket'[v] = ticket[v]
                                           /\ ticket'[v] # NoRec
                                              => ticket'[v] = ticket[v]
                                                 \/ ticket'[v].exp = now + FINISH_TTL
  <1>1. CASE ticket' = ticket
    BY <1>1 DEF TicketsKept, TicketKept
  <1>2. ASSUME NEW new, ticket[t] = NoRec, ticket' = [ticket EXCEPT ![t] = new],
               new.code = NoCode, new.exp = now + FINISH_TTL
        PROVE  TicketsKept /\ \A v \in Tickets :
                  /\ ticket[v] # NoRec => ticket'[v] = ticket[v]
                  /\ ticket'[v] # NoRec => ticket'[v] = ticket[v] \/ ticket'[v].exp = now + FINISH_TTL
    <2>1. \A v \in Tickets : ticket'[v] = IF v = t THEN new ELSE ticket[v]
      BY <1>2 DEF TypeOK
    <2> QED BY <1>2, <2>1 DEF TicketsKept, TicketKept
  <1>3. PICK new : new = [user |-> u, app |-> a, via |-> "password", ts |-> now,
                          exp |-> now + FINISH_TTL, code |-> NoCode, told |-> TRUE]
    OBVIOUS
  <1>4. new.code = NoCode /\ new.exp = now + FINISH_TTL
    BY <1>3
  <1>5. ticket' = ticket \/ (ticket[t] = NoRec /\ ticket' = [ticket EXCEPT ![t] = new])
    BY <1>3 DEF PasswordStart, FreshTicket
  <1> QED BY <1>1, <1>2, <1>4, <1>5

LEMMA TakeTickets ==
  ASSUME TypeOK, NEW q \in Requests, FinishTake(q), NEW t, t = req[q].token
  PROVE  /\ TicketsKept
         /\ t \in Tickets /\ (ticket[t] # NoRec => ticket'[t].exp = 0)
         /\ \A v \in Tickets \ {t} : ticket'[v] = ticket[v]
         /\ ticket[t] = NoRec => ticket'[t] = NoRec
  <1>1. /\ ticket' = [ticket EXCEPT ![t] = [ticket[t] EXCEPT !.exp = 0]] /\ t \in Tickets
        /\ ticket \in [Tickets -> Ticket \cup {NoRec}]
    BY RequestFields DEF FinishTake, TypeOK, At
  <1>2. \A v \in Ticket : /\ [v EXCEPT !.exp = 0] # NoRec /\ [v EXCEPT !.exp = 0].code = v.code
                          /\ [v EXCEPT !.exp = 0].user = v.user /\ [v EXCEPT !.exp = 0].exp = 0
                          /\ [v EXCEPT !.exp = 0].told = v.told
    BY DEF Ticket, NoRec
  <1>3. [NoRec EXCEPT !.exp = 0] = NoRec
    BY DEF NoRec
  <1>4. \A v \in Tickets : ticket'[v] = IF v = t THEN [ticket[t] EXCEPT !.exp = 0] ELSE ticket[v]
    BY <1>1
  <1> QED BY <1>1, <1>2, <1>3, <1>4 DEF TicketsKept, TicketKept

\* A record whose entry is gone stays gone.
LEMMA GoneStep ==
  ASSUME TypeOK, OneApproval, [Next]_vars
  PROVE  GoneStays
  <1>1. ASSUME record' = record PROVE GoneStays
    BY <1>1 DEF GoneStays
  <1>2. ASSUME NEW c \in Codes, NEW a \in Apps, Start(c, a) PROVE GoneStays
    <2>1. ~Ok(c) /\ \A b \in Codes \ {c} : record'[b] = record[b]
      BY <1>2 DEF Start, Ok, TypeOK
    <2> QED BY <2>1 DEF GoneStays
  <1>3. ASSUME NEW q \in Requests, StatusDrop(q) PROVE GoneStays
    <2>1. PICK c : c = req[q].code
      OBVIOUS
    <2>2. /\ record \in [Codes -> Rec \cup {NoRec}]
          /\ record' = [record EXCEPT ![c] = [record[c] EXCEPT !.exp = 0]]
      BY <1>3, <2>1 DEF StatusDrop, TypeOK
    <2>3. \A r \in Rec \cup {NoRec} : [r EXCEPT !.exp = 0].exp = 0
      BY DEF Rec, NoRec
    <2> QED BY <2>2, <2>3 DEF GoneStays
  <1>4. ASSUME NEW q \in Requests, ApproveWrite(q) PROVE GoneStays
    <2>1. PICK c : c = req[q].code
      OBVIOUS
    <2>2. ~Ok(c)
      BY <1>4, <2>1 DEF OneApproval, ApprovalOf, ApproveWrite, At
    <2>3. \A d \in Codes \ {c} : record'[d] = record[d]
      BY <1>4, <2>1, WriteOk
    <2> QED BY <2>2, <2>3 DEF GoneStays
  <1>5. ASSUME NEW q \in Requests,
               \/ \E c \in Codes : StatusRead(q, c) \/ \E u \in Users : ApproveRead(q, c, u)
               \/ \E t \in Tickets : StatusIssue(q, t) \/ \E a \in Apps : FinishOnce(q, t, a)
               \/ ApproveOnce(q) \/ FinishTake(q) \/ FinishLogin(q) \/ Crash(q)
        PROVE  GoneStays
    BY <1>1, <1>5 DEF StatusRead, ApproveRead, StatusIssue, FinishOnce, ApproveOnce, FinishTake,
                      FinishLogin, Crash
  <1>6. CASE \/ Tick \/ UNCHANGED vars
             \/ (\E u \in Users, a \in Apps, right \in BOOLEAN, t \in Tickets :
                    PasswordStart(u, a, right, t))
             \/ (\E a \in Apps, v \in Vias : SwitchOff(a, v)) \/ (\E u \in Users : LeaveCompany(u))
    BY <1>1, <1>6 DEF Tick, PasswordStart, SwitchOff, LeaveCompany, cacheVars, vars
  <1> QED BY <1>2, <1>3, <1>4, <1>5, <1>6 DEF Next

LEMMA TicketStep ==
  ASSUME TypeOK, Timely, OneApproval, OneTicket, [Next]_vars
  PROVE  OneTicket'
  <1>0. KeepsUntil /\ OkKept /\ GoneStays
    BY UntilStep, OkStep, GoneStep
  <1>1. ASSUME TicketsKept, req' = req
        PROVE  OneTicket'
    BY <1>0, <1>1, TicketFrame
  <1>2. ASSUME TicketsKept, NEW q \in Requests, NEW s,
               req' = [req EXCEPT ![q] = s], s.at \notin {"status", "drop"}
        PROVE  OneTicket'
    <2>1. \A r \in Requests : req'[r] = req[r] \/ ~(At(r, "status") \/ At(r, "drop"))'
      BY <1>2, Moved DEF At
    <2> QED BY <1>0, <1>2, <2>1, TicketFrame
  <1>3. ticket' = ticket => TicketsKept
    BY DEF TicketsKept, TicketKept
  <1>4. CASE UNCHANGED vars
    BY <1>1, <1>3, <1>4 DEF vars
  <1>5. CASE \/ Tick \/ (\E c \in Codes, a \in Apps : Start(c, a))
             \/ (\E a \in Apps, v \in Vias : SwitchOff(a, v)) \/ (\E u \in Users : LeaveCompany(u))
    BY <1>1, <1>3, <1>5 DEF Tick, Start, SwitchOff, LeaveCompany, cacheVars
  <1>6. ASSUME NEW u \in Users, NEW a \in Apps, NEW right \in BOOLEAN, NEW t \in Tickets,
               PasswordStart(u, a, right, t)
        PROVE  OneTicket'
    BY <1>1, <1>6, PasswordTickets DEF PasswordStart
  <1>7. ASSUME NEW q \in Requests, NEW c \in Codes, StatusRead(q, c)
        PROVE  OneTicket'
    BY <1>0, <1>7, TicketOfReading
  <1>8. ASSUME NEW q \in Requests, NEW c \in Codes, NEW u \in Users, ApproveRead(q, c, u)
        PROVE  OneTicket'
    BY <1>2, <1>3, <1>8 DEF ApproveRead, Begin
  <1>9. ASSUME NEW q \in Requests, NEW t \in Tickets, StatusIssue(q, t)
        PROVE  OneTicket'
    BY <1>0, <1>9, TicketOfIssuing
  <1>10. ASSUME NEW q \in Requests, NEW t \in Tickets, NEW a \in Apps, FinishOnce(q, t, a)
         PROVE  OneTicket'
    BY <1>1, <1>2, <1>3, <1>10 DEF FinishOnce, Begin
  <1>11. ASSUME NEW q \in Requests, StatusDrop(q)
         PROVE  OneTicket'
    BY <1>0, <1>11, TicketOfTelling
  <1>12. ASSUME NEW q \in Requests, ApproveOnce(q)
         PROVE  OneTicket'
    <2>1. At(q, "approve") => [req[q] EXCEPT !.at = "write"].at = "write"
      BY RequestFields DEF Request, At, Idle
    <2> QED BY <1>2, <1>3, <1>12, <2>1 DEF ApproveOnce, Goto, Done, Idle, At
  <1>13. ASSUME NEW q \in Requests, FinishTake(q)
         PROVE  OneTicket'
    <2>1. TicketsKept
      BY <1>13, TakeTickets
    <2> QED BY <1>2, <1>13, <2>1 DEF FinishTake, Goto, Done, Idle
  <1>14. ASSUME NEW q \in Requests, ApproveWrite(q) \/ FinishLogin(q) \/ Crash(q)
         PROVE  OneTicket'
    BY <1>2, <1>3, <1>14 DEF ApproveWrite, FinishLogin, Crash, Done, Idle
  <1> QED BY <1>4, <1>5, <1>6, <1>7, <1>8, <1>9, <1>10, <1>11, <1>12, <1>13, <1>14 DEF Next

-----------------------------------------------------------------------------
(* One session. *)

\* A ticket keeps its code and its employee, is told for good, and does not live longer.
TicketsAge ==
  \A t \in Tickets :
     /\ ticket[t] # NoRec => /\ ticket'[t] # NoRec
                             /\ ticket'[t].code = ticket[t].code
                             /\ ticket'[t].user = ticket[t].user
                             /\ ticket[t].told => ticket'[t].told
                             /\ ticket'[t].exp = ticket[t].exp \/ ticket'[t].exp = 0
     /\ ticket[t] = NoRec /\ ticket'[t] # NoRec => ticket'[t].exp = now + FINISH_TTL

LEMMA PlusGrows ==
  ASSUME NEW x \in Nat, NEW y \in Nat, NEW z \in Nat, x <= y
  PROVE  x + z <= y + z /\ y + z \in Nat
  OBVIOUS

LEMMA NotLongerStep ==
  ASSUME TypeOK, NotLonger, TicketsAge, now' \in Nat, now' >= now
  PROVE  NotLonger'
  <1> SUFFICES ASSUME NEW t \in Tickets, ticket'[t] # NoRec
               PROVE  ticket'[t].exp <= now' + FINISH_TTL
    BY DEF NotLonger
  <1>1. now \in Nat /\ FINISH_TTL \in Nat
    BY Lifetimes DEF TypeOK
  <1>2. CASE ticket[t] = NoRec
    <2>1. ticket'[t].exp = now + FINISH_TTL
      BY <1>2 DEF TicketsAge
    <2>2. now + FINISH_TTL <= now' + FINISH_TTL
      BY <1>1, PlusGrows
    <2> QED BY <2>1, <2>2
  <1>3. CASE ticket[t] # NoRec
    <2>1. ticket[t] \in Ticket
      BY <1>3 DEF TypeOK
    <2>2. ticket[t].exp \in Nat /\ ticket[t].exp <= now + FINISH_TTL
      BY <1>3, <2>1 DEF NotLonger, Ticket
    <2>3. ticket'[t].exp = ticket[t].exp \/ ticket'[t].exp = 0
      BY <1>3 DEF TicketsAge
    <2>4. now + FINISH_TTL <= now' + FINISH_TTL /\ now' + FINISH_TTL \in Nat
      BY <1>1, PlusGrows
    <2> QED BY <1>1, <2>2, <2>3, <2>4
  <1> QED BY <1>2, <1>3

\* A ticket that is still alive was alive before.
LEMMA LiveBefore ==
  ASSUME TypeOK, TicketsAge, now' \in Nat, now' >= now, NEW t \in Tickets, ticket[t] # NoRec,
         now' < ticket'[t].exp
  PROVE  ticket'[t].exp = ticket[t].exp /\ ticket[t].exp \in Int /\ ticket[t].exp > now
  <1>1. ticket[t] \in Ticket /\ now \in Nat
    BY DEF TypeOK
  <1>2. ticket[t].exp \in Nat
    BY <1>1 DEF Ticket
  <1>3. ticket'[t].exp = ticket[t].exp \/ ticket'[t].exp = 0
    BY DEF TicketsAge
  <1> QED BY <1>1, <1>2, <1>3

LEMMA UsedStays ==
  ASSUME TicketsAge, NEW c, Used(c)
  PROVE  Used(c)'
  <1>1. PICK t \in Tickets : Told(t, c) /\ ticket[t].exp = 0
    BY DEF Used
  <1>2. ticket'[t] # NoRec /\ ticket'[t].code = c /\ ticket'[t].told /\ ticket'[t].exp = 0
    BY <1>1 DEF TicketsAge, Told
  <1> QED BY <1>2 DEF Used, Told

\* A request on its way to a session that does not move, while nobody else logs in.
LEMMA EntryOfKept ==
  ASSUME TypeOK, OneEntry, OkKept, KeepsUntil, TicketsAge, now' \in Nat, now' >= now,
         NEW q \in Requests, req'[q] = req[q],
         At(q, "login") => \A s \in sessions' \ sessions : s.code # req[q].rec.code
  PROVE  EntryOf(q)'
  <1>1. CASE At(q, "take")
    <2>1. PICK t \in Tickets : t = req[q].token
      BY <1>1, RequestFields
    <2>2. /\ ticket[t] # NoRec /\ ticket[t].told
          /\ Live(ticket[t]) => Until(<<"f", t>>, ticket[t].exp)
      BY <1>1, <2>1 DEF OneEntry, EntryOf
    <2>3. ticket'[t] # NoRec /\ ticket'[t].told
      BY <2>2 DEF TicketsAge
    <2>4. ASSUME now' < ticket'[t].exp
          PROVE  \E o \in once' : o.key = <<"f", t>> /\ o.exp >= ticket'[t].exp
      <3>1. PICK e : e = ticket[t].exp
        OBVIOUS
      <3>2. ticket'[t].exp = e /\ e \in Int /\ e > now
        BY <2>2, <2>4, <3>1, LiveBefore
      <3>3. Until(<<"f", t>>, e)
        BY <2>2, <3>1, <3>2 DEF Live
      <3>4. Until(<<"f", t>>, e)'
        BY <3>2, <3>3 DEF KeepsUntil
      <3> QED BY <3>2, <3>4 DEF Until
    <2> QED BY <1>1, <2>1, <2>3, <2>4 DEF EntryOf, At, Live, Until
  <1>2. CASE At(q, "login")
    <2>1. PICK c : c = req[q].rec.code
      OBVIOUS
    <2>2. ASSUME c \in Codes
          PROVE  /\ Ok(c)' /\ req[q].rec.user = record'[c].user /\ Used(c)'
                 /\ \A s \in sessions' : s.code # c
      <3>1. /\ Ok(c) /\ req[q].rec.user = record[c].user /\ Used(c)
            /\ \A s \in sessions : s.code # c
        BY <1>2, <2>1, <2>2 DEF OneEntry, EntryOf
      <3> QED BY <1>2, <2>1, <2>2, <3>1, UsedStays DEF OkKept
    <2> QED BY <1>2, <2>1, <2>2 DEF EntryOf, At, Ok, Used, Told
  <1>3. CASE ~At(q, "take") /\ ~At(q, "login")
    BY <1>3 DEF EntryOf, At
  <1> QED BY <1>1, <1>2, <1>3

LEMMA SessionOfKept ==
  ASSUME OneEntry, OkKept, TicketsAge, NEW s \in sessions
  PROVE  SessionOf(s)'
  BY UsedStays DEF OneEntry, SessionOf, OkKept

\* A step that takes no ticket and opens no session.
LEMMA EntryFrame ==
  ASSUME TypeOK, OneEntry, OkKept, KeepsUntil, TicketsAge, now' \in Nat, now' >= now,
         sessions' = sessions,
         \A q \in Requests : req'[q] = req[q] \/ ~(At(q, "take") \/ At(q, "login"))'
  PROVE  OneEntry'
  <1>1. NotLonger'
    BY NotLongerStep DEF OneEntry
  <1>2. ASSUME NEW q \in Requests PROVE EntryOf(q)'
    <2>1. CASE req'[q] = req[q]
      BY <2>1, EntryOfKept
    <2>2. CASE ~(At(q, "take") \/ At(q, "login"))'
      BY <2>2 DEF EntryOf
    <2> QED BY <2>1, <2>2
  <1>3. ASSUME NEW q \in Requests, NEW r \in Requests, At(q, "take")', At(r, "take")',
               req'[q].token = req'[r].token, q # r
        PROVE  ~(now' < ticket'[req'[q].token].exp)
    <2>1. req'[q] = req[q] /\ req'[r] = req[r]
      BY <1>3
    <2>2. PICK t \in Tickets : t = req[q].token
      BY <1>3, <2>1, RequestFields DEF At
    <2>3. ticket[t] # NoRec /\ ~Live(ticket[t])
      BY <1>3, <2>1, <2>2 DEF OneEntry, EntryOf, OneTake, At
    <2> QED BY <2>1, <2>2, <2>3, LiveBefore DEF Live
  <1>4. OneTake'
    BY <1>3 DEF OneTake, Live
  <1>5. OneLogin'
    BY DEF OneLogin, OneEntry, At
  <1>6. ASSUME NEW s \in sessions' PROVE SessionOf(s)'
    BY SessionOfKept
  <1>7. OneSession'
    BY DEF OneSession, OneEntry
  <1> QED BY <1>1, <1>2, <1>4, <1>5, <1>6, <1>7 DEF OneEntry

\* Who gets past the counter of a ticket finds no other request that takes it.
LEMMA EntryOfCounting ==
  ASSUME TypeOK, OneEntry, KeepsUntil, NEW q \in Requests, NEW t \in Tickets, NEW a \in Apps,
         FinishOnce(q, t, a)
  PROVE  OneEntry'
  <1>0. /\ record' = record /\ ticket' = ticket /\ sessions' = sessions /\ now' = now
        /\ OkKept /\ now \in Nat /\ now >= now
    BY SameRecord DEF FinishOnce, SameOk, TypeOK
  <1>1. TicketsAge
    BY <1>0 DEF TicketsAge
  <1>2. CASE req' = req
    BY <1>0, <1>1, <1>2, EntryFrame
  <1>3. CASE /\ First(<<"f", t>>)
             /\ req' = [req EXCEPT ![q] = [at |-> "take", token |-> t, app |-> a, since |-> now]]
    <2>1. \A r \in Requests : req'[r] = IF r = q
             THEN [at |-> "take", token |-> t, app |-> a, since |-> now] ELSE req[r]
      BY <1>3, Moved
    <2>2. ASSUME NEW r \in Requests, r # q PROVE EntryOf(r)'
      BY <1>0, <1>1, <2>1, <2>2, EntryOfKept
    <2>3. /\ Count(<<"f", t>>, FINISH_TTL) /\ ticket[t] # NoRec /\ ticket[t].told
          /\ ticket[t].exp <= now + FINISH_TTL /\ ticket[t].exp \in Nat /\ now + FINISH_TTL \in Nat
      <3>1. ticket[t] # NoRec /\ ticket[t].told /\ Count(<<"f", t>>, FINISH_TTL)
        BY DEF FinishOnce
      <3>2. ticket[t] \in Ticket /\ now \in Nat /\ FINISH_TTL \in Nat
        BY <3>1, Lifetimes DEF TypeOK
      <3> QED BY <3>1, <3>2 DEF Ticket, OneEntry, NotLonger
    <2>4. Until(<<"f", t>>, ticket[t].exp)'
      <3>1. PICK e : e = now + FINISH_TTL
        OBVIOUS
      <3>2. FINISH_TTL \in Nat /\ <<"f", t>> \in Key
        BY Lifetimes DEF Key
      <3>3. Until(<<"f", t>>, e)'
        BY <1>3, <2>3, <3>1, <3>2, CountRaises
      <3>4. PICK o \in once' : o.key = <<"f", t>> /\ o.exp >= e
        BY <3>3 DEF Until
      <3>5. once' \subseteq [key : Key, exp : Nat]
        BY <2>3, <3>2, CountTyped
      <3>6. o.exp >= ticket[t].exp
        BY <2>3, <3>1, <3>4, <3>5
      <3> QED BY <1>0, <3>4, <3>6 DEF Until
    <2>5. EntryOf(q)'
      BY <1>0, <2>1, <2>3, <2>4 DEF EntryOf, At, Until
    <2>6. ASSUME NEW r \in Requests, At(r, "take"), req[r].token = t PROVE ~Live(ticket[t])
      <3>1. Live(ticket[t]) => Until(<<"f", t>>, ticket[t].exp)
        BY <2>6 DEF OneEntry, EntryOf
      <3>2. Live(ticket[t]) => ticket[t].exp \in Int /\ ticket[t].exp > now
        BY <2>3, <1>0 DEF Live
      <3> QED BY <1>3, <3>1, <3>2, FirstIsFree
    <2>7. OneTake'
      BY <1>0, <2>1, <2>6 DEF OneTake, OneEntry, At, Live
    <2>8. OneLogin'
      BY <2>1 DEF OneLogin, OneEntry, At
    <2>9. NotLonger' /\ OneSession' /\ \A s \in sessions' : SessionOf(s)'
      BY <1>0, <1>1, NotLongerStep, SessionOfKept DEF OneEntry, OneSession
    <2> QED BY <2>2, <2>5, <2>7, <2>8, <2>9 DEF OneEntry
  <1> QED BY <1>2, <1>3 DEF FinishOnce, Begin

\* Who reads a ticket that is alive is the only one who logs in with its code.
LEMMA EntryOfTaking ==
  ASSUME TypeOK, OneTicket, OneEntry, KeepsUntil, NEW q \in Requests, FinishTake(q)
  PROVE  OneEntry'
  <1>1. PICK t : t = req[q].token
    OBVIOUS
  <1>2. /\ record' = record /\ sessions' = sessions /\ now' = now /\ OkKept /\ SameOk
        /\ now \in Nat /\ now >= now
    BY SameRecord DEF FinishTake, SameOk, TypeOK
  <1>3. /\ TicketsKept /\ t \in Tickets
        /\ ticket[t] # NoRec => ticket'[t].exp = 0
        /\ \A v \in Tickets \ {t} : ticket'[v] = ticket[v]
        /\ ticket[t] = NoRec => ticket'[t] = NoRec
    BY <1>1, TakeTickets
  <1>4. At(q, "take") /\ ticket[t] # NoRec /\ ticket[t].told
    BY <1>1 DEF FinishTake, OneEntry, EntryOf, At
  <1>5. TicketsAge
    BY <1>3, <1>4 DEF TicketsAge, TicketsKept, TicketKept
  <1>6. CASE req' = [req EXCEPT ![q] = Idle]
    <2>1. \A r \in Requests : req'[r] = req[r] \/ ~(At(r, "take") \/ At(r, "login"))'
      BY <1>6, Moved DEF At, Idle
    <2> QED BY <1>2, <1>5, <2>1, EntryFrame
  <1>7. CASE /\ Live(ticket[t])
             /\ req' = [req EXCEPT ![q] = [at |-> "login", app |-> req[q].app, rec |-> ticket[t],
                                           since |-> req[q].since]]
    <2>1. \A r \in Requests : req'[r] = IF r = q
             THEN [at |-> "login", app |-> req[q].app, rec |-> ticket[t], since |-> req[q].since]
             ELSE req[r]
      BY <1>7, Moved
    <2>2. PICK c : c = ticket[t].code
      OBVIOUS
    <2>3. /\ Told(t, c) /\ ticket[t].exp # 0
          /\ ticket'[t] # NoRec /\ ticket'[t].told /\ ticket'[t].code = c /\ ticket'[t].exp = 0
      BY <1>2, <1>3, <1>4, <1>7, <2>2 DEF Told, Live, TicketsKept, TicketKept
    <2>4. Used(c)'
      BY <1>3, <2>3 DEF Used, Told
    <2>5. c \in Codes => ~Used(c)
      BY <1>3, <2>3 DEF Used, OneTicket, OneTold
    <2>6. c \in Codes => Ok(c) /\ ticket[t].user = record[c].user
      BY <1>3, <1>4, <2>2 DEF OneTicket, TicketOf
    <2>7. c \in Codes => \A s \in sessions : s.code # c
      BY <2>5 DEF OneEntry, SessionOf
    <2>8. c \in Codes => Ok(c)' /\ record'[c].user = record[c].user
      BY <1>2, <2>6 DEF OkKept
    <2>9. EntryOf(q)'
      BY <1>2, <2>1, <2>2, <2>4, <2>6, <2>7, <2>8 DEF EntryOf, At, Ok, Used, Told
    <2>10. ASSUME NEW r \in Requests, r # q PROVE EntryOf(r)'
      BY <1>2, <1>5, <2>1, <2>10, EntryOfKept
    <2>11. ASSUME NEW r \in Requests, NEW v \in Requests, At(r, "take")', At(v, "take")',
                  req'[r].token = req'[v].token, r # v
           PROVE  ~(now' < ticket'[req'[r].token].exp)
      <3>1. r # q /\ v # q /\ req'[r] = req[r] /\ req'[v] = req[v]
        BY <2>1, <2>11 DEF At
      <3>2. PICK w \in Tickets : w = req[r].token
        BY <2>11, <3>1, RequestFields DEF At
      <3>3. ticket[w] # NoRec /\ ~Live(ticket[w])
        BY <2>11, <3>1, <3>2 DEF OneEntry, EntryOf, OneTake, At
      <3> QED BY <1>2, <1>5, <3>1, <3>2, <3>3, LiveBefore DEF Live
    <2>12. OneTake'
      BY <2>11 DEF OneTake, Live
    <2>13. ASSUME NEW r \in Requests, At(r, "login") PROVE ~(req[r].rec.code = c /\ c \in Codes)
      BY <2>5, <2>13 DEF OneEntry, EntryOf
    <2>14. OneLogin'
      BY <2>1, <2>2, <2>13 DEF OneLogin, OneEntry, At
    <2>15. NotLonger' /\ OneSession' /\ \A s \in sessions' : SessionOf(s)'
      BY <1>2, <1>5, NotLongerStep, SessionOfKept DEF OneEntry, OneSession
    <2> QED BY <2>9, <2>10, <2>12, <2>14, <2>15 DEF OneEntry
  <1> QED BY <1>1, <1>6, <1>7 DEF FinishTake, Goto, Done

\* A login with a code is the code's first.
LEMMA EntryOfLogin ==
  ASSUME TypeOK, OneEntry, KeepsUntil, NEW q \in Requests, FinishLogin(q)
  PROVE  OneEntry'
  <1>0. /\ record' = record /\ ticket' = ticket /\ now' = now /\ OkKept /\ SameOk
        /\ now \in Nat /\ now >= now
        /\ \A r \in Requests : req'[r] = IF r = q THEN Idle ELSE req[r]
    BY SameRecord, Moved DEF FinishLogin, SameOk, TypeOK, Done
  <1>1. TicketsAge
    BY <1>0 DEF TicketsAge
  <1>2. CASE sessions' = sessions
    <2>1. \A r \in Requests : req'[r] = req[r] \/ ~(At(r, "take") \/ At(r, "login"))'
      BY <1>0 DEF At, Idle
    <2> QED BY <1>0, <1>1, <1>2, <2>1, EntryFrame
  <1>3. ASSUME NEW c, NEW new, c = req[q].rec.code, new.code = c, new.user = req[q].rec.user,
               sessions' = sessions \cup {new}
        PROVE  OneEntry'
    <2>1. At(q, "login")
      BY DEF FinishLogin, At
    <2>2. c \in Codes => /\ Ok(c) /\ new.user = record[c].user /\ Used(c)
                         /\ \A s \in sessions : s.code # c
      BY <1>3, <2>1 DEF OneEntry, EntryOf
    <2>3. ASSUME NEW r \in Requests, r # q PROVE EntryOf(r)'
      <3>1. req'[r] = req[r]
        BY <1>0, <2>3
      <3>2. CASE At(r, "login") /\ req[r].rec.code = c
        <4>1. c \notin Codes
          BY <1>3, <2>1, <2>3, <3>2 DEF OneEntry, OneLogin
        <4> QED BY <3>1, <3>2, <4>1 DEF EntryOf, At
      <3>3. CASE ~(At(r, "login") /\ req[r].rec.code = c)
        BY <1>0, <1>1, <1>3, <3>1, <3>3, EntryOfKept
      <3> QED BY <3>2, <3>3
    <2>4. EntryOf(q)'
      BY <1>0 DEF EntryOf, At, Idle
    <2>5. OneTake' /\ OneLogin'
      BY <1>0 DEF OneTake, OneLogin, OneEntry, At, Idle, Live
    <2>6. SessionOf(new)'
      BY <1>0, <1>1, <1>3, <2>2, UsedStays DEF SessionOf, OkKept
    <2>7. \A s \in sessions' : SessionOf(s)'
      BY <1>0, <1>1, <1>3, <2>6, SessionOfKept
    <2>8. OneSession'
      BY <1>3, <2>2 DEF OneSession, OneEntry
    <2>9. NotLonger'
      BY <1>0, <1>1, NotLongerStep DEF OneEntry
    <2> QED BY <2>3, <2>4, <2>5, <2>7, <2>8, <2>9 DEF OneEntry
  <1>4. PICK new : new = [user |-> req[q].rec.user, app |-> req[q].rec.app, via |-> req[q].rec.via,
                          code |-> req[q].rec.code, at |-> now, by |-> q]
    OBVIOUS
  <1>5. new.code = req[q].rec.code /\ new.user = req[q].rec.user
    BY <1>4
  <1>6. sessions' = sessions \/ sessions' = sessions \cup {new}
    BY <1>4 DEF FinishLogin
  <1> QED BY <1>2, <1>3, <1>5, <1>6

LEMMA EntryStep ==
  ASSUME TypeOK, Timely, OneApproval, OneTicket, OneEntry, [Next]_vars
  PROVE  OneEntry'
  <1>0. KeepsUntil /\ OkKept /\ now \in Nat /\ now >= now
    BY UntilStep, OkStep DEF TypeOK
  <1>1. ASSUME TicketsAge, req' = req, sessions' = sessions, now' = now
        PROVE  OneEntry'
    BY <1>0, <1>1, EntryFrame
  <1>2. ASSUME TicketsAge, sessions' = sessions, now' = now, NEW q \in Requests, NEW s,
               req' = [req EXCEPT ![q] = s], s.at \notin {"take", "login"}
        PROVE  OneEntry'
    <2>1. \A r \in Requests : req'[r] = req[r] \/ ~(At(r, "take") \/ At(r, "login"))'
      BY <1>2, Moved DEF At
    <2> QED BY <1>0, <1>2, <2>1, EntryFrame
  <1>3. ticket' = ticket => TicketsAge
    BY DEF TicketsAge
  <1>4. CASE UNCHANGED vars
    BY <1>1, <1>3, <1>4 DEF vars
  <1>5. CASE Tick
    <2>1. now' = now + 1 /\ ticket' = ticket /\ req' = req /\ sessions' = sessions
      BY <1>5 DEF Tick, cacheVars
    <2>2. now' \in Nat /\ now' >= now
      BY <1>0, <2>1
    <2> QED BY <1>0, <1>3, <2>1, <2>2, EntryFrame
  <1>6. CASE \/ (\E c \in Codes, a \in Apps : Start(c, a))
             \/ (\E a \in Apps, v \in Vias : SwitchOff(a, v)) \/ (\E u \in Users : LeaveCompany(u))
    BY <1>1, <1>3, <1>6 DEF Start, SwitchOff, LeaveCompany, cacheVars
  <1>7. ASSUME NEW u \in Users, NEW a \in Apps, NEW right \in BOOLEAN, NEW t \in Tickets,
               PasswordStart(u, a, right, t)
        PROVE  OneEntry'
    <2>1. TicketsAge
      BY <1>7, PasswordTickets DEF TicketsAge
    <2> QED BY <1>1, <1>7, <2>1 DEF PasswordStart
  <1>8. ASSUME NEW q \in Requests, NEW c \in Codes,
               StatusRead(q, c) \/ \E u \in Users : ApproveRead(q, c, u)
        PROVE  OneEntry'
    BY <1>2, <1>3, <1>8 DEF StatusRead, ApproveRead, Begin
  <1>9. ASSUME NEW q \in Requests, NEW t \in Tickets, StatusIssue(q, t)
        PROVE  OneEntry'
    <2>1. TicketsAge
      <3>1. CASE ticket' = ticket
        BY <1>3, <3>1
      <3>2. ASSUME NEW new, new.exp = now + FINISH_TTL, ticket[t] = NoRec,
                   ticket' = [ticket EXCEPT ![t] = new]
            PROVE  TicketsAge
        <4>1. \A v \in Tickets : ticket'[v] = IF v = t THEN new ELSE ticket[v]
          BY <3>2 DEF TypeOK
        <4> QED BY <3>2, <4>1 DEF TicketsAge
      <3>3. PICK new : new = [user |-> req[q].rec.user, app |-> req[q].rec.app, via |-> "qr",
                              ts |-> now, exp |-> now + FINISH_TTL, code |-> req[q].code,
                              told |-> FALSE]
        OBVIOUS
      <3>4. new.exp = now + FINISH_TTL
        BY <3>3
      <3>5. ticket' = ticket \/ (ticket[t] = NoRec /\ ticket' = [ticket EXCEPT ![t] = new])
        BY <1>9, <3>3 DEF StatusIssue, FreshTicket
      <3> QED BY <3>1, <3>2, <3>4, <3>5
    <2> QED BY <1>2, <1>9, <2>1 DEF StatusIssue, Goto, Done, Idle
  <1>10. ASSUME NEW q \in Requests, NEW t \in Tickets, NEW a \in Apps, FinishOnce(q, t, a)
         PROVE  OneEntry'
    BY <1>0, <1>10, EntryOfCounting
  <1>11. ASSUME NEW q \in Requests, StatusDrop(q)
         PROVE  OneEntry'
    <2>1. TicketsAge
      <3>1. PICK t : t = req[q].token
        OBVIOUS
      <3>2. t \in Tickets /\ ticket[t] # NoRec
        BY <1>11, <3>1, RequestFields DEF StatusDrop, At, OneTicket, PollOf
      <3>3. ticket' = [ticket EXCEPT ![t] = [ticket[t] EXCEPT !.told = TRUE]] /\ ticket[t] \in Ticket
        BY <1>11, <3>1, <3>2 DEF StatusDrop, TypeOK
      <3>4. \A v \in Ticket : /\ [v EXCEPT !.told = TRUE].code = v.code /\ [v EXCEPT !.told = TRUE].told
                              /\ [v EXCEPT !.told = TRUE].user = v.user
                              /\ [v EXCEPT !.told = TRUE].exp = v.exp
                              /\ [v EXCEPT !.told = TRUE] # NoRec
        BY DEF Ticket, NoRec
      <3>5. \A v \in Tickets : ticket'[v] = IF v = t THEN [ticket[t] EXCEPT !.told = TRUE] ELSE ticket[v]
        BY <3>3 DEF TypeOK
      <3> QED BY <3>2, <3>3, <3>4, <3>5 DEF TicketsAge
    <2> QED BY <1>2, <1>11, <2>1 DEF StatusDrop, Done, Idle
  <1>12. ASSUME NEW q \in Requests, ApproveOnce(q)
         PROVE  OneEntry'
    <2>1. At(q, "approve") => [req[q] EXCEPT !.at = "write"].at = "write"
      BY RequestFields DEF Request, At, Idle
    <2> QED BY <1>2, <1>3, <1>12, <2>1 DEF ApproveOnce, Goto, Done, Idle, At
  <1>13. ASSUME NEW q \in Requests, ApproveWrite(q) \/ Crash(q)
         PROVE  OneEntry'
    BY <1>2, <1>3, <1>13 DEF ApproveWrite, Crash, Done, Idle
  <1>14. ASSUME NEW q \in Requests, FinishTake(q)
         PROVE  OneEntry'
    BY <1>0, <1>14, EntryOfTaking
  <1>15. ASSUME NEW q \in Requests, FinishLogin(q)
         PROVE  OneEntry'
    BY <1>0, <1>15, EntryOfLogin
  <1> QED BY <1>4, <1>5, <1>6, <1>7, <1>8, <1>9, <1>10, <1>11, <1>12, <1>13, <1>14, <1>15 DEF Next

-----------------------------------------------------------------------------
(* The invariant holds. *)

LEMMA InvInit == Init => IInv
  <1> SUFFICES ASSUME Init PROVE IInv
    OBVIOUS
  <1>1. TypeOK
    BY TypeInit
  <1>2. /\ \A q \in Requests : req[q] = Idle
        /\ \A c \in Codes : record[c] = NoRec
        /\ \A t \in Tickets : ticket[t] = NoRec
        /\ confirmed = {} /\ sessions = {}
    BY DEF Init
  <1>3. Timely /\ OneApproval
    BY <1>2 DEF Timely, OneApproval, ApprovalOf, OneWriter, ConfirmedIsOk, At, Idle, Ok
  <1>4. OneTicket
    BY <1>2 DEF OneTicket, PollOf, OneDrop, DroppedIsGone, OneTold, TicketOf, At, Idle, Dropped, Told
  <1>5. OneEntry
    BY <1>2 DEF OneEntry, NotLonger, EntryOf, OneTake, OneLogin, SessionOf, OneSession, At, Idle
  <1> QED BY <1>1, <1>3, <1>4, <1>5 DEF IInv

LEMMA InvStep == IInv /\ [Next]_vars => IInv'
  BY TypeStep, TimelyStep, ApprovalStep, TicketStep, EntryStep DEF IInv

THEOREM TypeCorrect == Spec => []TypeOK
  BY TypeInit, TypeStep, PTL DEF Spec

THEOREM Invariant == Spec => []IInv
  BY InvInit, InvStep, PTL DEF Spec

-----------------------------------------------------------------------------
(* WebQr implements LoginGrant. *)

HasSession(c) == \E s \in sessions : s.code = c

\* What the HR app and the activity log tell of a code.
Story(c) == IF ~Ok(c) THEN Promise!Waiting
            ELSE IF HasSession(c) THEN Promise!Entered(record[c].user)
            ELSE Promise!Approved(record[c].user)

LEMMA OneOf ==
  ASSUME NEW x
  PROVE  Cardinality({x}) = 1 /\ {x} # {} /\ (CHOOSE y \in {x} : TRUE) = x
  BY FS_Singleton

LEMMA GrantedStory == IInv => Granted = [c \in Codes |-> Story(c)]
  <1> SUFFICES ASSUME IInv, NEW c \in Codes PROVE Granted[c] = Story(c)
    BY DEF Granted
  <1> DEFINE who == {x.user : x \in {y \in confirmed : y.code = c}}
             ins == {s \in sessions : s.code = c}
  <1>1. /\ \A u \in Users : [code |-> c, user |-> u] \in confirmed <=> Ok(c) /\ record[c].user = u
        /\ Ok(c) => record[c].user \in Users
        /\ confirmed \subseteq [code : Codes, user : Users]
    BY DEF IInv, OneApproval, ConfirmedIsOk, TypeOK
  <1>2. ASSUME ~Ok(c) PROVE who = {}
    <2>1. ASSUME NEW y \in confirmed, y.code = c PROVE FALSE
      <3>1. y = [code |-> c, user |-> y.user] /\ y.user \in Users
        BY <1>1, <2>1
      <3> QED BY <1>1, <1>2, <3>1
    <2> QED BY <2>1
  <1>3. ASSUME Ok(c) PROVE who = {record[c].user}
    <2>1. [code |-> c, user |-> record[c].user] \in confirmed
      BY <1>1, <1>3
    <2>2. ASSUME NEW y \in confirmed, y.code = c PROVE y.user = record[c].user
      <3>1. y = [code |-> c, user |-> y.user] /\ y.user \in Users
        BY <1>1, <2>2
      <3> QED BY <1>1, <3>1
    <2>3. record[c].user \in who
      BY <2>1
    <2> QED BY <2>2, <2>3
  <1>4. \A s \in ins : Ok(c) /\ s.user = record[c].user
    BY DEF IInv, OneEntry, SessionOf
  <1>5. \A s, v \in ins : s = v
    BY DEF IInv, OneEntry, OneSession
  <1>6. Granted[c] = IF who = {} /\ ins = {} THEN [state |-> "waiting", user |-> NoUser]
           ELSE IF Cardinality(who) = 1 /\ ins = {}
           THEN [state |-> "approved", user |-> CHOOSE u \in who : TRUE]
           ELSE IF Cardinality(ins) = 1 /\ who = {s.user : s \in ins}
           THEN [state |-> "in", user |-> CHOOSE u \in who : TRUE]
           ELSE [state |-> "broken", user |-> NoUser]
    BY DEF Granted
  <1>7. (ins = {}) <=> ~HasSession(c)
    BY DEF HasSession
  <1> HIDE DEF who
  <1>8. CASE ~Ok(c)
    <2>1. who = {} /\ ins = {}
      BY <1>2, <1>4, <1>8
    <2> QED BY <1>6, <1>8, <2>1 DEF Story, Promise!Waiting
  <1>9. CASE Ok(c) /\ ~HasSession(c)
    <2>1. who = {record[c].user} /\ ins = {}
      BY <1>3, <1>7, <1>9
    <2>2. /\ who # {} /\ Cardinality(who) = 1 /\ (CHOOSE u \in who : TRUE) = record[c].user
      BY <2>1, OneOf
    <2> QED BY <1>6, <1>9, <2>1, <2>2 DEF Story, Promise!Approved
  <1>10. CASE Ok(c) /\ HasSession(c)
    <2>1. PICK s : s \in ins
      BY <1>10 DEF HasSession
    <2>2. ins = {s} /\ s.user = record[c].user
      BY <1>4, <1>5, <2>1
    <2> HIDE DEF ins
    <2>3. ins # {} /\ Cardinality(ins) = 1 /\ {v.user : v \in ins} = {record[c].user}
      BY <2>2, OneOf
    <2>4. who = {record[c].user}
      BY <1>3, <1>10
    <2>5. who # {} /\ (CHOOSE u \in who : TRUE) = record[c].user /\ who = {v.user : v \in ins}
      BY <2>3, <2>4, OneOf
    <2> QED BY <1>6, <1>10, <2>3, <2>5 DEF Story, Promise!Entered
  <1> QED BY <1>8, <1>9, <1>10

LEMMA GrantedStoryNext == IInv' => Granted' = [c \in Codes |-> Story(c)']
  <1>1. (IInv => Granted = [c \in Codes |-> Story(c)])'
    BY GrantedStory, PTL
  <1> QED BY <1>1

\* A step that confirms nothing and opens no session with a code.
LEMMA StorySame ==
  ASSUME SameOk, \A c \in Codes : HasSession(c)' <=> HasSession(c)
  PROVE  \A c \in Codes : Story(c)' = Story(c)
  <1> SUFFICES ASSUME NEW c \in Codes PROVE Story(c)' = Story(c)
    OBVIOUS
  <1>1. /\ Ok(c)' <=> Ok(c)
        /\ Ok(c) => record'[c].user = record[c].user
        /\ HasSession(c)' <=> HasSession(c)
    BY DEF SameOk, OkKept
  <1>2. CASE ~Ok(c)
    BY <1>1, <1>2 DEF Story, Promise!Waiting
  <1>3. CASE Ok(c) /\ HasSession(c)
    BY <1>1, <1>3 DEF Story, Promise!Entered
  <1>4. CASE Ok(c) /\ ~HasSession(c)
    BY <1>1, <1>4 DEF Story, Promise!Approved
  <1> QED BY <1>2, <1>3, <1>4

\* A confirmation is a Confirm of the promise.
LEMMA WriteConfirms ==
  ASSUME IInv, IInv', NEW q \in Requests, ApproveWrite(q)
  PROVE  Promise!Next
  <1>1. PICK c : c = req[q].code
    OBVIOUS
  <1>2. PICK u : u = req[q].user
    OBVIOUS
  <1>3. /\ c \in Codes /\ u \in Users /\ Ok(c)' /\ record'[c].user = u
        /\ \A d \in Codes \ {c} : record'[d] = record[d]
        /\ sessions' = sessions
    <2>1. TypeOK /\ sessions' = sessions
      BY DEF IInv, ApproveWrite
    <2> QED BY <1>1, <1>2, <2>1, WriteOk
  <1>4. ~Ok(c)
    BY <1>1 DEF IInv, OneApproval, ApprovalOf, ApproveWrite, At
  <1>5. ~HasSession(c)
    BY <1>3, <1>4 DEF HasSession, IInv, OneEntry, SessionOf
  <1>6. ~HasSession(c)'
    BY <1>3, <1>5 DEF HasSession
  <1>7. Story(c) = Promise!Waiting /\ Story(c)' = Promise!Approved(u)
    BY <1>3, <1>4, <1>6 DEF Story, Promise!Approved
  <1>8. \A d \in Codes \ {c} : Story(d)' = Story(d)
    BY <1>3 DEF Story, Ok, HasSession, Promise!Waiting, Promise!Approved, Promise!Entered
  <1>9. Granted = [d \in Codes |-> Story(d)] /\ Granted' = [d \in Codes |-> Story(d)']
    BY GrantedStory, GrantedStoryNext
  <1>10. Granted[c] = Promise!Waiting /\ Granted' = [Granted EXCEPT ![c] = Promise!Approved(u)]
    BY <1>3, <1>7, <1>8, <1>9
  <1> QED BY <1>3, <1>10 DEF Promise!Next, Promise!Confirm

\* A login with a code is an Enter of the promise.
LEMMA LoginEnters ==
  ASSUME IInv, IInv', NEW q \in Requests, FinishLogin(q)
  PROVE  Promise!Next \/ Granted' = Granted
  <1>0. Granted = [d \in Codes |-> Story(d)] /\ Granted' = [d \in Codes |-> Story(d)']
    BY GrantedStory, GrantedStoryNext
  <1>1. record' = record /\ SameOk
    BY SameRecord DEF FinishLogin
  <1>2. ASSUME NEW c, NEW new, c = req[q].rec.code, new.code = c, sessions' = sessions \cup {new}
        PROVE  Promise!Next \/ Granted' = Granted
    <2>1. \A d : HasSession(d)' <=> HasSession(d) \/ d = c
      BY <1>2 DEF HasSession
    <2>2. CASE c \notin Codes
      <3>1. \A d \in Codes : Story(d)' = Story(d)
        BY <1>1, <2>1, <2>2, StorySame
      <3> QED BY <1>0, <3>1
    <2>3. CASE c \in Codes
      <3>1. Ok(c) /\ ~HasSession(c)
        BY <1>2, <2>3 DEF IInv, OneEntry, EntryOf, FinishLogin, At, HasSession
      <3>2. Ok(c)' /\ HasSession(c)' /\ record[c].user \in Users
        BY <1>1, <2>1, <2>3, <3>1 DEF SameOk, OkKept, IInv, OneApproval, ConfirmedIsOk
      <3>3. /\ Story(c) = Promise!Approved(record[c].user)
            /\ Story(c)' = Promise!Entered(record[c].user)
        BY <1>1, <3>1, <3>2 DEF Story, Promise!Entered
      <3>4. \A d \in Codes \ {c} : Story(d)' = Story(d)
        BY <1>1, <2>1 DEF Story, Ok, Promise!Waiting, Promise!Approved, Promise!Entered
      <3>5. /\ Granted[c] = Promise!Approved(record[c].user)
            /\ Granted' = [Granted EXCEPT ![c] = Promise!Entered(record[c].user)]
        BY <1>0, <2>3, <3>3, <3>4
      <3> QED BY <2>3, <3>2, <3>5 DEF Promise!Next, Promise!Enter
    <2> QED BY <2>2, <2>3
  <1>3. PICK new : new = [user |-> req[q].rec.user, app |-> req[q].rec.app, via |-> req[q].rec.via,
                          code |-> req[q].rec.code, at |-> now, by |-> q]
    OBVIOUS
  <1>4. new.code = req[q].rec.code
    BY <1>3
  <1>5. sessions' = sessions \/ sessions' = sessions \cup {new}
    BY <1>3 DEF FinishLogin
  <1>6. ASSUME sessions' = sessions PROVE Granted' = Granted
    <2>1. \A d \in Codes : Story(d)' = Story(d)
      BY <1>1, <1>6, StorySame DEF HasSession
    <2> QED BY <1>0, <2>1
  <1> QED BY <1>2, <1>4, <1>5, <1>6

LEMMA PromiseStep == IInv /\ IInv' /\ [Next]_vars => [Promise!Next]_Granted
  <1> SUFFICES ASSUME IInv, IInv', [Next]_vars PROVE Promise!Next \/ Granted' = Granted
    OBVIOUS
  <1>1. ASSUME SameOk, sessions' = sessions
        PROVE  Granted' = Granted
    <2>1. \A d \in Codes : Story(d)' = Story(d)
      BY <1>1, StorySame DEF HasSession
    <2> QED BY <2>1, GrantedStory, GrantedStoryNext
  <1>2. TypeOK
    BY DEF IInv
  <1>3. CASE \/ Tick \/ UNCHANGED vars
             \/ (\E u \in Users, a \in Apps, right \in BOOLEAN, t \in Tickets :
                    PasswordStart(u, a, right, t))
             \/ (\E a \in Apps, v \in Vias : SwitchOff(a, v)) \/ (\E u \in Users : LeaveCompany(u))
    BY <1>1, <1>3, SameRecord
       DEF Tick, PasswordStart, SwitchOff, LeaveCompany, cacheVars, vars
  <1>4. ASSUME NEW q \in Requests,
               \/ \E c \in Codes : StatusRead(q, c) \/ \E u \in Users : ApproveRead(q, c, u)
               \/ \E t \in Tickets : StatusIssue(q, t) \/ \E a \in Apps : FinishOnce(q, t, a)
               \/ ApproveOnce(q) \/ FinishTake(q) \/ Crash(q)
        PROVE  Granted' = Granted
    BY <1>1, <1>4, SameRecord
       DEF StatusRead, ApproveRead, StatusIssue, FinishOnce, ApproveOnce, FinishTake, Crash
  <1>5. ASSUME NEW c \in Codes, NEW a \in Apps, Start(c, a) PROVE Granted' = Granted
    BY <1>1, <1>2, <1>5, StartOk DEF Start
  <1>6. ASSUME NEW q \in Requests, StatusDrop(q) PROVE Granted' = Granted
    <2>1. SameOk
      BY <1>2, <1>6, DropOk
    <2> QED BY <1>1, <1>6, <2>1 DEF StatusDrop
  <1>7. ASSUME NEW q \in Requests, ApproveWrite(q) PROVE Promise!Next
    BY <1>7, WriteConfirms
  <1>8. ASSUME NEW q \in Requests, FinishLogin(q) PROVE Promise!Next \/ Granted' = Granted
    BY <1>8, LoginEnters
  <1> QED BY <1>3, <1>4, <1>5, <1>6, <1>7, <1>8 DEF Next

LEMMA PromiseInit == Init => Promise!Init
  <1> SUFFICES ASSUME Init PROVE Promise!Init
    OBVIOUS
  <1>1. Granted = [c \in Codes |-> Story(c)]
    BY InvInit, GrantedStory
  <1>2. \A c \in Codes : Story(c) = Promise!Waiting
    BY DEF Story, Ok, Init
  <1> QED BY <1>1, <1>2 DEF Promise!Init

(* A code lets one employee in, once, and only the one who confirmed it: every step of     *)
(* api/web_qr.py is a step of LoginGrant or leaves every code as it was.                   *)
THEOREM Implements == Spec => KeepsPromise
  <1>1. Spec => []IInv
    BY Invariant
  <1>2. Init => Promise!Init
    BY PromiseInit
  <1>3. IInv /\ IInv' /\ [Next]_vars => [Promise!Next]_Granted
    BY PromiseStep
  <1> QED BY <1>1, <1>2, <1>3, PTL DEF Spec, KeepsPromise, Promise!Spec
=============================================================================
