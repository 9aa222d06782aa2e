------------------------------ MODULE Session -------------------------------
(***************************************************************************)
(* Sessions: login, refresh and logout (routes/auth.rs), the extractors    *)
(* that let a request through (middleware.rs) and the seeding of the       *)
(* administrator at each start (main.rs), seen with one browser.           *)
(*                                                                         *)
(* A session is a cookie, [user, role, exp], and nothing on the server.    *)
(* A visit is one request:                                                 *)
(*                                                                         *)
(*    waiting -> sent -> (granted -> | denied ->) reply -> over            *)
(*    (lost: the client hung up, the process ended, or the reply was lost) *)
(*                                                                         *)
(* Visits overlap, and replies reach the browser in any order.             *)
(***************************************************************************)
EXTENDS Integers, Sequences

CONSTANTS
  Visits,
  Plans,       \* what the visits may ask: functions to [act, user, right, needs]
  Users,
  Admin,       \* the user seeded at each start
  Roles,
  Lifetime,    \* of a cookie (24 h)
  Leeway,      \* with which its end is checked (60 s)
  LastTick,    \* bound
  MaxOutages,  \* bound: statements that fail
  MaxEdits     \* bound: edits of a role, and restarts

NoCookie == [user |-> "none"]
NoRole   == "none"                        \* the role of a user that does not exist
Cookies  == [user : Users, role : Roles, exp : Nat]
Acts     == {"login", "refresh", "logout", "call"}

ASSUME PlansAssumption ==
  /\ Plans \subseteq [Visits -> [act : Acts, user : Users, right : BOOLEAN, needs : SUBSET Roles]]
  /\ Admin \in Users /\ "none" \notin Users
  /\ "admin" \in Roles /\ NoRole \notin Roles

ASSUME DurationsAssumption ==
  /\ Lifetime \in Nat /\ Leeway \in Nat
  /\ LastTick \in Nat /\ MaxOutages \in Nat /\ MaxEdits \in Nat

VARIABLES
  plan,        \* plan[k]: what visit k asks; `right`, whether its password is
  visitAt,     \* visitAt[k]: where it is
  carried,     \* carried[k]: the cookie it was sent with
  reply,       \* reply[k]: [code, cookie] it is answered with
  jar,         \* the browser's cookie
  role,        \* users: role[u]
  loginRows,   \* audit_log: visits with a login row
  failRows,    \* audit_log: visits with a login_failed row
  tick,        \* the clock
  outages,     \* statements that may still fail
  edits,       \* edits and restarts that may still come
  issued,      \* history: issued[k]: when k made its cookie
  passed,      \* history: passed[k]: when k was let through, or -1
  arrivals,    \* history: visits whose reply the browser got, in order
  known,       \* history: known[k]: arrivals, when k was sent
  unwritten    \* history: visits whose audit row was not written

answers     == <<carried, reply>>
rights      == <<role, edits>>
auditRows   == <<loginRows, failRows, unwritten>>
visitPast   == <<issued, passed>>
browser     == <<jar, arrivals, known>>
sessionVars == <<plan, visitAt, answers, browser, rights, auditRows, visitPast, tick, outages>>

Serving  == {"sent", "granted", "denied"}
NoReply  == [code |-> 0, cookie |-> NoCookie]

SessionTypeOK ==
  /\ plan \in Plans
  /\ visitAt \in [Visits -> Serving \cup {"waiting", "reply", "over", "lost"}]
  /\ carried \in [Visits -> Cookies \cup {NoCookie}]
  /\ reply \in [Visits -> [code : {0, 200, 401, 403, 500}, cookie : Cookies \cup {NoCookie}]]
  /\ jar \in Cookies \cup {NoCookie}
  /\ role \in [Users -> Roles \cup {NoRole}]
  /\ loginRows \in SUBSET Visits /\ failRows \in SUBSET Visits /\ unwritten \in SUBSET Visits
  /\ tick \in 0..LastTick
  /\ outages \in 0..MaxOutages /\ edits \in 0..MaxEdits
  /\ issued \in [Visits -> Nat] /\ passed \in [Visits -> Nat \cup {-1}]
  /\ arrivals \in Seq(Visits) /\ known \in [Visits -> Seq(Visits)]

SessionInit ==
  /\ plan \in Plans
  /\ visitAt = [k \in Visits |-> "waiting"]
  /\ carried = [k \in Visits |-> NoCookie]
  /\ reply = [k \in Visits |-> NoReply]
  /\ jar = NoCookie
  /\ role = [u \in Users |-> IF u = Admin THEN "admin" ELSE NoRole]
  /\ loginRows = {} /\ failRows = {} /\ unwritten = {}
  /\ tick = 0 /\ outages = MaxOutages /\ edits = MaxEdits
  /\ issued = [k \in Visits |-> 0] /\ passed = [k \in Visits |-> -1]
  /\ arrivals = <<>> /\ known = [k \in Visits |-> <<>>]

act(k)         == plan[k].act
MoveTo(k, p)   == visitAt' = [visitAt EXCEPT ![k] = p]
Outage         == outages > 0 /\ outages' = outages - 1

Reply(k, code, cookie) ==
  /\ MoveTo(k, "reply")
  /\ reply' = [reply EXCEPT ![k] = [code |-> code, cookie |-> cookie]]

-----------------------------------------------------------------------------
Send(k) ==
  /\ visitAt[k] = "waiting"
  /\ MoveTo(k, "sent")
  /\ carried' = [carried EXCEPT ![k] = jar]
  /\ known' = [known EXCEPT ![k] = arrivals]
  /\ UNCHANGED <<plan, reply, jar, arrivals, rights, auditRows, visitPast, tick, outages>>

(* Validation::default(): the end of a cookie is checked with some leeway. *)
Valid(cookie) == cookie # NoCookie /\ cookie.exp >= tick - Leeway

-----------------------------------------------------------------------------
(***************************************************************************)
(* login_handler: the lookup and the check, then the audit row, then the   *)
(* answer.                                                                 *)
(***************************************************************************)
Admitted(k) == role[plan[k].user] # NoRole /\ plan[k].right

LogIn(k) ==
  /\ visitAt[k] = "sent" /\ act(k) = "login"
  /\ MoveTo(k, IF Admitted(k) THEN "granted" ELSE "denied")
  /\ IF Admitted(k)
     THEN /\ issued' = [issued EXCEPT ![k] = tick]
          /\ reply' = [reply EXCEPT ![k].cookie = [user |-> plan[k].user,
                                                   role |-> role[plan[k].user],
                                                   exp |-> tick + Lifetime]]
     ELSE UNCHANGED <<issued, reply>>
  /\ UNCHANGED <<plan, carried, browser, rights, auditRows, passed, tick, outages>>

(* A database error is not a failed login.                                 *)
AfterLookupErrorDenied(k) == MoveTo(k, "denied") /\ UNCHANGED reply       \* mutant: it is
AfterLookupError(k) == Reply(k, 500, NoCookie)

LookupFails(k) ==
  /\ visitAt[k] = "sent" /\ act(k) = "login"
  /\ Outage
  /\ AfterLookupError(k)
  /\ UNCHANGED <<plan, carried, browser, rights, auditRows, visitPast, tick>>

(* Whether its row is written or not, a login is answered.                 *)
RecordLogin(k) ==
  /\ visitAt[k] \in {"granted", "denied"}
  /\ \/ /\ IF visitAt[k] = "granted"
           THEN loginRows' = loginRows \cup {k} /\ UNCHANGED failRows
           ELSE failRows' = failRows \cup {k} /\ UNCHANGED loginRows
        /\ UNCHANGED <<unwritten, outages>>
     \/ Outage /\ unwritten' = unwritten \cup {k} /\ UNCHANGED <<loginRows, failRows>>
  /\ Reply(k, IF visitAt[k] = "granted" THEN 200 ELSE 401, reply[k].cookie)
  /\ UNCHANGED <<plan, carried, browser, rights, visitPast, tick>>

-----------------------------------------------------------------------------
(* refresh_handler: the same user and role, a new end.                     *)
RenewedAnew(cookie) ==                    \* mutant: the role is looked up again
  [cookie EXCEPT !.exp = tick + Lifetime, !.role = role[cookie.user]]
Renewed(cookie) == [cookie EXCEPT !.exp = tick + Lifetime]

Refresh(k) ==
  /\ visitAt[k] = "sent" /\ act(k) = "refresh"
  /\ IF Valid(carried[k])
     THEN /\ Reply(k, 200, Renewed(carried[k]))
          /\ issued' = [issued EXCEPT ![k] = tick]
     ELSE /\ Reply(k, 401, NoCookie)
          /\ UNCHANGED issued
  /\ UNCHANGED <<plan, carried, browser, rights, auditRows, passed, tick, outages>>

LogOut(k) ==
  /\ visitAt[k] = "sent" /\ act(k) = "logout"
  /\ Reply(k, 200, NoCookie)
  /\ UNCHANGED <<plan, carried, browser, rights, auditRows, visitPast, tick, outages>>

(* Claims, RequireAdmin, RequireRead: a request that needs a session, and  *)
(* one of certain roles.                                                   *)
CallHandled(k) ==
  /\ visitAt[k] = "sent" /\ act(k) = "call"
  /\ IF ~Valid(carried[k]) THEN Reply(k, 401, NoCookie) /\ UNCHANGED passed
     ELSE IF carried[k].role \notin plan[k].needs THEN Reply(k, 403, NoCookie) /\ UNCHANGED passed
     ELSE Reply(k, 200, NoCookie) /\ passed' = [passed EXCEPT ![k] = tick]
  /\ UNCHANGED <<plan, carried, browser, rights, auditRows, issued, tick, outages>>

-----------------------------------------------------------------------------
(* The browser: a login and a refresh that succeed set the cookie, a       *)
(* logout, whose cookie has the same name and path, takes it away.         *)
JarAfterKept(k) ==                        \* mutant: the removal matches no cookie
  IF reply[k].cookie # NoCookie THEN reply[k].cookie ELSE jar
JarAfter(k) ==
  IF act(k) = "logout" THEN NoCookie
  ELSE IF reply[k].cookie # NoCookie THEN reply[k].cookie ELSE jar

Arrive(k) ==
  /\ visitAt[k] = "reply"
  /\ MoveTo(k, "over")
  /\ jar' = JarAfter(k)
  /\ arrivals' = Append(arrivals, k)
  /\ UNCHANGED <<plan, answers, known, rights, auditRows, visitPast, tick, outages>>

LoseVisits(ks) ==
  /\ visitAt' = [k \in Visits |-> IF k \in ks THEN "lost" ELSE visitAt[k]]
  /\ UNCHANGED <<plan, answers, browser, auditRows, visitPast, tick>>

Lose(k) ==
  /\ visitAt[k] \in Serving \cup {"reply"}
  /\ LoseVisits({k}) /\ UNCHANGED <<rights, outages>>

-----------------------------------------------------------------------------
TimePasses ==
  /\ tick < LastTick /\ tick' = tick + 1
  /\ UNCHANGED <<plan, visitAt, answers, browser, rights, auditRows, visitPast, outages>>

Edit == edits > 0 /\ edits' = edits - 1

(* No handler writes the table of users: its operator does. *)
SetRole(u, r) ==
  /\ Edit /\ role' = [role EXCEPT ![u] = r]
  /\ UNCHANGED <<plan, visitAt, answers, browser, auditRows, visitPast, tick, outages>>

(* ON CONFLICT DO UPDATE SET password_hash: a role there is stays.  A      *)
(* failure is a warning, and sessions outlive the process.                 *)
RoleAfterSeed == IF role[Admin] = NoRole THEN "admin" ELSE role[Admin]

Restart ==
  /\ Edit
  /\ LoseVisits({k \in Visits : visitAt[k] \in Serving})
  /\ \/ role' = [role EXCEPT ![Admin] = RoleAfterSeed] /\ UNCHANGED outages
     \/ Outage /\ UNCHANGED role

-----------------------------------------------------------------------------
SessionNext ==
  \/ \E k \in Visits :
       \/ Send(k) \/ LogIn(k) \/ LookupFails(k) \/ RecordLogin(k)
       \/ Refresh(k) \/ LogOut(k) \/ CallHandled(k) \/ Arrive(k) \/ Lose(k)
  \/ \E u \in Users, r \in Roles \cup {NoRole} : SetRole(u, r)
  \/ TimePasses \/ Restart

SessionSpec == SessionInit /\ [][SessionNext]_sessionVars

-----------------------------------------------------------------------------
(***************************************************************************)
(* What may be relied on.                                                  *)
(***************************************************************************)

Issues(j) == act(j) \in {"login", "refresh"} /\ reply[j].cookie # NoCookie

(* A session that is neither renewed nor begun anew ends: whoever is let   *)
(* through has, no longer ago than a cookie lives, logged in or refreshed, *)
(* however often and early that was done before.                           *)
GrantsAreRecent ==
  \A k \in Visits : passed[k] # -1 =>
    \E j \in Visits :
      /\ Issues(j) /\ reply[j].cookie.user = carried[k].user
      /\ issued[j] <= passed[k] /\ passed[k] <= issued[j] + Lifetime + Leeway

(* "A refresh can never change what a session is permitted to do"          *)
(* (routes/auth.rs): a role that lets a request through was found by a     *)
(* login of that user, whatever became of the user's role since.           *)
RightsAreOfALogin ==
  \A k \in Visits : passed[k] # -1 =>
    /\ carried[k].role \in plan[k].needs
    /\ \E j \in Visits :
         /\ act(j) = "login" /\ reply[j].code = 200
         /\ reply[j].cookie.user = carried[k].user /\ reply[j].cookie.role = carried[k].role

(* Whoever is let through once logged in with the role that does it, and   *)
(* has logged in or refreshed lately.                                      *)
GrantsAreEarned == GrantsAreRecent /\ RightsAreOfALogin

(* A browser that was told it is logged out stays so until someone logs    *)
(* in, unless a refresh was under way at that time, whose reply undoes it. *)
LoggedOutStays ==
  jar # NoCookie =>
    \A p \in 1..Len(arrivals) : act(arrivals[p]) = "logout" =>
      \E q \in (p + 1)..Len(arrivals) :
        /\ Issues(arrivals[q])
        /\ act(arrivals[q]) = "login" \/ Len(known[arrivals[q]]) < p

(* "A DB error is not a failed login" (routes/auth.rs): the audit log      *)
(* tells refused logins from those that could not be decided, and holds no *)
(* refusal of a good password while nobody edits the user.                 *)
LoginsAreAudited ==
  \A k \in Visits : act(k) = "login" /\ visitAt[k] \in {"reply", "over"} =>
    /\ reply[k].code = 200 => k \in loginRows \cup unwritten
    /\ reply[k].code = 401 => k \in failRows \cup unwritten
    /\ reply[k].code = 500 => k \notin loginRows \cup failRows
    /\ k \in failRows => ~(plan[k].right /\ plan[k].user = Admin /\ edits = MaxEdits)
=============================================================================
