---------------------------- MODULE SessionProofs ----------------------------
(***************************************************************************)
(* Theorems about sessions, for any visits, users, roles and durations.    *)
(*                                                                         *)
(* The argument: a reply with the code 200 is final, so a login or refresh *)
(* that is behind a cookie stays behind it, wherever the cookie goes.      *)
(***************************************************************************)
EXTENDS Session, TLAPS

(* How far a visit is, and what its reply holds then.                      *)
VisitInv ==
  \A k \in Visits :
    /\ visitAt[k] \in {"waiting", "sent", "granted", "denied"} => reply[k].code = 0
    /\ visitAt[k] \in {"waiting", "sent"} => reply[k].cookie = NoCookie /\ passed[k] = -1
    /\ visitAt[k] \in {"granted", "denied"} => act(k) = "login"
    /\ visitAt[k] = "granted" => reply[k].cookie # NoCookie
    /\ visitAt[k] = "denied" => reply[k].cookie = NoCookie
    /\ visitAt[k] \in {"reply", "over"} /\ reply[k].cookie # NoCookie => reply[k].code = 200
    /\ reply[k].cookie # NoCookie =>
         /\ act(k) \in {"login", "refresh"}
         /\ act(k) = "refresh" => carried[k] # NoCookie
         /\ reply[k].cookie.exp = issued[k] + Lifetime /\ issued[k] <= tick

(* Where a cookie comes from: a login, and someone who made it.            *)
OfALogin(c) ==
  \E j \in Visits :
    /\ act(j) = "login" /\ reply[j].code = 200
    /\ reply[j].cookie.user = c.user /\ reply[j].cookie.role = c.role

Made(c) ==
  \E j \in Visits :
    /\ Issues(j) /\ reply[j].code = 200 /\ reply[j].cookie.user = c.user
    /\ c.exp = issued[j] + Lifetime /\ issued[j] <= tick

CookieInv ==
  /\ jar # NoCookie => OfALogin(jar) /\ Made(jar)
  /\ \A k \in Visits :
       /\ carried[k] # NoCookie => OfALogin(carried[k]) /\ Made(carried[k])
       /\ reply[k].code = 200 /\ reply[k].cookie # NoCookie => OfALogin(reply[k].cookie)

(* Whoever is let through has a cookie of a recent login or refresh.       *)
LetThrough ==
  \A k \in Visits : passed[k] # -1 =>
    /\ carried[k].role \in plan[k].needs /\ OfALogin(carried[k])
    /\ \E j \in Visits :
         /\ Issues(j) /\ reply[j].code = 200 /\ reply[j].cookie.user = carried[k].user
         /\ issued[j] <= passed[k] /\ passed[k] <= issued[j] + Lifetime + Leeway

(* After the first n arrivals, the logout that arrived as number p is      *)
(* followed by a login, or by a refresh that was under way.                *)
Followed(p, n) ==
  \E q \in (p + 1)..n :
    /\ Issues(arrivals[q])
    /\ act(arrivals[q]) = "login" \/ Len(known[arrivals[q]]) < p

Undone(n) == \A p \in 1..n : act(arrivals[p]) = "logout" => Followed(p, n)

JarInv ==
  /\ \A i \in 1..Len(arrivals) : visitAt[arrivals[i]] = "over"
  /\ \A k \in Visits : Len(known[k]) <= Len(arrivals)
  /\ jar # NoCookie => Undone(Len(arrivals))
  /\ \A k \in Visits : carried[k] # NoCookie => Undone(Len(known[k]))

(* What the audit log holds of a visit, before and after it is answered.   *)
AuditRowsInv ==
  /\ edits = MaxEdits => role[Admin] # NoRole
  /\ \A k \in Visits :
       /\ k \in loginRows \cup failRows => visitAt[k] \in {"reply", "over", "lost"}
       /\ visitAt[k] = "denied" =>
            ~(plan[k].right /\ plan[k].user = Admin /\ edits = MaxEdits)
       /\ k \in failRows =>
            ~(plan[k].right /\ plan[k].user = Admin /\ edits = MaxEdits)
       /\ act(k) = "login" /\ visitAt[k] \in {"reply", "over"} =>
            /\ reply[k].code = 200 => k \in loginRows \cup unwritten
            /\ reply[k].code = 401 => k \in failRows \cup unwritten
            /\ reply[k].code = 500 => k \notin loginRows \cup failRows

SessionInv == SessionTypeOK /\ VisitInv /\ CookieInv /\ LetThrough /\ JarInv /\ AuditRowsInv

-----------------------------------------------------------------------------
(***************************************************************************)
(* Before any visit.                                                       *)
(***************************************************************************)

(* The invariant holds before any visit.                                   *)
LEMMA SessionInvInit == SessionInit => SessionInv
<1> SUFFICES ASSUME SessionInit PROVE SessionInv
  OBVIOUS
<1> USE PlansAssumption, DurationsAssumption DEF SessionInit, NoCookie, NoReply
<1>1. SessionTypeOK
  BY DEF SessionTypeOK, Serving
<1>2. VisitInv
  BY DEF VisitInv
<1>3. CookieInv /\ LetThrough
  BY DEF CookieInv, LetThrough
<1>4. JarInv
  BY DEF JarInv
<1>5. AuditRowsInv
  BY DEF AuditRowsInv, act
<1> QED
  BY <1>1, <1>2, <1>3, <1>4, <1>5 DEF SessionInv

-----------------------------------------------------------------------------
(***************************************************************************)
(* Types.                                                                  *)
(***************************************************************************)

(* A cookie is not the absence of one.                                     *)
LEMMA CookieType ==
  ASSUME NEW u \in Users, NEW r \in Roles, NEW e \in Nat
  PROVE  /\ [user |-> u, role |-> r, exp |-> e] \in Cookies
         /\ [user |-> u, role |-> r, exp |-> e] # NoCookie
BY PlansAssumption DEF Cookies, NoCookie

(* Renewing a cookie changes its end and nothing else.                     *)
LEMMA RenewedType ==
  ASSUME NEW c \in Cookies, tick \in Nat
  PROVE  /\ Renewed(c) \in Cookies /\ Renewed(c) # NoCookie
         /\ Renewed(c).user = c.user /\ Renewed(c).role = c.role
         /\ Renewed(c).exp = tick + Lifetime
BY PlansAssumption, DurationsAssumption DEF Cookies, NoCookie, Renewed

(* The clock, and the role of the administrator after a start.             *)
LEMMA NumberTypes ==
  ASSUME SessionTypeOK
  PROVE  /\ tick \in Nat /\ tick + Lifetime \in Nat
         /\ RoleAfterSeed \in Roles \cup {NoRole}
         /\ role' = [role EXCEPT ![Admin] = RoleAfterSeed] => role' \in [Users -> Roles \cup {NoRole}]
<1>1. tick \in 0..LastTick /\ LastTick \in Nat /\ Lifetime \in Nat
  BY DurationsAssumption DEF SessionTypeOK
<1>2. role \in [Users -> Roles \cup {NoRole}]
  BY DEF SessionTypeOK
<1>3. RoleAfterSeed \in Roles \cup {NoRole}
  BY <1>2, PlansAssumption DEF RoleAfterSeed
<1> QED
  BY <1>1, <1>2, <1>3

(* Whoever is admitted gets a cookie.                                      *)
LEMMA AdmittedCookie ==
  ASSUME SessionTypeOK, NEW k \in Visits, Admitted(k)
  PROVE  /\ plan[k].user \in Users /\ role[plan[k].user] \in Roles
         /\ [user |-> plan[k].user, role |-> role[plan[k].user], exp |-> tick + Lifetime] # NoCookie
<1>1. plan[k].user \in Users /\ role[plan[k].user] \in Roles
  BY PlansAssumption DEF SessionTypeOK, Admitted, NoRole
<1>2. tick + Lifetime \in Nat
  BY NumberTypes
<1> QED
  BY <1>1, <1>2, CookieType

(* A reply of the type keeps it.                                           *)
LEMMA ReplyType ==
  ASSUME SessionTypeOK, NEW k \in Visits, NEW n \in {0, 200, 401, 403, 500},
         NEW c \in Cookies \cup {NoCookie}, Reply(k, n, c)
  PROVE  /\ visitAt' \in [Visits -> Serving \cup {"waiting", "reply", "over", "lost"}]
         /\ reply' \in [Visits -> [code : {0, 200, 401, 403, 500}, cookie : Cookies \cup {NoCookie}]]
BY DEF SessionTypeOK, Reply, MoveTo

(* Every step is of the type.                                              *)
LEMMA SessionTypeStep == SessionTypeOK /\ [SessionNext]_sessionVars => SessionTypeOK'
<1> SUFFICES ASSUME SessionTypeOK, [SessionNext]_sessionVars PROVE SessionTypeOK'
  OBVIOUS
<1> USE PlansAssumption, DurationsAssumption DEF SessionTypeOK, answers, rights, auditRows, visitPast, browser, Serving
<1>1. CASE UNCHANGED sessionVars
  BY <1>1 DEF sessionVars
<1>2. ASSUME NEW k \in Visits, Send(k) PROVE SessionTypeOK'
  BY <1>2 DEF Send, MoveTo
<1>3. ASSUME NEW k \in Visits, LogIn(k) PROVE SessionTypeOK'
  <2>1. CASE Admitted(k)
    <3>1. plan[k].user \in Users /\ role[plan[k].user] \in Roles
      BY <2>1 DEF Admitted, NoRole
    <3> DEFINE c == [user |-> plan[k].user, role |-> role[plan[k].user], exp |-> tick + Lifetime]
    <3>2. c \in Cookies
      BY <3>1, CookieType
    <3>3. reply' = [reply EXCEPT ![k] = [code |-> reply[k].code, cookie |-> c]]
      BY <1>3, <2>1 DEF LogIn
    <3>4. reply' \in [Visits -> [code : {0, 200, 401, 403, 500}, cookie : Cookies \cup {NoCookie}]]
      BY <3>2, <3>3
    <3>5. issued' \in [Visits -> Nat] /\ visitAt' \in [Visits -> Serving \cup {"waiting", "reply", "over", "lost"}]
      BY <1>3, <2>1 DEF LogIn, MoveTo
    <3> QED
      BY <1>3, <3>4, <3>5 DEF LogIn
  <2>2. CASE ~Admitted(k)
    BY <1>3, <2>2 DEF LogIn, MoveTo
  <2> QED
    BY <2>1, <2>2
<1>4. ASSUME NEW k \in Visits, LookupFails(k) PROVE SessionTypeOK'
  BY <1>4 DEF LookupFails, AfterLookupError, Reply, MoveTo, Outage
<1>5. ASSUME NEW k \in Visits, RecordLogin(k) PROVE SessionTypeOK'
  BY <1>5 DEF RecordLogin, Reply, MoveTo, Outage
<1>6. ASSUME NEW k \in Visits, Refresh(k) PROVE SessionTypeOK'
  <2>1. CASE Valid(carried[k])
    <3>1. Renewed(carried[k]) \in Cookies
      BY <2>1, RenewedType DEF Valid
    <3>2. Reply(k, 200, Renewed(carried[k])) /\ issued' = [issued EXCEPT ![k] = tick]
      BY <1>6, <2>1 DEF Refresh
    <3>3. issued' \in [Visits -> Nat]
      BY <3>2
    <3> QED
      BY <1>6, <3>1, <3>2, <3>3, ReplyType DEF Refresh
  <2>2. CASE ~Valid(carried[k])
    BY <1>6, <2>2, ReplyType DEF Refresh
  <2> QED
    BY <2>1, <2>2
<1>7. ASSUME NEW k \in Visits, LogOut(k) PROVE SessionTypeOK'
  BY <1>7, ReplyType DEF LogOut
<1>8. ASSUME NEW k \in Visits, CallHandled(k) PROVE SessionTypeOK'
  <2>1. \E n \in {0, 200, 401, 403, 500} : Reply(k, n, NoCookie)
    BY <1>8 DEF CallHandled
  <2>2. /\ visitAt' \in [Visits -> Serving \cup {"waiting", "reply", "over", "lost"}]
        /\ reply' \in [Visits -> [code : {0, 200, 401, 403, 500}, cookie : Cookies \cup {NoCookie}]]
    BY <2>1, ReplyType
  <2>3. passed' \in [Visits -> Nat \cup {-1}]
    BY <1>8 DEF CallHandled
  <2> QED
    BY <1>8, <2>2, <2>3 DEF CallHandled
<1>9. ASSUME NEW k \in Visits, Arrive(k) PROVE SessionTypeOK'
  <2>1. jar' \in Cookies \cup {NoCookie}
    BY <1>9 DEF Arrive, JarAfter
  <2>2. visitAt' \in [Visits -> Serving \cup {"waiting", "reply", "over", "lost"}]
    BY <1>9 DEF Arrive, MoveTo
  <2> QED
    BY <1>9, <2>1, <2>2 DEF Arrive
<1>10. ASSUME NEW k \in Visits, Lose(k) PROVE SessionTypeOK'
  BY <1>10 DEF Lose, LoseVisits
<1>11. ASSUME NEW u \in Users, NEW r \in Roles \cup {NoRole}, SetRole(u, r) PROVE SessionTypeOK'
  BY <1>11 DEF SetRole, Edit
<1>12. CASE TimePasses
  BY <1>12 DEF TimePasses
<1>13. CASE Restart
  <2>1. role' \in [Users -> Roles \cup {NoRole}]
    BY <1>13, NumberTypes DEF Restart
  <2>2. visitAt' \in [Visits -> Serving \cup {"waiting", "reply", "over", "lost"}]
    BY <1>13 DEF Restart, LoseVisits
  <2>3. outages' \in 0..MaxOutages /\ edits' \in 0..MaxEdits
    BY <1>13 DEF Restart, Edit, Outage
  <2> QED
    BY <1>13, <2>1, <2>2, <2>3 DEF Restart, LoseVisits
<1> QED
  BY <1>1, <1>2, <1>3, <1>4, <1>5, <1>6, <1>7, <1>8, <1>9, <1>10, <1>11, <1>12, <1>13 DEF SessionNext

-----------------------------------------------------------------------------
(***************************************************************************)
(* Visits and their replies.                                               *)
(***************************************************************************)

(* The steps of the system, by visit.                                      *)
LEMMA SessionStepCases ==
  ASSUME [SessionNext]_sessionVars
  PROVE  \/ UNCHANGED sessionVars \/ TimePasses \/ Restart
         \/ \E u \in Users, r \in Roles \cup {NoRole} : SetRole(u, r)
         \/ \E k \in Visits :
              \/ Send(k) \/ LogIn(k) \/ LookupFails(k) \/ RecordLogin(k)
              \/ Refresh(k) \/ LogOut(k) \/ CallHandled(k) \/ Arrive(k) \/ Lose(k)
BY DEF SessionNext

(* A reply with the code 200 is final, and so is what arrived.             *)
LEMMA RepliesStay ==
  ASSUME SessionTypeOK, VisitInv, [SessionNext]_sessionVars
  PROVE  /\ plan' = plan /\ tick <= tick'
         /\ \A j \in Visits : reply[j].code = 200 \/ visitAt[j] = "over" =>
              reply'[j] = reply[j] /\ issued'[j] = issued[j]
         /\ \A j \in Visits : visitAt[j] = "over" => visitAt'[j] = "over"
<1> USE DEF SessionTypeOK, answers, rights, auditRows, visitPast, browser
<1>1. CASE UNCHANGED sessionVars
  BY <1>1 DEF sessionVars
<1>2. ASSUME NEW k \in Visits, Send(k) \/ Lose(k) \/ Arrive(k)
      PROVE  /\ plan' = plan /\ tick' = tick /\ reply' = reply /\ issued' = issued
             /\ \A j \in Visits : visitAt[j] = "over" => visitAt'[j] = "over"
  BY <1>2 DEF Send, Lose, Arrive, LoseVisits, MoveTo, Serving
<1>3. ASSUME NEW k \in Visits,
             LogIn(k) \/ LookupFails(k) \/ RecordLogin(k) \/ Refresh(k) \/ LogOut(k) \/ CallHandled(k)
      PROVE  /\ plan' = plan /\ tick' = tick
             /\ reply[k].code = 0 /\ visitAt[k] # "over"
             /\ \A j \in Visits \ {k} : reply'[j] = reply[j] /\ issued'[j] = issued[j]
                                       /\ visitAt'[j] = visitAt[j]
  <2>1. visitAt[k] \in {"sent", "granted", "denied"}
    BY <1>3 DEF LogIn, LookupFails, RecordLogin, Refresh, LogOut, CallHandled
  <2>2. reply[k].code = 0 /\ visitAt[k] # "over"
    BY <2>1 DEF VisitInv
  <2>3. CASE LogIn(k)
    BY <2>2, <2>3 DEF LogIn, MoveTo
  <2>4. CASE LookupFails(k)
    BY <2>2, <2>4 DEF LookupFails, AfterLookupError, Reply, MoveTo
  <2>5. CASE RecordLogin(k)
    BY <2>2, <2>5 DEF RecordLogin, Reply, MoveTo
  <2>6. CASE Refresh(k)
    BY <2>2, <2>6 DEF Refresh, Reply, MoveTo
  <2>7. CASE LogOut(k)
    BY <2>2, <2>7 DEF LogOut, Reply, MoveTo
  <2>8. CASE CallHandled(k)
    BY <2>2, <2>8 DEF CallHandled, Reply, MoveTo
  <2> QED
    BY <1>3, <2>3, <2>4, <2>5, <2>6, <2>7, <2>8
<1>4. CASE TimePasses
  BY <1>4 DEF TimePasses
<1>5. ASSUME NEW u \in Users, NEW r \in Roles \cup {NoRole}, SetRole(u, r)
      PROVE  plan' = plan /\ tick' = tick /\ reply' = reply /\ issued' = issued /\ visitAt' = visitAt
  BY <1>5 DEF SetRole
<1>6. CASE Restart
  BY <1>6 DEF Restart, LoseVisits, Serving
<1>7. tick \in Int
  OBVIOUS
<1>8. ASSUME NEW k \in Visits,
             LogIn(k) \/ LookupFails(k) \/ RecordLogin(k) \/ Refresh(k) \/ LogOut(k) \/ CallHandled(k)
      PROVE  /\ plan' = plan /\ tick <= tick'
             /\ \A j \in Visits : reply[j].code = 200 \/ visitAt[j] = "over" =>
                  reply'[j] = reply[j] /\ issued'[j] = issued[j]
             /\ \A j \in Visits : visitAt[j] = "over" => visitAt'[j] = "over"
  BY <1>3, <1>7, <1>8
<1> QED
  BY <1>1, <1>2, <1>4, <1>5, <1>6, <1>7, <1>8, SessionStepCases

(* Every step keeps how far visits are and what they are answered together. *)
LEMMA VisitStep == SessionTypeOK /\ VisitInv /\ [SessionNext]_sessionVars => VisitInv'
<1> SUFFICES ASSUME SessionTypeOK, VisitInv, [SessionNext]_sessionVars PROVE VisitInv'
  OBVIOUS
<1> USE DurationsAssumption DEF SessionTypeOK, VisitInv, act, answers, rights, auditRows, visitPast, browser
<1>1. CASE UNCHANGED sessionVars
  BY <1>1 DEF sessionVars
<1>2. ASSUME NEW k \in Visits, Send(k) PROVE VisitInv'
  BY <1>2 DEF Send, MoveTo
<1>3. ASSUME NEW k \in Visits, LogIn(k) PROVE VisitInv'
  <2>1. CASE Admitted(k)
    <3>1. plan[k].user \in Users /\ role[plan[k].user] \in Roles
      BY <2>1, PlansAssumption DEF Admitted, NoRole
    <3> DEFINE c == [user |-> plan[k].user, role |-> role[plan[k].user], exp |-> tick + Lifetime]
    <3>2. c # NoCookie
      BY <2>1, AdmittedCookie
    <3>3. reply' = [reply EXCEPT ![k] = [code |-> reply[k].code, cookie |-> c]]
      BY <1>3, <2>1 DEF LogIn
    <3>4. issued' = [issued EXCEPT ![k] = tick] /\ visitAt' = [visitAt EXCEPT ![k] = "granted"]
      BY <1>3, <2>1 DEF LogIn, MoveTo
    <3>5. plan' = plan /\ carried' = carried /\ tick' = tick /\ passed' = passed
      BY <1>3 DEF LogIn
    <3>6. visitAt[k] = "sent" /\ act(k) = "login"
      BY <1>3 DEF LogIn
    <3> HIDE DEF c
    <3>7. reply'[k].cookie.exp = issued'[k] + Lifetime
      BY <3>3, <3>4 DEF c
    <3> QED
      BY <3>2, <3>3, <3>4, <3>5, <3>6, <3>7
  <2>2. CASE ~Admitted(k)
    BY <1>3, <2>2 DEF LogIn, MoveTo
  <2> QED
    BY <2>1, <2>2
<1>4. ASSUME NEW k \in Visits, LookupFails(k) PROVE VisitInv'
  BY <1>4 DEF LookupFails, AfterLookupError, Reply, MoveTo
<1>5. ASSUME NEW k \in Visits, RecordLogin(k) PROVE VisitInv'
  BY <1>5 DEF RecordLogin, Reply, MoveTo
<1>6. ASSUME NEW k \in Visits, Refresh(k) PROVE VisitInv'
  <2>1. CASE Valid(carried[k])
    <3>1. /\ Renewed(carried[k]).exp = tick + Lifetime
          /\ Renewed(carried[k]) # NoCookie /\ carried[k] # NoCookie
      BY <2>1, RenewedType DEF Valid
    <3> DEFINE c == Renewed(carried[k])
    <3>2. /\ reply' = [reply EXCEPT ![k] = [code |-> 200, cookie |-> c]]
          /\ visitAt' = [visitAt EXCEPT ![k] = "reply"] /\ issued' = [issued EXCEPT ![k] = tick]
      BY <1>6, <2>1 DEF Refresh, Reply, MoveTo
    <3>3. plan' = plan /\ carried' = carried /\ tick' = tick /\ passed' = passed /\ act(k) = "refresh"
      BY <1>6 DEF Refresh
    <3> HIDE DEF c
    <3>4. c.exp = tick + Lifetime /\ c # NoCookie
      BY <3>1 DEF c
    <3>5. reply'[k].cookie = c /\ reply'[k].code = 200 /\ issued'[k] = tick /\ visitAt'[k] = "reply"
      BY <3>2
    <3>6. tick \in Int
      OBVIOUS
    <3> QED
      BY <3>1, <3>2, <3>3, <3>4, <3>5, <3>6
  <2>2. CASE ~Valid(carried[k])
    <3>1. /\ reply' = [reply EXCEPT ![k] = [code |-> 401, cookie |-> NoCookie]]
          /\ visitAt' = [visitAt EXCEPT ![k] = "reply"] /\ issued' = issued
      BY <1>6, <2>2 DEF Refresh, Reply, MoveTo
    <3>2. plan' = plan /\ carried' = carried /\ tick' = tick /\ passed' = passed
      BY <1>6 DEF Refresh
    <3> QED
      BY <3>1, <3>2
  <2> QED
    BY <2>1, <2>2
<1>7. ASSUME NEW k \in Visits, LogOut(k) PROVE VisitInv'
  BY <1>7 DEF LogOut, Reply, MoveTo
<1>8. ASSUME NEW k \in Visits, CallHandled(k) PROVE VisitInv'
  <2>1. PICK n \in {0, 200, 401, 403, 500} : Reply(k, n, NoCookie)
    BY <1>8 DEF CallHandled
  <2>2. /\ plan' = plan /\ carried' = carried /\ tick' = tick /\ issued' = issued
        /\ \A j \in Visits \ {k} : passed'[j] = passed[j]
    BY <1>8 DEF CallHandled
  <2> QED
    BY <2>1, <2>2 DEF Reply, MoveTo
<1>9. ASSUME NEW k \in Visits, Arrive(k) PROVE VisitInv'
  BY <1>9 DEF Arrive, MoveTo
<1>10. ASSUME NEW k \in Visits, Lose(k) PROVE VisitInv'
  BY <1>10 DEF Lose, LoseVisits
<1>11. ASSUME NEW u \in Users, NEW r \in Roles \cup {NoRole}, SetRole(u, r) PROVE VisitInv'
  BY <1>11 DEF SetRole
<1>12. CASE TimePasses
  BY <1>12 DEF TimePasses
<1>13. CASE Restart
  BY <1>13 DEF Restart, LoseVisits
<1> QED
  BY <1>1, <1>2, <1>3, <1>4, <1>5, <1>6, <1>7, <1>8, <1>9, <1>10, <1>11, <1>12, <1>13, SessionStepCases

-----------------------------------------------------------------------------
(***************************************************************************)
(* Cookies and where they come from.                                       *)
(***************************************************************************)

(* The origins of a cookie are still there after a step.                   *)
LEMMA OriginsStay ==
  ASSUME SessionTypeOK, VisitInv, [SessionNext]_sessionVars, NEW c
  PROVE  /\ OfALogin(c) =>
              \E j \in Visits :
                /\ act(j)' = "login" /\ reply'[j].code = 200
                /\ reply'[j].cookie.user = c.user /\ reply'[j].cookie.role = c.role
         /\ Made(c) =>
              \E j \in Visits :
                /\ Issues(j)' /\ reply'[j].code = 200 /\ reply'[j].cookie.user = c.user
                /\ c.exp = issued'[j] + Lifetime /\ issued'[j] <= tick'
<1>1. /\ plan' = plan /\ tick <= tick'
      /\ \A j \in Visits : reply[j].code = 200 => reply'[j] = reply[j] /\ issued'[j] = issued[j]
  BY RepliesStay
<1>2. tick \in Int /\ tick' \in Int /\ \A j \in Visits : issued[j] \in Int
  BY SessionTypeStep DEF SessionTypeOK
<1>3. ASSUME OfALogin(c)
      PROVE  \E j \in Visits :
                /\ act(j)' = "login" /\ reply'[j].code = 200
                /\ reply'[j].cookie.user = c.user /\ reply'[j].cookie.role = c.role
  BY <1>1, <1>3 DEF OfALogin, act
<1>4. ASSUME Made(c)
      PROVE  \E j \in Visits :
                /\ Issues(j)' /\ reply'[j].code = 200 /\ reply'[j].cookie.user = c.user
                /\ c.exp = issued'[j] + Lifetime /\ issued'[j] <= tick'
  <2>1. PICK j \in Visits :
          /\ Issues(j) /\ reply[j].code = 200 /\ reply[j].cookie.user = c.user
          /\ c.exp = issued[j] + Lifetime /\ issued[j] <= tick
    BY <1>4 DEF Made
  <2>2. Issues(j)' /\ reply'[j] = reply[j] /\ issued'[j] = issued[j]
    BY <1>1, <2>1 DEF Issues, act
  <2>3. issued'[j] <= tick'
    BY <1>1, <1>2, <2>1, <2>2
  <2> QED
    BY <2>1, <2>2, <2>3
<1> QED
  BY <1>3, <1>4

(* A request carries what the browser has, the browser has what a reply    *)
(* brought, and a reply brings a login or a renewal.                       *)
LEMMA CookiesTravel ==
  ASSUME SessionTypeOK, VisitInv, [SessionNext]_sessionVars
  PROVE  /\ \A k \in Visits : carried'[k] = carried[k]
              \/ (carried'[k] = jar /\ visitAt[k] = "waiting")
         /\ \/ jar' = jar \/ jar' = NoCookie
            \/ \E k \in Visits : /\ visitAt[k] = "reply" /\ jar' = reply[k].cookie
         /\ \A k \in Visits : reply'[k].code = 200 /\ reply'[k].cookie # NoCookie =>
              \/ reply'[k] = reply[k] \/ act(k) = "login"
              \/ /\ carried[k] # NoCookie
                 /\ reply'[k].cookie.user = carried[k].user
                 /\ reply'[k].cookie.role = carried[k].role
<1> USE DEF SessionTypeOK, answers, rights, auditRows, visitPast, browser
<1> DEFINE Goal ==
         /\ \A k \in Visits : carried'[k] = carried[k]
              \/ (carried'[k] = jar /\ visitAt[k] = "waiting")
         /\ \/ jar' = jar \/ jar' = NoCookie
            \/ \E k \in Visits : /\ visitAt[k] = "reply" /\ jar' = reply[k].cookie
         /\ \A k \in Visits : reply'[k].code = 200 /\ reply'[k].cookie # NoCookie =>
              \/ reply'[k] = reply[k] \/ act(k) = "login"
              \/ /\ carried[k] # NoCookie
                 /\ reply'[k].cookie.user = carried[k].user
                 /\ reply'[k].cookie.role = carried[k].role
<1>1. CASE UNCHANGED sessionVars
  BY <1>1 DEF sessionVars
<1>2. ASSUME NEW k \in Visits, Send(k) PROVE Goal
  BY <1>2 DEF Send
<1>3. ASSUME NEW k \in Visits, LogIn(k) PROVE Goal
  BY <1>3 DEF LogIn
<1>4. ASSUME NEW k \in Visits, LookupFails(k) PROVE Goal
  BY <1>4 DEF LookupFails, AfterLookupError, Reply
<1>5. ASSUME NEW k \in Visits, RecordLogin(k) PROVE Goal
  BY <1>5 DEF RecordLogin, Reply, VisitInv
<1>6. ASSUME NEW k \in Visits, Refresh(k) PROVE Goal
  <2>1. CASE Valid(carried[k])
    <3>1. /\ Renewed(carried[k]).user = carried[k].user /\ Renewed(carried[k]).role = carried[k].role
          /\ carried[k] # NoCookie
      BY <2>1, RenewedType, NumberTypes DEF Valid
    <3> QED
      BY <1>6, <2>1, <3>1 DEF Refresh, Reply
  <2>2. CASE ~Valid(carried[k])
    BY <1>6, <2>2 DEF Refresh, Reply
  <2> QED
    BY <2>1, <2>2
<1>7. ASSUME NEW k \in Visits, LogOut(k) PROVE Goal
  BY <1>7 DEF LogOut, Reply
<1>8. ASSUME NEW k \in Visits, CallHandled(k) PROVE Goal
  <2>1. PICK n \in {0, 200, 401, 403, 500} : Reply(k, n, NoCookie)
    BY <1>8 DEF CallHandled
  <2> QED
    BY <1>8, <2>1 DEF CallHandled, Reply
<1>9. ASSUME NEW k \in Visits, Arrive(k) PROVE Goal
  BY <1>9 DEF Arrive, JarAfter
<1>10. ASSUME NEW k \in Visits, Lose(k) PROVE Goal
  BY <1>10 DEF Lose, LoseVisits
<1>11. ASSUME NEW u \in Users, NEW r \in Roles \cup {NoRole}, SetRole(u, r) PROVE Goal
  BY <1>11 DEF SetRole
<1>12. CASE TimePasses
  BY <1>12 DEF TimePasses
<1>13. CASE Restart
  BY <1>13 DEF Restart, LoseVisits
<1> QED
  BY <1>1, <1>2, <1>3, <1>4, <1>5, <1>6, <1>7, <1>8, <1>9, <1>10, <1>11, <1>12, <1>13, SessionStepCases

(* Every step keeps the origins of every cookie.                           *)
LEMMA CookieStep ==
  ASSUME SessionTypeOK, VisitInv, CookieInv, [SessionNext]_sessionVars
  PROVE  CookieInv'
<1>1. ASSUME NEW k \in Visits, visitAt[k] = "reply", reply[k].cookie # NoCookie
      PROVE  OfALogin(reply[k].cookie) /\ Made(reply[k].cookie)
  <2>1. reply[k].code = 200
    BY <1>1 DEF VisitInv
  <2>2. Made(reply[k].cookie)
    BY <1>1, <2>1 DEF Made, Issues, VisitInv
  <2> QED
    BY <1>1, <2>1, <2>2 DEF CookieInv
<1>2. jar' # NoCookie => OfALogin(jar') /\ Made(jar')
  BY <1>1, CookiesTravel DEF CookieInv
<1>3. ASSUME jar' # NoCookie PROVE OfALogin(jar)' /\ Made(jar)'
  <2>1. \E j \in Visits :
                /\ act(j)' = "login" /\ reply'[j].code = 200
                /\ reply'[j].cookie.user = jar'.user /\ reply'[j].cookie.role = jar'.role
    BY <1>2, <1>3, OriginsStay
  <2>2. \E j \in Visits :
                /\ Issues(j)' /\ reply'[j].code = 200 /\ reply'[j].cookie.user = jar'.user
                /\ jar'.exp = issued'[j] + Lifetime /\ issued'[j] <= tick'
    BY <1>2, <1>3, OriginsStay
  <2> QED
    BY <2>1, <2>2 DEF OfALogin, Made
<1>4. ASSUME NEW k \in Visits, carried'[k] # NoCookie
      PROVE  OfALogin(carried[k])' /\ Made(carried[k])'
  <2>1. OfALogin(carried'[k]) /\ Made(carried'[k])
    <3>1. carried'[k] = carried[k] \/ carried'[k] = jar
      BY CookiesTravel
    <3> QED
      BY <1>4, <3>1 DEF CookieInv
  <2>2. \E j \in Visits :
                /\ act(j)' = "login" /\ reply'[j].code = 200
                /\ reply'[j].cookie.user = carried'[k].user /\ reply'[j].cookie.role = carried'[k].role
    BY <2>1, OriginsStay
  <2>3. \E j \in Visits :
                /\ Issues(j)' /\ reply'[j].code = 200 /\ reply'[j].cookie.user = carried'[k].user
                /\ carried'[k].exp = issued'[j] + Lifetime /\ issued'[j] <= tick'
    BY <2>1, OriginsStay
  <2> QED
    BY <2>2, <2>3 DEF OfALogin, Made
<1>5. ASSUME NEW k \in Visits, reply'[k].code = 200, reply'[k].cookie # NoCookie
      PROVE  OfALogin(reply[k].cookie)'
  <2>1. CASE act(k) = "login"
    <3>1. act(k)' = "login"
      BY <2>1, RepliesStay DEF act
    <3> QED
      BY <1>5, <3>1 DEF OfALogin
  <2>2. CASE reply'[k] = reply[k]
    <3>1. OfALogin(reply'[k].cookie)
      BY <1>5, <2>2 DEF CookieInv
    <3>2. \E j \in Visits :
                /\ act(j)' = "login" /\ reply'[j].code = 200
                /\ reply'[j].cookie.user = reply'[k].cookie.user
                /\ reply'[j].cookie.role = reply'[k].cookie.role
      BY <3>1, OriginsStay
    <3> QED
      BY <3>2 DEF OfALogin
  <2>3. CASE /\ carried[k] # NoCookie
             /\ reply'[k].cookie.user = carried[k].user
             /\ reply'[k].cookie.role = carried[k].role
    <3>1. OfALogin(carried[k])
      BY <2>3 DEF CookieInv
    <3>2. \E j \in Visits :
                /\ act(j)' = "login" /\ reply'[j].code = 200
                /\ reply'[j].cookie.user = carried[k].user
                /\ reply'[j].cookie.role = carried[k].role
      BY <3>1, OriginsStay
    <3> QED
      BY <2>3, <3>2 DEF OfALogin
  <2> QED
    BY <1>5, <2>1, <2>2, <2>3, CookiesTravel
<1> QED
  BY <1>3, <1>4, <1>5 DEF CookieInv

-----------------------------------------------------------------------------
(***************************************************************************)
(* Who is let through.                                                     *)
(***************************************************************************)

(* A step lets one visit through, with a cookie that is valid and has one  *)
(* of the roles asked for, or none.                                        *)
LEMMA PassesBy ==
  ASSUME SessionTypeOK, [SessionNext]_sessionVars, NEW k \in Visits
  PROVE  \/ passed'[k] = passed[k]
         \/ /\ passed'[k] = tick /\ carried'[k] = carried[k]
            /\ Valid(carried[k]) /\ carried[k].role \in plan[k].needs
<1> USE DEF SessionTypeOK, visitPast
<1>1. CASE UNCHANGED sessionVars \/ TimePasses \/ Restart
  BY <1>1 DEF sessionVars, TimePasses, Restart, LoseVisits
<1>2. ASSUME NEW u \in Users, NEW r \in Roles \cup {NoRole}, SetRole(u, r) PROVE passed' = passed
  BY <1>2 DEF SetRole
<1>3. ASSUME NEW j \in Visits,
             \/ Send(j) \/ LogIn(j) \/ LookupFails(j) \/ RecordLogin(j)
             \/ Refresh(j) \/ LogOut(j) \/ Arrive(j) \/ Lose(j)
      PROVE  passed' = passed
  BY <1>3 DEF Send, LogIn, LookupFails, RecordLogin, Refresh, LogOut, Arrive, Lose, LoseVisits
<1>4. ASSUME NEW j \in Visits, CallHandled(j)
      PROVE  \/ passed'[k] = passed[k]
             \/ /\ passed'[k] = tick /\ carried'[k] = carried[k]
                /\ Valid(carried[k]) /\ carried[k].role \in plan[k].needs
  BY <1>4 DEF CallHandled
<1> QED
  BY <1>1, <1>2, <1>3, <1>4, SessionStepCases

(* Every step keeps what those let through have.                           *)
LEMMA LetThroughStep ==
  ASSUME SessionTypeOK, VisitInv, CookieInv, LetThrough, [SessionNext]_sessionVars
  PROVE  LetThrough'
<1> SUFFICES ASSUME NEW k \in Visits, passed'[k] # -1
             PROVE  /\ carried'[k].role \in plan'[k].needs /\ OfALogin(carried[k])'
                    /\ \E j \in Visits :
                         /\ Issues(j)' /\ reply'[j].code = 200 /\ reply'[j].cookie.user = carried'[k].user
                         /\ issued'[j] <= passed'[k] /\ passed'[k] <= issued'[j] + Lifetime + Leeway
  BY DEF LetThrough
<1>1. /\ plan' = plan
      /\ \A j \in Visits : reply[j].code = 200 => reply'[j] = reply[j] /\ issued'[j] = issued[j]
  BY RepliesStay
<1>2. /\ carried'[k] = carried[k] /\ carried[k].role \in plan[k].needs /\ OfALogin(carried[k])
      /\ \E j \in Visits :
           /\ Issues(j) /\ reply[j].code = 200 /\ reply[j].cookie.user = carried[k].user
           /\ issued[j] <= passed'[k] /\ passed'[k] <= issued[j] + Lifetime + Leeway
  <2>1. CASE passed'[k] = passed[k]
    <3>1. visitAt[k] # "waiting"
      BY <2>1 DEF VisitInv
    <3>2. carried'[k] = carried[k]
      BY <3>1, CookiesTravel
    <3> QED
      BY <2>1, <3>2 DEF LetThrough
  <2>2. CASE /\ passed'[k] = tick /\ carried'[k] = carried[k]
             /\ Valid(carried[k]) /\ carried[k].role \in plan[k].needs
    <3>1. OfALogin(carried[k]) /\ Made(carried[k])
      BY <2>2 DEF Valid, CookieInv
    <3>2. PICK j \in Visits :
            /\ Issues(j) /\ reply[j].code = 200 /\ reply[j].cookie.user = carried[k].user
            /\ carried[k].exp = issued[j] + Lifetime /\ issued[j] <= tick
      BY <3>1 DEF Made
    <3>3. tick \in Int /\ issued[j] \in Int /\ Lifetime \in Int /\ Leeway \in Int
      BY DurationsAssumption DEF SessionTypeOK
    <3>4. carried[k].exp >= tick - Leeway
      BY <2>2 DEF Valid
    <3>5. issued[j] <= passed'[k] /\ passed'[k] <= issued[j] + Lifetime + Leeway
      BY <2>2, <3>2, <3>3, <3>4
    <3> QED
      BY <2>2, <3>1, <3>2, <3>5
  <2> QED
    BY <2>1, <2>2, PassesBy
<1>3. OfALogin(carried[k])'
  <2>1. \E j \in Visits :
          /\ act(j)' = "login" /\ reply'[j].code = 200
          /\ reply'[j].cookie.user = carried[k].user /\ reply'[j].cookie.role = carried[k].role
    BY <1>2, OriginsStay
  <2> QED
    BY <1>2, <2>1 DEF OfALogin
<1>4. PICK j \in Visits :
        /\ Issues(j) /\ reply[j].code = 200 /\ reply[j].cookie.user = carried[k].user
        /\ issued[j] <= passed'[k] /\ passed'[k] <= issued[j] + Lifetime + Leeway
  BY <1>2
<1>5. Issues(j)' /\ reply'[j] = reply[j] /\ issued'[j] = issued[j]
  BY <1>1, <1>4 DEF Issues, act
<1> QED
  BY <1>1, <1>2, <1>3, <1>4, <1>5

-----------------------------------------------------------------------------
(***************************************************************************)
(* The browser.                                                            *)
(***************************************************************************)

(* What arrived, and what was known when a visit that is over was sent,    *)
(* stay; a reply that arrives is the last, and a visit that is sent knows  *)
(* of every reply there was.                                               *)
LEMMA ArrivalsStay ==
  ASSUME SessionTypeOK, VisitInv, [SessionNext]_sessionVars
  PROVE  /\ \/ arrivals' = arrivals /\ jar' = jar
            \/ \E k \in Visits : /\ visitAt[k] = "reply" /\ visitAt'[k] = "over"
                                 /\ arrivals' = Append(arrivals, k) /\ jar' = JarAfter(k)
                                 /\ known' = known
         /\ \A k \in Visits : \/ known'[k] = known[k] /\ carried'[k] = carried[k]
                              \/ /\ known'[k] = arrivals /\ carried'[k] = jar
                                 /\ visitAt[k] = "waiting" /\ arrivals' = arrivals
<1> USE DEF SessionTypeOK, answers, browser
<1> DEFINE Goal ==
         /\ \/ arrivals' = arrivals /\ jar' = jar
            \/ \E k \in Visits : /\ visitAt[k] = "reply" /\ visitAt'[k] = "over"
                                 /\ arrivals' = Append(arrivals, k) /\ jar' = JarAfter(k)
                                 /\ known' = known
         /\ \A k \in Visits : \/ known'[k] = known[k] /\ carried'[k] = carried[k]
                              \/ /\ known'[k] = arrivals /\ carried'[k] = jar
                                 /\ visitAt[k] = "waiting" /\ arrivals' = arrivals
<1>1. CASE UNCHANGED sessionVars
  BY <1>1 DEF sessionVars
<1>6. CASE TimePasses \/ Restart
  BY <1>6 DEF TimePasses, Restart, LoseVisits
<1>2. ASSUME NEW u \in Users, NEW r \in Roles \cup {NoRole}, SetRole(u, r) PROVE Goal
  BY <1>2 DEF SetRole
<1>3. ASSUME NEW j \in Visits,
             \/ LogIn(j) \/ LookupFails(j) \/ RecordLogin(j)
             \/ Refresh(j) \/ LogOut(j) \/ CallHandled(j) \/ Lose(j)
      PROVE  Goal
  BY <1>3 DEF LogIn, LookupFails, RecordLogin, Refresh, LogOut, CallHandled, Lose, LoseVisits
<1>4. ASSUME NEW j \in Visits, Send(j) PROVE Goal
  BY <1>4 DEF Send
<1>5. ASSUME NEW j \in Visits, Arrive(j) PROVE Goal
  <2>1. visitAt'[j] = "over"
    BY <1>5 DEF Arrive, MoveTo
  <2> QED
    BY <1>5, <2>1 DEF Arrive
<1> QED
  BY <1>1, <1>2, <1>3, <1>4, <1>5, <1>6, SessionStepCases

(* What makes up for the logouts among the first n arrivals stays.         *)
LEMMA UndoneStays ==
  ASSUME SessionTypeOK, VisitInv, JarInv, [SessionNext]_sessionVars,
         NEW n \in Nat, n <= Len(arrivals), Undone(n)
  PROVE  \A p \in 1..n : act(arrivals[p])' = "logout" =>
           \E q \in (p + 1)..n :
             /\ Issues(arrivals[q])'
             /\ act(arrivals[q])' = "login" \/ Len(known[arrivals[q]])' < p
<1>1. arrivals \in Seq(Visits)
  BY DEF SessionTypeOK
<1>2. \A i \in 1..n : arrivals'[i] = arrivals[i]
  BY <1>1, ArrivalsStay
<1>3. ASSUME NEW i \in 1..n
      PROVE  /\ act(arrivals[i])' = act(arrivals[i])
             /\ Issues(arrivals[i])' = Issues(arrivals[i])
             /\ known'[arrivals'[i]] = known[arrivals[i]]
  <2>1. arrivals[i] \in Visits /\ visitAt[arrivals[i]] = "over"
    BY <1>1 DEF JarInv
  <2>2. plan' = plan /\ reply'[arrivals[i]] = reply[arrivals[i]]
    BY <2>1, RepliesStay
  <2>3. known'[arrivals[i]] = known[arrivals[i]]
    BY <2>1, ArrivalsStay
  <2> QED
    BY <1>2, <2>2, <2>3 DEF act, Issues
<1> SUFFICES ASSUME NEW p \in 1..n, act(arrivals[p])' = "logout"
             PROVE  \E q \in (p + 1)..n :
                      /\ Issues(arrivals[q])'
                      /\ act(arrivals[q])' = "login" \/ Len(known[arrivals[q]])' < p
  OBVIOUS
<1>4. PICK q \in (p + 1)..n :
        /\ Issues(arrivals[q])
        /\ act(arrivals[q]) = "login" \/ Len(known[arrivals[q]]) < p
  BY <1>3 DEF Undone, Followed
<1>5. q \in 1..n
  OBVIOUS
<1> QED
  BY <1>3, <1>4, <1>5

(* Every step keeps what a browser with a cookie has been told.            *)
LEMMA JarStep ==
  ASSUME SessionTypeOK, VisitInv, JarInv, [SessionNext]_sessionVars
  PROVE  JarInv'
<1>1. /\ arrivals \in Seq(Visits) /\ Len(arrivals) \in Nat
      /\ \A k \in Visits : known[k] \in Seq(Visits) /\ Len(known[k]) \in Nat
  BY DEF SessionTypeOK
<1>2. \A i \in 1..Len(arrivals') : visitAt'[arrivals'[i]] = "over"
  <2>1. \A j \in Visits : visitAt[j] = "over" => visitAt'[j] = "over"
    BY RepliesStay
  <2>2. \A i \in 1..Len(arrivals) : arrivals[i] \in Visits /\ visitAt[arrivals[i]] = "over"
    BY <1>1 DEF JarInv
  <2> QED
    BY <1>1, <2>1, <2>2, ArrivalsStay
<1>3. \A k \in Visits : Len(known'[k]) <= Len(arrivals')
  <2>1. Len(arrivals) <= Len(arrivals')
    BY <1>1, ArrivalsStay
  <2> QED
    BY <1>1, <2>1, ArrivalsStay DEF JarInv
<1>4. ASSUME NEW k \in Visits, carried'[k] # NoCookie
      PROVE  Undone(Len(known[k]))'
  <2>1. /\ Undone(Len(known'[k])) /\ Len(known'[k]) <= Len(arrivals) /\ Len(known'[k]) \in Nat
    BY <1>1, <1>4, ArrivalsStay DEF JarInv
  <2> DEFINE n == Len(known'[k])
  <2>2. \A p \in 1..n : act(arrivals[p])' = "logout" =>
           \E q \in (p + 1)..n :
             /\ Issues(arrivals[q])'
             /\ act(arrivals[q])' = "login" \/ Len(known[arrivals[q]])' < p
    BY <2>1, UndoneStays
  <2> QED
    BY <2>2 DEF Undone, Followed
<1>5. ASSUME jar' # NoCookie PROVE Undone(Len(arrivals))'
  <2>1. CASE arrivals' = arrivals /\ jar' = jar
    <3>1. Undone(Len(arrivals))
      BY <1>5, <2>1 DEF JarInv
    <3>2. \A p \in 1..Len(arrivals) : act(arrivals[p])' = "logout" =>
           \E q \in (p + 1)..Len(arrivals) :
             /\ Issues(arrivals[q])'
             /\ act(arrivals[q])' = "login" \/ Len(known[arrivals[q]])' < p
      BY <1>1, <3>1, UndoneStays
    <3> QED
      BY <2>1, <3>2 DEF Undone, Followed
  <2>2. ASSUME NEW k \in Visits, visitAt[k] = "reply", known' = known,
               arrivals' = Append(arrivals, k), jar' = JarAfter(k)
        PROVE  Undone(Len(arrivals))'
    <3> DEFINE n == Len(arrivals)
    <3>1. /\ Len(arrivals') = n + 1 /\ arrivals'[n + 1] = k /\ n \in Nat
          /\ \A i \in 1..n : arrivals'[i] = arrivals[i]
      BY <1>1, <2>2
    <3>2. act(k) # "logout" /\ plan' = plan
      BY <1>5, <2>2, RepliesStay DEF JarAfter
    <3>3. CASE reply[k].cookie = NoCookie
      <4>1. Undone(n)
        BY <1>5, <2>2, <3>2, <3>3 DEF JarInv, JarAfter
      <4>2. \A p \in 1..n : act(arrivals[p])' = "logout" =>
             \E q \in (p + 1)..n :
               /\ Issues(arrivals[q])'
               /\ act(arrivals[q])' = "login" \/ Len(known[arrivals[q]])' < p
        BY <3>1, <4>1, UndoneStays
      <4>3. ASSUME NEW p \in 1..(n + 1), act(arrivals[p])' = "logout"
            PROVE  \E q \in (p + 1)..(n + 1) :
               /\ Issues(arrivals[q])'
               /\ act(arrivals[q])' = "login" \/ Len(known[arrivals[q]])' < p
        <5>1. p # n + 1
          BY <3>1, <3>2, <4>3 DEF act
        <5>2. p \in 1..n /\ (p + 1)..n \subseteq (p + 1)..(n + 1)
          BY <3>1, <5>1
        <5> QED
          BY <4>2, <4>3, <5>2
      <4> QED
        BY <3>1, <4>3 DEF Undone, Followed
    <3>4. CASE reply[k].cookie # NoCookie
      <4>1. reply[k].code = 200 /\ act(k) \in {"login", "refresh"}
            /\ (act(k) = "refresh" => carried[k] # NoCookie)
        BY <2>2, <3>4 DEF VisitInv
      <4>2. Issues(k)' /\ act(k)' = act(k)
        BY <3>2, <3>4, <4>1, RepliesStay DEF Issues, act
      <4>3. ASSUME NEW p \in 1..(n + 1), act(arrivals[p])' = "logout"
            PROVE  \E q \in (p + 1)..(n + 1) :
               /\ Issues(arrivals[q])'
               /\ act(arrivals[q])' = "login" \/ Len(known[arrivals[q]])' < p
        <5>1. p # n + 1
          BY <3>1, <3>2, <4>3 DEF act
        <5>2. n + 1 \in (p + 1)..(n + 1) /\ p \in 1..n
          BY <3>1, <5>1
        <5>3. ASSUME NEW q, q = n + 1
              PROVE  Issues(arrivals[q])' /\ act(arrivals[q])' = act(k) /\ Len(known[arrivals[q]])' = Len(known[k])
          BY <5>3, <2>2, <3>1, <4>2 DEF Issues, act
        <5>4. CASE act(k) = "login" \/ Len(known[k]) < p
          BY <5>2, <5>3, <5>4
        <5>5. CASE act(k) = "refresh" /\ ~(Len(known[k]) < p)
          <6> DEFINE m == Len(known[k])
          <6>1. Undone(m) /\ m <= n /\ m \in Nat
            BY <1>1, <4>1, <5>5 DEF JarInv
          <6>2. \A r \in 1..m : act(arrivals[r])' = "logout" =>
                 \E q \in (r + 1)..m :
                   /\ Issues(arrivals[q])'
                   /\ act(arrivals[q])' = "login" \/ Len(known[arrivals[q]])' < r
            BY <6>1, UndoneStays
          <6>3. p \in 1..m /\ (p + 1)..m \subseteq (p + 1)..(n + 1)
            BY <3>1, <5>2, <5>5, <6>1
          <6> HIDE DEF m
          <6> QED
            BY <4>3, <6>2, <6>3
        <5> QED
          BY <4>1, <5>4, <5>5
      <4> QED
        BY <3>1, <4>3 DEF Undone, Followed
    <3> QED
      BY <3>3, <3>4
  <2> QED
    BY <2>1, <2>2, ArrivalsStay
<1> QED
  BY <1>2, <1>3, <1>4, <1>5 DEF JarInv

-----------------------------------------------------------------------------
(***************************************************************************)
(* The audit log.                                                          *)
(***************************************************************************)

(* Whoever has a good password and is the administrator is admitted while  *)
(* nobody has edited the user.                                             *)
LEMMA AdminIsAdmitted ==
  ASSUME AuditRowsInv, NEW k \in Visits, ~Admitted(k)
  PROVE  ~(plan[k].right /\ plan[k].user = Admin /\ edits = MaxEdits)
BY DEF AuditRowsInv, Admitted

(* Every step keeps what the audit log holds.                              *)
LEMMA AuditRowsStep ==
  ASSUME SessionTypeOK, VisitInv, AuditRowsInv, [SessionNext]_sessionVars
  PROVE  AuditRowsInv'
<1> USE DEF SessionTypeOK, AuditRowsInv, act, answers, rights, auditRows, visitPast, browser
<1>1. CASE UNCHANGED sessionVars
  BY <1>1 DEF sessionVars
<1>2. ASSUME NEW k \in Visits, Send(k) PROVE AuditRowsInv'
  BY <1>2 DEF Send, MoveTo
<1>3. ASSUME NEW k \in Visits, LogIn(k) PROVE AuditRowsInv'
  <2>1. CASE Admitted(k)
    <3>1. visitAt' = [visitAt EXCEPT ![k] = "granted"] /\ \A j \in Visits \ {k} : reply'[j] = reply[j]
      BY <1>3, <2>1 DEF LogIn, MoveTo
    <3>2. UNCHANGED <<plan, role, edits, loginRows, failRows, unwritten>> /\ visitAt[k] = "sent"
      BY <1>3 DEF LogIn
    <3> QED
      BY <3>1, <3>2
  <2>2. CASE ~Admitted(k)
    <3>1. visitAt' = [visitAt EXCEPT ![k] = "denied"] /\ reply' = reply
      BY <1>3, <2>2 DEF LogIn, MoveTo
    <3>2. UNCHANGED <<plan, role, edits, loginRows, failRows, unwritten>> /\ visitAt[k] = "sent"
      BY <1>3 DEF LogIn
    <3>3. ~(plan[k].right /\ plan[k].user = Admin /\ edits = MaxEdits)
      BY <2>2, AdminIsAdmitted
    <3> QED
      BY <3>1, <3>2, <3>3
  <2> QED
    BY <2>1, <2>2
<1>4. ASSUME NEW k \in Visits, NEW n \in {200, 401, 403, 500}, NEW c, Reply(k, n, c),
             visitAt[k] = "sent", act(k) = "login" => n = 500,
             plan' = plan, role' = role, edits' = edits,
             loginRows' = loginRows, failRows' = failRows, unwritten' = unwritten
      PROVE  AuditRowsInv'
  BY <1>4 DEF Reply, MoveTo
<1>5. ASSUME NEW k \in Visits, LookupFails(k) PROVE AuditRowsInv'
  BY <1>4, <1>5 DEF LookupFails, AfterLookupError
<1>6. ASSUME NEW k \in Visits, RecordLogin(k) PROVE AuditRowsInv'
  <2>1. visitAt[k] \in {"granted", "denied"} /\ UNCHANGED <<plan, role, edits>>
    BY <1>6 DEF RecordLogin
  <2>2. /\ visitAt' = [visitAt EXCEPT ![k] = "reply"]
        /\ \A j \in Visits \ {k} : reply'[j] = reply[j]
        /\ visitAt[k] = "granted" => reply'[k].code = 200
        /\ visitAt[k] = "denied" => reply'[k].code = 401
    BY <1>6 DEF RecordLogin, Reply, MoveTo
  <2>3. /\ loginRows \subseteq loginRows' /\ loginRows' \subseteq loginRows \cup {k}
        /\ failRows \subseteq failRows' /\ failRows' \subseteq failRows \cup {k}
        /\ unwritten \subseteq unwritten' /\ unwritten' \subseteq unwritten \cup {k}
        /\ visitAt[k] = "granted" => k \in loginRows' \cup unwritten' /\ failRows' = failRows
        /\ visitAt[k] = "denied" => k \in failRows' \cup unwritten'
    BY <1>6 DEF RecordLogin
  <2>4. k \notin failRows
    BY <2>1
  <2> QED
    BY <2>1, <2>2, <2>3, <2>4
<1>7. ASSUME NEW k \in Visits, Refresh(k) PROVE AuditRowsInv'
  <2>1. visitAt[k] = "sent" /\ act(k) # "login" /\ UNCHANGED <<plan, role, edits, loginRows, failRows, unwritten>>
    BY <1>7 DEF Refresh
  <2>2. PICK m \in {200, 401, 403, 500}, c \in {NoCookie, Renewed(carried[k])} : Reply(k, m, c)
    BY <1>7 DEF Refresh
  <2> QED
    BY <2>1, <2>2 DEF Reply, MoveTo
<1>8. ASSUME NEW k \in Visits, LogOut(k) PROVE AuditRowsInv'
  <2>1. visitAt[k] = "sent" /\ act(k) # "login" /\ UNCHANGED <<plan, role, edits, loginRows, failRows, unwritten>>
    BY <1>8 DEF LogOut
  <2>2. PICK m \in {200, 401, 403, 500}, c \in {NoCookie, Renewed(carried[k])} : Reply(k, m, c)
    BY <1>8 DEF LogOut
  <2> QED
    BY <2>1, <2>2 DEF Reply, MoveTo
<1>9. ASSUME NEW k \in Visits, CallHandled(k) PROVE AuditRowsInv'
  <2>1. visitAt[k] = "sent" /\ act(k) # "login" /\ UNCHANGED <<plan, role, edits, loginRows, failRows, unwritten>>
    BY <1>9 DEF CallHandled
  <2>2. PICK m \in {200, 401, 403, 500}, c \in {NoCookie, Renewed(carried[k])} : Reply(k, m, c)
    BY <1>9 DEF CallHandled
  <2> QED
    BY <2>1, <2>2 DEF Reply, MoveTo
<1>10. ASSUME NEW k \in Visits, Arrive(k) PROVE AuditRowsInv'
  BY <1>10 DEF Arrive, MoveTo
<1>11. ASSUME NEW k \in Visits, Lose(k) PROVE AuditRowsInv'
  BY <1>11 DEF Lose, LoseVisits
<1>12. ASSUME NEW u \in Users, NEW r \in Roles \cup {NoRole}, SetRole(u, r) PROVE AuditRowsInv'
  BY <1>12 DEF SetRole, Edit
<1>13. CASE TimePasses
  BY <1>13 DEF TimePasses
<1>14. CASE Restart
  BY <1>14 DEF Restart, LoseVisits, Edit, Serving
<1> QED
  BY <1>1, <1>2, <1>3, <1>5, <1>6, <1>7, <1>8, <1>9, <1>10, <1>11, <1>12, <1>13, <1>14, SessionStepCases

-----------------------------------------------------------------------------
(***************************************************************************)
(* The theorems.                                                           *)
(***************************************************************************)

(* The invariant is inductive.                                             *)
LEMMA SessionInvStep == SessionInv /\ [SessionNext]_sessionVars => SessionInv'
BY SessionTypeStep, VisitStep, CookieStep, LetThroughStep, JarStep, AuditRowsStep DEF SessionInv

(* Every reachable state satisfies it.                                     *)
THEOREM SessionInvariance == SessionSpec => []SessionInv
BY SessionInvInit, SessionInvStep, PTL DEF SessionSpec

(* Sessions, users and the audit log are of their types.                   *)
THEOREM SessionTypeCorrect == SessionSpec => []SessionTypeOK
<1>1. SessionInv => SessionTypeOK
  BY DEF SessionInv
<1> QED
  BY <1>1, SessionInvariance, PTL

(* Whoever a route lets through (middleware.rs) logged in with the role    *)
(* that does it and has logged in or refreshed lately (routes/auth.rs).    *)
THEOREM Earned == SessionSpec => []GrantsAreEarned
<1>1. SessionInv => GrantsAreEarned
  <2>1. SessionInv => GrantsAreRecent
    BY DEF SessionInv, LetThrough, GrantsAreRecent
  <2>2. SessionInv => RightsAreOfALogin
    BY DEF SessionInv, LetThrough, OfALogin, RightsAreOfALogin
  <2> QED
    BY <2>1, <2>2 DEF GrantsAreEarned
<1> QED
  BY <1>1, SessionInvariance, PTL

(* A logout (logout_handler) is undone by a login or by a refresh under    *)
(* way, and by nothing else.                                               *)
THEOREM StaysLoggedOut == SessionSpec => []LoggedOutStays
<1>1. SessionInv => LoggedOutStays
  BY DEF SessionInv, JarInv, Undone, Followed, LoggedOutStays
<1> QED
  BY <1>1, SessionInvariance, PTL

(* The audit rows of login_handler tell refused logins from undecided ones. *)
THEOREM Audited == SessionSpec => []LoginsAreAudited
<1>1. SessionInv => LoginsAreAudited
  BY DEF SessionInv, AuditRowsInv, LoginsAreAudited
<1> QED
  BY <1>1, SessionInvariance, PTL
=============================================================================
