------------------------- MODULE AuthSessionsProofs -------------------------
(***************************************************************************)
(* Proofs about the cookie sessions: whatever logins, refreshes, logouts,  *)
(* lost answers and failures do, what still works belongs to the latest    *)
(* login, for any number of browsers, tabs, logins and rotations, unless   *)
(* two logins overlapped; and a browser nothing has come in the way of     *)
(* since it logged in can always refresh.                                  *)
(***************************************************************************)
EXTENDS AuthSessions, TLAPS, SequenceTheorems

Access == [v : Nat, sid : Nat]
Refresher == [v : Nat, sid : Nat, jti : Nat]
Jar == [access : Access \cup {Nothing}, refresh : Refresher \cup {Nothing}]
CallRecord ==
  [at : LoginSteps \cup {"idle", "ask", "again", "refused", "session", "kill", "rotate",
                         "logout", "answer"},
   v : Nat, token : Access \cup Refresher \cup {Nothing}, sets : Jar \cup {Nothing},
   next : {"idle", "again"}]

Shape ==
  /\ version \in Nat /\ rotations \in Nat
  /\ sessions \in Seq([jti : Nat, live : BOOLEAN])
  /\ jar \in [Browsers -> Jar]
  /\ call \in [Calls -> CallRecord]
  /\ crossed \subseteq DOMAIN sessions
  /\ \A c \in Calls : call[c].at \in {"session", "kill", "rotate"} => call[c].token \in Refresher \ {Nothing}

\* The tokens in a browser, in a request or in an answer on its way.
Held(t) ==
  /\ t # Nothing
  /\ \/ \E b \in Browsers : t \in {jar[b].access, jar[b].refresh}
     \/ \E c \in Calls : t = call[c].token
     \/ \E c \in Calls : call[c].sets # Nothing /\ t \in {call[c].sets.access, call[c].sets.refresh}

\* A token of session sid and version v: unless its login overlapped another one, the
\* version has left it behind, or will as soon as a login under way writes its own.
Past(v, sid) ==
  /\ v <= version
  /\ sid < Len(sessions) => v < version
  /\ \A c \in Calls :
       /\ call[c].at \in LoginSteps \ {"find"} => v < call[c].v
       /\ call[c].at \in {"revoke", "create"} => v < version

TokensPast ==
  \A t : Held(t) =>
    /\ t.v \in Nat /\ t.sid \in 1..Len(sessions)
    /\ t.sid \notin crossed => Past(t.v, t.sid)

\* A login nothing overlaps is alone, and the version is the one it wrote.
LoneLogins ==
  \A c \in Calls \ overlap :
    LoggingIn(c) =>
      /\ \A d \in Calls \ {c} : ~LoggingIn(d)
      /\ call[c].at \in {"revoke", "create"} => call[c].v = version

AuthInv == Shape /\ TokensPast /\ LoneLogins

-----------------------------------------------------------------------------

LEMMA AuthInvInit == Init => AuthInv
<1> SUFFICES ASSUME Init PROVE AuthInv
  OBVIOUS
<1>1. NoCookies \in Jar /\ NoCookies.access = Nothing /\ NoCookies.refresh = Nothing
  BY DEF NoCookies, Jar
<1>2. Idle \in CallRecord /\ Idle.token = Nothing /\ Idle.sets = Nothing /\ Idle.at = "idle"
  BY DEF Idle, CallRecord
<1>3. Shape
  BY <1>1, <1>2 DEF Init, Shape
<1>4. \A t : ~Held(t)
  BY <1>1, <1>2 DEF Init, Held
<1>5. LoneLogins
  BY <1>2 DEF Init, LoneLogins, LoggingIn, LoginSteps
<1> QED
  BY <1>3, <1>4, <1>5 DEF AuthInv, TokensPast

\* A step that no login takes part in, or that ends one.
LEMMA QuietStep ==
  ASSUME AuthInv, Shape', UNCHANGED <<version, crossed>>, Len(sessions') = Len(sessions),
         \A d \in Calls : LoggingIn(d)' => /\ call'[d].at = call[d].at /\ call'[d].v = call[d].v
                                           /\ d \in overlap => d \in overlap',
         \A t : Held(t)' => \E u : Held(u) /\ u.v = t.v /\ u.sid = t.sid
  PROVE  AuthInv'
<1>1. ASSUME NEW v, NEW sid, Past(v, sid) PROVE Past(v, sid)'
  BY <1>1 DEF Past, LoggingIn, LoginSteps
<1>2. ASSUME NEW t, Held(t)'
      PROVE  t.v \in Nat /\ t.sid \in 1..Len(sessions') /\ (t.sid \notin crossed' => Past(t.v, t.sid)')
  <2>1. PICK u : Held(u) /\ u.v = t.v /\ u.sid = t.sid
    BY <1>2
  <2> QED
    BY <1>1, <2>1 DEF AuthInv, TokensPast
<1>3. TokensPast'
  BY <1>2 DEF TokensPast
<1>4. LoneLogins'
  BY DEF AuthInv, LoneLogins, LoggingIn, LoginSteps
<1> QED
  BY <1>3, <1>4 DEF AuthInv

\* What a call and the jars hold after one call has moved on.
LEMMA OneCallHolds ==
  ASSUME Shape, NEW c \in Calls, NEW e \in CallRecord, call' = [call EXCEPT ![c] = e],
         UNCHANGED jar, NEW t, Held(t)'
  PROVE  \/ Held(t)
         \/ t = e.token /\ t # Nothing
         \/ e.sets # Nothing /\ t \in {e.sets.access, e.sets.refresh} /\ t # Nothing
BY DEF Shape, Held

\* One call moves outside the steps of a login; it holds tokens that were there.
LEMMA OneCallQuiet ==
  ASSUME AuthInv, NEW c \in Calls, NEW e \in CallRecord, call' = [call EXCEPT ![c] = e],
         UNCHANGED <<version, crossed, jar>>, Len(sessions') = Len(sessions),
         sessions' \in Seq([jti : Nat, live : BOOLEAN]), rotations' \in Nat,
         overlap \subseteq overlap' \cup {c},
         e.at \notin LoginSteps,
         e.at \in {"session", "kill", "rotate"} => e.token \in Refresher \ {Nothing},
         e.token = Nothing \/ \E u : Held(u) /\ u.v = e.token.v /\ u.sid = e.token.sid,
         e.sets = Nothing \/ \A t \in {e.sets.access, e.sets.refresh} :
                               t = Nothing \/ \E u : Held(u) /\ u.v = t.v /\ u.sid = t.sid
  PROVE  AuthInv'
<1>1. Shape'
  <2>1. DOMAIN sessions' = DOMAIN sessions
    BY LenProperties DEF AuthInv, Shape
  <2> QED
    BY <2>1 DEF AuthInv, Shape
<1>2. ASSUME NEW t, Held(t)' PROVE \E u : Held(u) /\ u.v = t.v /\ u.sid = t.sid
  <2>1. CASE Held(t)
    BY <2>1
  <2>2. CASE t = e.token /\ t # Nothing
    BY <2>2
  <2>3. CASE e.sets # Nothing /\ t \in {e.sets.access, e.sets.refresh} /\ t # Nothing
    BY <2>3
  <2> QED
    BY <1>2, <2>1, <2>2, <2>3, OneCallHolds DEF AuthInv
<1>3. ASSUME NEW d \in Calls, LoggingIn(d)' PROVE d # c /\ call'[d] = call[d]
  BY <1>3 DEF LoggingIn, AuthInv, Shape
<1> QED
  BY <1>1, <1>2, <1>3, QuietStep

-----------------------------------------------------------------------------
(* Requests that are no login.                                             *)

LEMMA IdleRecord ==
  /\ Idle \in CallRecord /\ NoCookies \in Jar
  /\ Idle.at = "idle" /\ Idle.token = Nothing /\ Idle.sets = Nothing
BY DEF Idle, CallRecord, NoCookies, Jar

\* A call gets an answer with no cookies, or is over.
LEMMA EmptyAnswerQuiet ==
  ASSUME AuthInv, NEW c \in Calls, NEW cookies \in {Nothing, NoCookies},
         Answer(c, cookies, "idle") \/ Ends(c),
         UNCHANGED <<version, crossed, jar, rotations>>, Len(sessions') = Len(sessions),
         sessions' \in Seq([jti : Nat, live : BOOLEAN]), overlap \subseteq overlap' \cup {c}
  PROVE  AuthInv'
<1>1. PICK e : e = [Idle EXCEPT !.at = "answer", !.sets = cookies, !.next = "idle"]
  OBVIOUS
<1>2. e \in CallRecord /\ e.at = "answer" /\ e.token = Nothing /\ e.sets = cookies
  <2>1. cookies \in Jar \cup {Nothing}
    BY IdleRecord
  <2> QED
    BY <1>1, <2>1 DEF Idle, CallRecord
<1>3. CASE Answer(c, cookies, "idle")
  <2>1. call' = [call EXCEPT ![c] = e]
    BY <1>1, <1>3 DEF Answer
  <2>2. e.sets = Nothing \/ \A t \in {e.sets.access, e.sets.refresh} : t = Nothing
    BY <1>2 DEF NoCookies
  <2>3. rotations' \in Nat /\ e.at \notin LoginSteps
    BY <1>2 DEF LoginSteps, AuthInv, Shape
  <2> QED
    BY <1>2, <2>1, <2>2, <2>3, OneCallQuiet
<1>4. CASE Ends(c)
  BY <1>4, IdleRecord, OneCallQuiet DEF Ends, LoginSteps, AuthInv, Shape
<1> QED
  BY <1>3, <1>4

\* The rows of refresh_sessions are as many after a write of one of them.
LEMMA RowWritten ==
  ASSUME Shape, NEW sid, NEW row \in [jti : Nat, live : BOOLEAN],
         sessions' = [sessions EXCEPT ![sid] = row]
  PROVE  Len(sessions') = Len(sessions) /\ sessions' \in Seq([jti : Nat, live : BOOLEAN])
<1>1. CASE sid \in 1..Len(sessions)
  BY <1>1, ExceptSeq DEF Shape
<1>2. CASE sid \notin 1..Len(sessions)
  <2>1. sessions' = sessions
    BY <1>2, LenProperties DEF Shape
  <2> QED
    BY <2>1 DEF Shape
<1> QED
  BY <1>1, <1>2

LEMMA RowEnds ==
  ASSUME Shape, NEW sid, sessions' = [sessions EXCEPT ![sid].live = FALSE]
  PROVE  Len(sessions') = Len(sessions) /\ sessions' \in Seq([jti : Nat, live : BOOLEAN])
<1>1. PICK row : row = [sessions[sid] EXCEPT !.live = FALSE]
  OBVIOUS
<1>2. sessions' = [sessions EXCEPT ![sid] = row]
  BY <1>1
<1>3. CASE sid \in 1..Len(sessions)
  <2>1. sessions[sid] \in [jti : Nat, live : BOOLEAN]
    BY <1>3, ElementOfSeq DEF Shape
  <2>2. row \in [jti : Nat, live : BOOLEAN]
    BY <1>1, <2>1
  <2> QED
    BY <1>2, <2>2, RowWritten
<1>4. CASE sid \notin 1..Len(sessions)
  <2>1. sessions' = sessions
    BY <1>2, <1>4, LenProperties DEF Shape
  <2> QED
    BY <2>1 DEF Shape
<1> QED
  BY <1>3, <1>4

LEMMA LoginFailsStep ==
  ASSUME AuthInv, NEW c \in Calls, LoginFails(c)
  PROVE  AuthInv'
BY EmptyAnswerQuiet DEF LoginFails, AuthInv, Shape

\* A request carries a token of the jar.
LEMMA CarriedQuiet ==
  ASSUME AuthInv, NEW c \in Calls, NEW step \in {"ask", "logout"},
         NEW t \in {jar[BrowserOf[c]].access, jar[BrowserOf[c]].refresh},
         call' = [call EXCEPT ![c] = [Idle EXCEPT !.at = step, !.token = t]],
         UNCHANGED <<version, sessions, crossed, jar, rotations, overlap>>
  PROVE  AuthInv'
<1>1. PICK e : e = [Idle EXCEPT !.at = step, !.token = t]
  OBVIOUS
<1>2. BrowserOf[c] \in Browsers /\ jar[BrowserOf[c]] \in Jar
  BY AuthAssumption DEF AuthInv, Shape
<1>3. t \in Access \cup Refresher \cup {Nothing}
  BY <1>2 DEF Jar
<1>4. e \in CallRecord /\ e.at = step /\ e.token = t /\ e.sets = Nothing
  BY <1>1, <1>3 DEF Idle, CallRecord
<1>5. t = Nothing \/ Held(t)
  BY <1>2 DEF Held
<1> QED
  BY <1>1, <1>4, <1>5, OneCallQuiet DEF LoginSteps, AuthInv, Shape

LEMMA AsksStep ==
  ASSUME AuthInv, NEW c \in Calls, Asks(c) \/ LogsOut(c)
  PROVE  AuthInv'
BY CarriedQuiet DEF Asks, LogsOut

\* A call takes its next step and holds on to its token.
LEMMA GoesQuiet ==
  ASSUME AuthInv, NEW c \in Calls, Goes(c, "refused") \/ Goes(c, "kill") \/ Goes(c, "rotate"),
         Goes(c, "refused") \/ call[c].token \in Refresher \ {Nothing},
         UNCHANGED <<version, sessions, crossed, jar, rotations, overlap>>
  PROVE  AuthInv'
<1>1. PICK step : Goes(c, step) /\ step \in {"refused", "kill", "rotate"}
                  /\ (step # "refused" => call[c].token \in Refresher \ {Nothing})
  <2>1. CASE Goes(c, "refused")
    BY <2>1
  <2>2. CASE ~Goes(c, "refused")
    BY <2>2
  <2> QED
    BY <2>1, <2>2
<1>2. PICK e : e = [call[c] EXCEPT !.at = step]
  OBVIOUS
<1>3. call' = [call EXCEPT ![c] = e] /\ call[c] \in CallRecord
  BY <1>1, <1>2 DEF Goes, AuthInv, Shape
<1>4. e \in CallRecord /\ e.at = step /\ e.token = call[c].token /\ e.sets = call[c].sets
  BY <1>1, <1>2, <1>3 DEF CallRecord
<1>5. /\ e.token = Nothing \/ Held(e.token)
      /\ e.sets = Nothing \/ \A t \in {e.sets.access, e.sets.refresh} : t = Nothing \/ Held(t)
  BY <1>4 DEF Held
<1> QED
  BY <1>1, <1>3, <1>4, <1>5, OneCallQuiet DEF LoginSteps, AuthInv, Shape

LEMMA CheckedStep ==
  ASSUME AuthInv, NEW c \in Calls, Checked(c)
  PROVE  AuthInv'
<1>1. CASE Ends(c)
  BY <1>1, EmptyAnswerQuiet DEF Checked, AuthInv, Shape
<1>2. CASE Goes(c, "refused")
  BY <1>2, GoesQuiet DEF Checked
<1> QED
  BY <1>1, <1>2 DEF Checked

LEMMA RefreshesStep ==
  ASSUME AuthInv, NEW c \in Calls, Refreshes(c)
  PROVE  AuthInv'
<1>1. PICK t : t = jar[BrowserOf[c]].refresh
  OBVIOUS
<1>2. t \in Refresher \cup {Nothing}
  BY <1>1, AuthAssumption DEF AuthInv, Shape, Jar
<1>3. CASE t = Nothing
  BY <1>1, <1>3, EmptyAnswerQuiet DEF Refreshes, AuthInv, Shape
<1>4. CASE t # Nothing
  <2>1. PICK e : e = [call[c] EXCEPT !.at = "session", !.token = t]
    OBVIOUS
  <2>2. call' = [call EXCEPT ![c] = e] /\ call[c] \in CallRecord
    BY <1>1, <1>4, <2>1 DEF Refreshes, AuthInv, Shape
  <2>3. e \in CallRecord /\ e.at = "session" /\ e.token = t /\ e.sets = call[c].sets
    BY <1>2, <2>1, <2>2 DEF CallRecord
  <2>4. /\ Held(t)
        /\ e.sets = Nothing \/ \A u \in {e.sets.access, e.sets.refresh} : u = Nothing \/ Held(u)
    BY <1>1, <1>4, <2>3, AuthAssumption DEF Held
  <2> QED
    BY <1>2, <1>4, <2>2, <2>3, <2>4, OneCallQuiet DEF Refreshes, LoginSteps, AuthInv, Shape
<1> QED
  BY <1>3, <1>4

LEMMA FindsSessionStep ==
  ASSUME AuthInv, NEW c \in Calls, FindsSession(c), NoFault
  PROVE  AuthInv'
<1>1. CASE Answer(c, NoCookies, "idle")
  BY <1>1, EmptyAnswerQuiet DEF FindsSession, AuthInv, Shape
<1>2. CASE Goes(c, "kill") \/ Goes(c, "rotate")
  BY <1>2, GoesQuiet DEF FindsSession, At, AuthInv, Shape
<1> QED
  BY <1>1, <1>2 DEF FindsSession

LEMMA KillsStep ==
  ASSUME AuthInv, NEW c \in Calls, Kills(c)
  PROVE  AuthInv'
BY RowEnds, EmptyAnswerQuiet DEF Kills, AuthInv

LEMMA LogoutStep ==
  ASSUME AuthInv, NEW c \in Calls, Logout(c)
  PROVE  AuthInv'
<1>1. Len(sessions') = Len(sessions) /\ sessions' \in Seq([jti : Nat, live : BOOLEAN])
  BY RowEnds DEF Logout, AuthInv, Shape
<1> QED
  BY <1>1, EmptyAnswerQuiet DEF Logout

\* The answer carries the session on: the version and the session of its token are the same.
LEMMA RotatesStep ==
  ASSUME AuthInv, NEW c \in Calls, Rotates(c)
  PROVE  AuthInv'
<1>1. PICK old, token : /\ old = call[c].token
                        /\ token = [old EXCEPT !.jti = rotations + 1]
  OBVIOUS
<1>2. old \in Refresher \ {Nothing} /\ rotations \in Nat
  BY <1>1 DEF Rotates, At, AuthInv, Shape
<1>3. token \in Refresher /\ token.v = old.v /\ token.sid = old.sid /\ token.jti = rotations + 1
  BY <1>1, <1>2 DEF Refresher
<1>4. Held(old)
  BY <1>1, <1>2 DEF Held
<1>5. /\ sessions' = [sessions EXCEPT ![token.sid].jti = token.jti]
      /\ Answer(c, Cookies(token), "again")
      /\ rotations' = rotations + 1 /\ UNCHANGED <<version, jar, crossed, overlap>>
  BY <1>1 DEF Rotates
<1>6. Len(sessions') = Len(sessions) /\ sessions' \in Seq([jti : Nat, live : BOOLEAN])
  <2>1. token.sid \in 1..Len(sessions)
    BY <1>3, <1>4 DEF AuthInv, TokensPast
  <2>2. sessions[token.sid] \in [jti : Nat, live : BOOLEAN]
    BY <2>1, ElementOfSeq DEF AuthInv, Shape
  <2>3. PICK row : row = [sessions[token.sid] EXCEPT !.jti = token.jti]
    OBVIOUS
  <2>4. row \in [jti : Nat, live : BOOLEAN]
    BY <1>2, <1>3, <2>2, <2>3
  <2>5. sessions' = [sessions EXCEPT ![token.sid] = row]
    BY <1>5, <2>3
  <2> QED
    BY <2>4, <2>5, RowWritten DEF AuthInv
<1>7. PICK cookies, e : /\ cookies = Cookies(token)
                        /\ e = [Idle EXCEPT !.at = "answer", !.sets = cookies, !.next = "again"]
  OBVIOUS
<1>8. /\ cookies \in Jar /\ cookies.access.v = token.v /\ cookies.access.sid = token.sid
      /\ cookies.refresh = token
  BY <1>3, <1>7 DEF Cookies, Jar, Access, Refresher
<1>9. e \in CallRecord /\ e.at = "answer" /\ e.token = Nothing /\ e.sets = cookies
  BY <1>7, <1>8 DEF Idle, CallRecord
<1>10. call' = [call EXCEPT ![c] = e]
  BY <1>5, <1>7 DEF Answer
<1>11. \A t \in {e.sets.access, e.sets.refresh} : Held(old) /\ old.v = t.v /\ old.sid = t.sid
  BY <1>3, <1>4, <1>8, <1>9
<1>12. rotations' \in Nat /\ e.at \notin LoginSteps
  BY <1>2, <1>5, <1>9 DEF LoginSteps
<1> QED
  BY <1>5, <1>6, <1>9, <1>10, <1>11, <1>12, OneCallQuiet

-----------------------------------------------------------------------------
(* The browser.                                                            *)

\* Jars and calls hold no token that was not there.
LEMMA JarQuiet ==
  ASSUME AuthInv, jar' \in [Browsers -> Jar], call' \in [Calls -> CallRecord],
         UNCHANGED <<version, crossed, sessions, rotations>>,
         \A d \in Calls : \/ call'[d] = call[d] /\ (d \in overlap => d \in overlap')
                          \/ /\ call'[d].at \in {"idle", "again"} /\ call'[d].sets = Nothing
                             /\ \/ call'[d].token = Nothing
                                \/ \E b \in Browsers : call'[d].token = jar'[b].access,
         \A b \in Browsers : /\ jar'[b].access = Nothing \/ Held(jar'[b].access)
                             /\ jar'[b].refresh = Nothing \/ Held(jar'[b].refresh)
  PROVE  AuthInv'
<1>1. Shape'
  BY DEF AuthInv, Shape
<1>2. ASSUME NEW t, Held(t)' PROVE Held(t)
  <2>1. CASE \E b \in Browsers : t \in {jar'[b].access, jar'[b].refresh}
    BY <1>2, <2>1 DEF Held
  <2>2. CASE \E d \in Calls : t = call'[d].token
    BY <1>2, <2>1, <2>2 DEF Held
  <2>3. CASE \E d \in Calls : call'[d].sets # Nothing /\ t \in {call'[d].sets.access, call'[d].sets.refresh}
    BY <1>2, <2>3 DEF Held
  <2> QED
    BY <1>2, <2>1, <2>2, <2>3 DEF Held
<1>3. ASSUME NEW d \in Calls, LoggingIn(d)' PROVE call'[d] = call[d] /\ (d \in overlap => d \in overlap')
  BY <1>3 DEF LoggingIn, LoginSteps
<1> QED
  BY <1>1, <1>2, <1>3, QuietStep

LEMMA ArrivesStep ==
  ASSUME AuthInv, NEW c \in Calls, Arrives(c)
  PROVE  AuthInv'
<1>1. PICK b, old, e : /\ b = BrowserOf[c] /\ old = call[c]
                       /\ e = [Idle EXCEPT !.at = old.next, !.token = jar'[b].access]
  OBVIOUS
<1>2. /\ b \in Browsers /\ old \in CallRecord
      /\ jar' = IF old.sets = Nothing THEN jar ELSE [jar EXCEPT ![b] = old.sets]
      /\ call' = [call EXCEPT ![c] = e]
      /\ UNCHANGED <<version, sessions, rotations, crossed, overlap>>
  BY <1>1, AuthAssumption DEF Arrives, AuthInv, Shape
<1>3. jar' \in [Browsers -> Jar]
  BY <1>2 DEF AuthInv, Shape, CallRecord
<1>4. jar'[b].access \in Access \cup {Nothing}
  BY <1>2, <1>3 DEF Jar
<1>5. /\ e \in CallRecord /\ e.at \in {"idle", "again"} /\ e.sets = Nothing
      /\ e.token = jar'[b].access
  BY <1>1, <1>2, <1>4 DEF Idle, CallRecord
<1>6. \A d \in Browsers : /\ jar'[d].access = Nothing \/ Held(jar'[d].access)
                          /\ jar'[d].refresh = Nothing \/ Held(jar'[d].refresh)
  BY <1>1, <1>2 DEF Held, AuthInv, Shape
<1>7. /\ call' \in [Calls -> CallRecord]
      /\ \A d \in Calls : call'[d] = call[d] \/ (d = c /\ call'[d] = e)
  BY <1>2, <1>5 DEF AuthInv, Shape
<1> QED
  BY <1>2, <1>3, <1>5, <1>6, <1>7, JarQuiet

LEMMA AnswerLostStep ==
  ASSUME AuthInv, NEW c \in Calls, AnswerLost(c)
  PROVE  AuthInv'
BY EmptyAnswerQuiet DEF AnswerLost, AuthInv, Shape

LEMMA CookiesGoStep ==
  ASSUME AuthInv, NEW b \in Browsers, AccessExpires(b) \/ SessionLapses(b)
  PROVE  AuthInv'
<1>1. PICK gone : /\ gone \in Jar /\ gone.access = Nothing
                  /\ gone.refresh \in {jar[b].refresh, Nothing}
                  /\ jar' = [jar EXCEPT ![b] = gone]
  <2>1. CASE AccessExpires(b)
    <3>1. PICK gone : gone = [jar[b] EXCEPT !.access = Nothing]
      OBVIOUS
    <3>2. jar[b] \in Jar
      BY DEF AuthInv, Shape
    <3>3. gone \in Jar /\ gone.access = Nothing /\ gone.refresh = jar[b].refresh
      BY <3>1, <3>2 DEF Jar
    <3> QED
      BY <2>1, <3>1, <3>3 DEF AccessExpires
  <2>2. CASE SessionLapses(b)
    BY <2>2, IdleRecord DEF SessionLapses, NoCookies
  <2> QED
    BY <2>1, <2>2
<1>2. jar' \in [Browsers -> Jar]
  BY <1>1 DEF AuthInv, Shape
<1>3. \A d \in Browsers : /\ jar'[d].access = Nothing \/ Held(jar'[d].access)
                          /\ jar'[d].refresh = Nothing \/ Held(jar'[d].refresh)
  BY <1>1 DEF Held, AuthInv, Shape
<1> QED
  BY <1>2, <1>3, JarQuiet DEF AccessExpires, SessionLapses, AuthInv, Shape

LEMMA ApiDiesStep ==
  ASSUME AuthInv, ApiDies
  PROVE  AuthInv'
<1>1. /\ call' = [c \in Calls |-> Idle]
      /\ UNCHANGED <<version, sessions, jar, rotations, crossed>>
  BY DEF ApiDies
<1>2. \A b \in Browsers : /\ jar[b].access = Nothing \/ Held(jar[b].access)
                          /\ jar[b].refresh = Nothing \/ Held(jar[b].refresh)
  BY DEF Held
<1> QED
  BY <1>1, <1>2, IdleRecord, JarQuiet DEF AuthInv, Shape

-----------------------------------------------------------------------------
(* Logins.                                                                 *)

\* A step of a login that leaves the tokens where they are and moves only this login.
LEMMA LoginMoves ==
  ASSUME AuthInv, NEW c \in Calls, NEW e \in CallRecord, call' = [call EXCEPT ![c] = e],
         UNCHANGED <<jar, rotations, crossed>>, version' \in Nat,
         sessions' \in Seq([jti : Nat, live : BOOLEAN]), Len(sessions') = Len(sessions),
         e.at \in LoginSteps, e.token \in {Nothing, call[c].token}, e.sets \in {Nothing, call[c].sets}
  PROVE  Shape' /\ \A t : Held(t)' => Held(t)
<1>1. Shape'
  <2>1. DOMAIN sessions' = DOMAIN sessions
    BY LenProperties DEF AuthInv, Shape
  <2> QED
    BY <2>1 DEF AuthInv, Shape, LoginSteps
<1>2. ASSUME NEW t, Held(t)' PROVE Held(t)
  <2>1. CASE t = e.token /\ t # Nothing
    BY <2>1 DEF Held
  <2>2. CASE e.sets # Nothing /\ t \in {e.sets.access, e.sets.refresh} /\ t # Nothing
    BY <2>2 DEF Held
  <2> QED
    BY <1>2, <2>1, <2>2, OneCallHolds DEF AuthInv
<1> QED
  BY <1>1, <1>2

LEMMA LogsInStep ==
  ASSUME AuthInv, NEW c \in Calls, LogsIn(c)
  PROVE  AuthInv'
<1>1. PICK e : e = [Idle EXCEPT !.at = "find"]
  OBVIOUS
<1>2. e \in CallRecord /\ e.at = "find" /\ e.token = Nothing /\ e.sets = Nothing
  BY <1>1 DEF Idle, CallRecord, LoginSteps
<1>3. call' = [call EXCEPT ![c] = e] /\ UNCHANGED <<version, sessions, jar, rotations, crossed>>
  BY <1>1 DEF LogsIn
<1>4. Shape' /\ \A t : Held(t)' => Held(t)
  BY <1>2, <1>3, LoginMoves DEF LoginSteps, AuthInv, Shape
<1>5. /\ call'[c].at = "find"
      /\ \A d \in Calls \ {c} : call'[d] = call[d]
  BY <1>2, <1>3 DEF AuthInv, Shape
<1>6. TokensPast'
  <2>1. ASSUME NEW v, NEW sid, Past(v, sid) PROVE Past(v, sid)'
    BY <1>3, <1>5, <2>1 DEF Past, LoginSteps
  <2> QED
    BY <1>3, <1>4, <2>1 DEF AuthInv, TokensPast
<1>7. LoneLogins'
  <2>1. PICK rivals : rivals = {d \in Calls : LoggingIn(d)}
    OBVIOUS
  <2>2. c \notin rivals /\ overlap' = IF rivals = {} THEN overlap ELSE overlap \cup rivals \cup {c}
    BY <2>1 DEF LogsIn, At, LoggingIn, LoginSteps
  <2>3. \A d \in Calls : LoggingIn(d)' <=> d \in rivals \/ d = c
    BY <1>5, <2>1 DEF LoggingIn, LoginSteps
  <2>4. CASE rivals = {}
    BY <1>5, <2>3, <2>4 DEF LoneLogins
  <2>5. CASE rivals # {}
    BY <2>2, <2>3, <2>5 DEF LoneLogins
  <2> QED
    BY <2>4, <2>5
<1> QED
  BY <1>4, <1>6, <1>7 DEF AuthInv

\* The version a login has read and counted up is beyond every token but those of
\* logins that overlapped.
LEMMA FindsUserStep ==
  ASSUME AuthInv, NEW c \in Calls, FindsUser(c)
  PROVE  AuthInv'
<1>1. PICK e : e = [call[c] EXCEPT !.at = "bump", !.v = version + 1]
  OBVIOUS
<1>2. /\ call[c] \in CallRecord /\ call[c].at = "find" /\ version \in Nat
      /\ call' = [call EXCEPT ![c] = e]
      /\ UNCHANGED <<version, sessions, jar, rotations, crossed, overlap>>
  BY <1>1 DEF FindsUser, At, AuthInv, Shape
<1>3. /\ e \in CallRecord /\ e.at = "bump" /\ e.v = version + 1
      /\ e.token = call[c].token /\ e.sets = call[c].sets
  <2>1. PICK n : n = version + 1 /\ n \in Nat
    BY <1>2
  <2>2. e = [call[c] EXCEPT !.at = "bump", !.v = n]
    BY <1>1, <2>1
  <2>3. /\ e \in CallRecord /\ e.at = "bump" /\ e.v = n
        /\ e.token = call[c].token /\ e.sets = call[c].sets
    BY <1>2, <2>1, <2>2 DEF CallRecord, LoginSteps
  <2> QED
    BY <2>1, <2>3
<1>4. Shape' /\ \A t : Held(t)' => Held(t)
  BY <1>2, <1>3, LoginMoves DEF LoginSteps, AuthInv, Shape
<1>5. /\ call'[c].at = "bump" /\ call'[c].v = version + 1
      /\ \A d \in Calls \ {c} : call'[d] = call[d]
  BY <1>2, <1>3 DEF AuthInv, Shape
<1>6. TokensPast'
  <2>1. ASSUME NEW v \in Nat, NEW sid, Past(v, sid) PROVE Past(v, sid)'
    BY <1>2, <1>5, <2>1 DEF Past, LoginSteps
  <2> QED
    BY <1>2, <1>4, <2>1 DEF AuthInv, TokensPast
<1>7. LoneLogins'
  BY <1>2, <1>5 DEF AuthInv, LoneLogins, LoggingIn, LoginSteps
<1> QED
  BY <1>4, <1>6, <1>7 DEF AuthInv

LEMMA BumpsVersionStep ==
  ASSUME AuthInv, NEW c \in Calls, BumpsVersion(c)
  PROVE  AuthInv'
<1>1. PICK e : e = [call[c] EXCEPT !.at = "revoke"]
  OBVIOUS
<1>2. /\ call[c] \in CallRecord /\ call[c].at = "bump" /\ version' = call[c].v
      /\ call' = [call EXCEPT ![c] = e]
      /\ UNCHANGED <<sessions, jar, rotations, crossed, overlap>>
  BY <1>1 DEF BumpsVersion, At, Goes, AuthInv, Shape
<1>3. /\ e \in CallRecord /\ e.at = "revoke" /\ e.v = call[c].v
      /\ e.token = call[c].token /\ e.sets = call[c].sets /\ call[c].v \in Nat
  BY <1>1, <1>2 DEF CallRecord, LoginSteps
<1>4. Shape' /\ \A t : Held(t)' => Held(t)
  BY <1>2, <1>3, LoginMoves DEF LoginSteps, AuthInv, Shape
<1>5. /\ call'[c].at = "revoke" /\ call'[c].v = call[c].v
      /\ \A d \in Calls \ {c} : call'[d] = call[d]
  BY <1>2, <1>3 DEF AuthInv, Shape
<1>6. TokensPast'
  <2>1. ASSUME NEW v \in Nat, NEW sid, Past(v, sid) PROVE Past(v, sid)'
    <3>1. v < version'
      BY <1>2, <2>1 DEF Past, LoginSteps
    <3>2. v <= version'
      BY <1>2, <1>3, <3>1
    <3> QED
      BY <1>2, <1>5, <2>1, <3>1, <3>2 DEF Past, LoginSteps
  <2> QED
    BY <1>2, <1>4, <2>1 DEF AuthInv, TokensPast
<1>7. LoneLogins'
  BY <1>2, <1>5 DEF AuthInv, LoneLogins, LoggingIn, LoginSteps
<1> QED
  BY <1>4, <1>6, <1>7 DEF AuthInv

LEMMA RevokesAllStep ==
  ASSUME AuthInv, NEW c \in Calls, RevokesAll(c)
  PROVE  AuthInv'
<1>1. PICK e : e = [call[c] EXCEPT !.at = "create"]
  OBVIOUS
<1>2. /\ call[c] \in CallRecord /\ call[c].at = "revoke"
      /\ call' = [call EXCEPT ![c] = e]
      /\ UNCHANGED <<version, jar, rotations, crossed, overlap>>
  BY <1>1 DEF RevokesAll, At, Goes, AuthInv, Shape
<1>3. /\ e \in CallRecord /\ e.at = "create" /\ e.v = call[c].v
      /\ e.token = call[c].token /\ e.sets = call[c].sets
  BY <1>1, <1>2 DEF CallRecord, LoginSteps
<1>4. Len(sessions') = Len(sessions) /\ sessions' \in Seq([jti : Nat, live : BOOLEAN])
  <2>1. sessions' = [s \in 1..Len(sessions) |-> [sessions[s] EXCEPT !.live = FALSE]]
    BY LenProperties DEF RevokesAll, AuthInv, Shape
  <2>2. Len(sessions) \in Nat
    BY LenProperties DEF AuthInv, Shape
  <2>3. \A s \in 1..Len(sessions) : [sessions[s] EXCEPT !.live = FALSE] \in [jti : Nat, live : BOOLEAN]
    <3>1. \A s \in 1..Len(sessions) : sessions[s] \in [jti : Nat, live : BOOLEAN]
      BY ElementOfSeq DEF AuthInv, Shape
    <3> QED
      BY <3>1
  <2> QED
    BY <2>1, <2>2, <2>3
<1>5. Shape' /\ \A t : Held(t)' => Held(t)
  BY <1>2, <1>3, <1>4, LoginMoves DEF LoginSteps, AuthInv, Shape
<1>6. /\ call'[c].at = "create" /\ call'[c].v = call[c].v
      /\ \A d \in Calls \ {c} : call'[d] = call[d]
  BY <1>2, <1>3 DEF AuthInv, Shape
<1>7. TokensPast'
  <2>1. ASSUME NEW v, NEW sid, Past(v, sid) PROVE Past(v, sid)'
    BY <1>2, <1>4, <1>6, <2>1 DEF Past, LoginSteps
  <2> QED
    BY <1>2, <1>4, <1>5, <2>1 DEF AuthInv, TokensPast
<1>8. LoneLogins'
  BY <1>2, <1>6 DEF AuthInv, LoneLogins, LoggingIn, LoginSteps
<1> QED
  BY <1>5, <1>7, <1>8 DEF AuthInv

\* The new session is of the version its login wrote, and every other one is older.
LEMMA CreatesSessionStep ==
  ASSUME AuthInv, NEW c \in Calls, CreatesSession(c)
  PROVE  AuthInv'
<1>1. PICK sid, token : sid = Len(sessions) + 1 /\ token = [v |-> call[c].v, sid |-> sid, jti |-> 0]
  OBVIOUS
<1>2. PICK cookies, e : /\ cookies = Cookies(token)
                        /\ e = [Idle EXCEPT !.at = "answer", !.sets = cookies, !.next = "idle"]
  OBVIOUS
<1>3. /\ call[c] \in CallRecord /\ call[c].at = "create"
      /\ sessions' = Append(sessions, [jti |-> 0, live |-> TRUE])
      /\ crossed' = IF c \in overlap THEN crossed \cup {sid} ELSE crossed
      /\ call' = [call EXCEPT ![c] = e]
      /\ overlap' = overlap \ {c}
      /\ UNCHANGED <<version, jar, rotations>>
  BY <1>1, <1>2 DEF CreatesSession, At, Answer, AuthInv, Shape
<1>4. call[c].v \in Nat /\ Len(sessions) \in Nat /\ sid \in Nat
  BY <1>1, <1>3, LenProperties DEF CallRecord, AuthInv, Shape
<1>5. /\ token \in Refresher /\ token.v = call[c].v /\ token.sid = sid
      /\ cookies \in Jar /\ cookies.refresh = token
      /\ cookies.access.v = call[c].v /\ cookies.access.sid = sid
  BY <1>1, <1>2, <1>4 DEF Cookies, Jar, Access, Refresher
<1>6. /\ e \in CallRecord /\ e.at = "answer" /\ e.token = Nothing /\ e.sets = cookies
  BY <1>2, <1>5 DEF Idle, CallRecord
<1>7. /\ sessions' \in Seq([jti : Nat, live : BOOLEAN]) /\ Len(sessions') = Len(sessions) + 1
  BY <1>3, AppendProperties DEF AuthInv, Shape
<1>8. Shape'
  <2>1. crossed' \subseteq DOMAIN sessions'
    <3>1. DOMAIN sessions = 1..Len(sessions) /\ DOMAIN sessions' = 1..(Len(sessions) + 1)
      BY <1>7, LenProperties DEF AuthInv, Shape
    <3> QED
      BY <1>1, <1>3, <1>4, <3>1 DEF AuthInv, Shape
  <2> QED
    BY <1>3, <1>6, <1>7, <2>1 DEF AuthInv, Shape
<1>9. /\ call'[c].at = "answer"
      /\ \A d \in Calls \ {c} : call'[d] = call[d]
  BY <1>3, <1>6 DEF AuthInv, Shape
<1>10. c \in overlap \/ (call[c].v = version /\ \A d \in Calls \ {c} : ~LoggingIn(d))
  BY <1>3 DEF AuthInv, LoneLogins, LoggingIn, LoginSteps
<1>11. ASSUME NEW t, Held(t)'
       PROVE  /\ t.v \in Nat /\ t.sid \in 1..Len(sessions')
              /\ t.sid \notin crossed' => Past(t.v, t.sid)'
  <2>1. CASE Held(t)
    <3>1. t.v \in Nat /\ t.sid \in 1..Len(sessions) /\ (t.sid \notin crossed => Past(t.v, t.sid))
      BY <2>1 DEF AuthInv, TokensPast
    <3>2. t.sid \in 1..Len(sessions')
      BY <1>4, <1>7, <3>1
    <3>3. ASSUME t.sid \notin crossed' PROVE Past(t.v, t.sid)'
      <4>1. Past(t.v, t.sid)
        BY <1>3, <3>1, <3>3
      <4>2. t.v < version
        BY <1>3, <4>1 DEF Past, LoginSteps
      <4> QED
        BY <1>3, <1>9, <4>1, <4>2 DEF Past, LoginSteps
    <3> QED
      BY <3>1, <3>2, <3>3
  <2>2. CASE t.v = call[c].v /\ t.sid = sid
    <3>1. t.v \in Nat /\ t.sid \in 1..Len(sessions')
      BY <1>1, <1>4, <1>7, <2>2
    <3>2. ASSUME t.sid \notin crossed' PROVE Past(t.v, t.sid)'
      <4>1. call[c].v = version /\ \A d \in Calls \ {c} : ~LoggingIn(d)
        BY <1>3, <1>10, <2>2, <3>2
      <4>2. t.v <= version' /\ ~(t.sid < Len(sessions'))
        BY <1>1, <1>3, <1>4, <1>7, <2>2, <4>1
      <4> QED
        BY <1>9, <4>1, <4>2 DEF Past, LoggingIn, LoginSteps
    <3> QED
      BY <3>1, <3>2
  <2> QED
    BY <1>3, <1>5, <1>6, <1>11, <2>1, <2>2, OneCallHolds DEF AuthInv
<1>12. LoneLogins'
  BY <1>3, <1>9 DEF AuthInv, LoneLogins, LoggingIn, LoginSteps
<1> QED
  BY <1>8, <1>11, <1>12 DEF AuthInv, TokensPast

-----------------------------------------------------------------------------

LEMMA AuthInvStep == AuthInv /\ [Next]_vars => AuthInv'
<1> SUFFICES ASSUME AuthInv, [Next]_vars PROVE AuthInv'
  OBVIOUS
<1>1. ASSUME NEW c \in Calls, LogsIn(c) \/ Asks(c) \/ LogsOut(c) \/ LoginFails(c)
      PROVE  AuthInv'
  BY <1>1, LogsInStep, AsksStep, LoginFailsStep
<1>2. ASSUME NEW c \in Calls, Server(c) PROVE AuthInv'
  <2>1. CASE Login(c)
    BY <2>1, FindsUserStep, BumpsVersionStep, RevokesAllStep, CreatesSessionStep DEF Login
  <2>2. CASE Checked(c) \/ Refresh(c) \/ Logout(c)
    BY <2>2, CheckedStep, FindsSessionStep, KillsStep, RotatesStep, LogoutStep DEF Refresh
  <2> QED
    BY <1>2, <2>1, <2>2 DEF Server
<1>3. ASSUME NEW c \in Calls, Refreshes(c) \/ Arrives(c) \/ AnswerLost(c) PROVE AuthInv'
  BY <1>3, RefreshesStep, ArrivesStep, AnswerLostStep
<1>4. ASSUME NEW b \in Browsers, AccessExpires(b) \/ SessionLapses(b) PROVE AuthInv'
  BY <1>4, CookiesGoStep
<1>5. CASE ApiDies
  BY <1>5, ApiDiesStep
<1>6. CASE UNCHANGED vars
  BY <1>6 DEF vars, AuthInv, Shape, TokensPast, Held, Past, LoneLogins, LoggingIn
<1> QED
  BY <1>1, <1>2, <1>3, <1>4, <1>5, <1>6 DEF Next, Step

\* A session that still works, by its access token or by its refresh token, is of the
\* latest login, unless its login overlapped another one.
THEOREM OnlyLatestLogin == Spec => []LatestLoginOnly
<1>1. AuthInv => LatestLoginOnly
  <2> SUFFICES ASSUME AuthInv, NEW b \in Browsers, NEW s \in Usable(b) \ crossed
      PROVE  s = Len(sessions)
    BY DEF LatestLoginOnly
  <2>1. PICK t \in {jar[b].access, jar[b].refresh} : t # Nothing /\ t.sid = s /\ t.v = version
    BY DEF Usable, Admits, Refreshable
  <2>2. Held(t)
    BY <2>1 DEF Held
  <2>3. t.v \in Nat /\ s \in 1..Len(sessions) /\ Past(t.v, s)
    BY <2>1, <2>2 DEF AuthInv, TokensPast
  <2>4. ~(s < Len(sessions))
    BY <2>1, <2>3 DEF Past
  <2> QED
    BY <2>3, <2>4, LenProperties DEF AuthInv, Shape
<1> QED
  BY <1>1, AuthInvInit, AuthInvStep, PTL DEF Spec

(***************************************************************************)
(* The browser nothing came in the way of.  Its session is the last row:   *)
(* whatever other browsers still hold is of an earlier one, so the kills,  *)
(* rotations and logouts of theirs that are under way write other rows.    *)
(***************************************************************************)
Current(t) == Refreshable(t) /\ t.sid = Len(sessions)
Older(t) == t = Nothing \/ t.sid < Len(sessions)

Busy(b) == {c \in Calls : BrowserOf[c] = b /\ call[c].at \in SessionSteps}

\* What the one call of the browser that matters will leave in its jar.
Promising(c) ==
  /\ call[c].at \notin {"kill", "logout"}
  /\ call[c].at \in {"revoke", "create"} => call[c].v = version
  /\ call[c].at \in {"session", "rotate"} => Current(call[c].token)
  /\ call[c].at = "answer" => call[c].sets # Nothing /\ Current(call[c].sets.refresh)

\* A browser whose tokens, those on their way included, are of earlier sessions.
Behind(y) ==
  /\ Older(jar[y].refresh)
  /\ \A c \in Calls : BrowserOf[c] = y =>
       /\ call[c].sets # Nothing => Older(call[c].sets.refresh)
       /\ call[c].at \in {"session", "kill", "rotate", "logout"} => Older(call[c].token)

NoLogin == \A c \in Calls : ~LoggingIn(c)

Undisputed(b) ==
  /\ \A c, d \in Busy(b) : c = d
  /\ \A c \in Calls : LoggingIn(c) => BrowserOf[c] = b
  /\ Busy(b) = {} => Current(jar[b].refresh)
  /\ \A c \in Busy(b) : Promising(c)
  /\ NoLogin => \A y \in Browsers \ {b} : Behind(y)

AloneInv == alone \subseteq Browsers /\ \A b \in alone : Undisputed(b)

\* A call of another browser moves: it is no login, and what it has written is not the
\* last row, unless this browser is about to write a new one.
LEMMA ForeignMoves ==
  ASSUME AuthInv, NEW b \in Browsers, Undisputed(b),
         NEW c \in Calls, BrowserOf[c] # b, NEW e, call' = [call EXCEPT ![c] = e],
         e.at \notin LoginSteps, version' = version, Len(sessions') = Len(sessions),
         NoLogin => sessions'[Len(sessions)] = sessions[Len(sessions)],
         \A y \in Browsers \ {BrowserOf[c]} : jar'[y] = jar[y],
         NoLogin => /\ Older(jar'[BrowserOf[c]].refresh)
                    /\ e.sets # Nothing => Older(e.sets.refresh)
                    /\ e.at \in {"session", "kill", "rotate", "logout"} => Older(e.token)
  PROVE  Undisputed(b)'
<1>1. call'[c] = e /\ \A d \in Calls \ {c} : call'[d] = call[d]
  BY DEF AuthInv, Shape
<1>2. ~LoggingIn(c) /\ ~LoggingIn(c)'
  BY <1>1 DEF Undisputed, LoggingIn
<1>3. \A d \in Calls : LoggingIn(d)' <=> LoggingIn(d)
  BY <1>1, <1>2 DEF LoggingIn
<1>4. Busy(b)' = Busy(b) /\ c \notin Busy(b)
  BY <1>1 DEF Busy
<1>5. NoLogin' <=> NoLogin
  BY <1>3 DEF NoLogin
<1>6. ASSUME NEW t, Current(t), NoLogin PROVE Current(t)'
  BY <1>6 DEF Current, Refreshable, Row
<1>7. ASSUME NEW d \in Busy(b) PROVE Promising(d)'
  <2>1. Promising(d) /\ call'[d] = call[d] /\ BrowserOf[d] = b
    BY <1>1, <1>4, <1>7 DEF Undisputed, Busy
  <2>2. LoggingIn(d) \/ NoLogin
    <3>1. ASSUME NEW f \in Calls, LoggingIn(f) PROVE f = d
      BY <1>7, <3>1 DEF Undisputed, Busy, LoggingIn, SessionSteps
    <3> QED
      BY <3>1 DEF NoLogin
  <2>3. CASE LoggingIn(d)
    BY <2>1, <2>3 DEF Promising, LoggingIn, LoginSteps
  <2>4. CASE NoLogin
    <3>1. PICK t, a, s, v : /\ t = call[d].token /\ a = call[d].at /\ s = call[d].sets /\ v = call[d].v
                            /\ t = call'[d].token /\ a = call'[d].at /\ s = call'[d].sets
                            /\ v = call'[d].v
      BY <2>1
    <3>2. /\ a \in {"session", "rotate"} => Current(t)
          /\ a = "answer" => s # Nothing /\ Current(s.refresh)
          /\ a \notin {"kill", "logout"} /\ (a \in {"revoke", "create"} => v = version)
      BY <2>1, <3>1 DEF Promising
    <3>3. /\ a \in {"session", "rotate"} => Current(t)'
          /\ a = "answer" => s # Nothing /\ Current(s.refresh)'
      BY <1>6, <2>4, <3>2
    <3> QED
      BY <3>1, <3>2, <3>3 DEF Promising, Current, Refreshable, Row
  <2> QED
    BY <2>2, <2>3, <2>4
<1>8. Busy(b) = {} => Current(jar[b].refresh)'
  <2> SUFFICES ASSUME Busy(b) = {} PROVE Current(jar[b].refresh)'
    OBVIOUS
  <2>1. NoLogin
    BY DEF Undisputed, Busy, NoLogin, LoggingIn, SessionSteps
  <2>2. PICK t : t = jar[b].refresh /\ t = jar'[b].refresh
    OBVIOUS
  <2>3. Current(t)'
    BY <1>6, <2>1, <2>2 DEF Undisputed
  <2> QED
    BY <2>2, <2>3 DEF Current, Refreshable, Row
<1>9. ASSUME NoLogin, NEW y \in Browsers \ {b} PROVE Behind(y)'
  <2>1. Behind(y) /\ \A t : Older(t)' <=> Older(t)
    BY <1>9 DEF Undisputed, Older
  <2>2. CASE y # BrowserOf[c]
    <3>1. \A d \in Calls : BrowserOf[d] = y => call'[d] = call[d]
      BY <1>1, <2>2
    <3> QED
      BY <2>1, <2>2, <3>1 DEF Behind, Older
  <2>3. CASE y = BrowserOf[c]
    <3>1. Older(jar[y].refresh)'
      BY <1>9, <2>3 DEF Older
    <3>2. ASSUME NEW d \in Calls, BrowserOf[d] = y
          PROVE  /\ call'[d].sets # Nothing => Older(call[d].sets.refresh)'
                 /\ call'[d].at \in {"session", "kill", "rotate", "logout"} => Older(call[d].token)'
      <4>1. CASE d = c
        BY <1>1, <1>9, <4>1 DEF Older
      <4>2. CASE d # c
        BY <1>1, <2>1, <3>2, <4>2 DEF Behind, Older
      <4> QED
        BY <4>1, <4>2
    <3> QED
      BY <3>1, <3>2 DEF Behind
  <2> QED
    BY <2>2, <2>3
<1> QED
  BY <1>3, <1>4, <1>5, <1>7, <1>8, <1>9 DEF Undisputed

\* The row of another session is written.
LEMMA OtherRow ==
  ASSUME AuthInv, NEW t, Held(t), NEW row,
         sessions' = [sessions EXCEPT ![t.sid] = row]
  PROVE  Older(t) => sessions'[Len(sessions)] = sessions[Len(sessions)]
<1>1. t.sid \in 1..Len(sessions) /\ t # Nothing /\ Len(sessions) \in Nat
      /\ DOMAIN sessions = 1..Len(sessions)
  BY LenProperties DEF AuthInv, TokensPast, Shape, Held
<1> QED
  BY <1>1 DEF Older

LEMMA ForeignStep ==
  ASSUME AuthInv, NEW b \in Browsers, Undisputed(b), NEW c \in Calls, BrowserOf[c] # b,
         \/ Asks(c) \/ LogsOut(c) \/ Server(c) \/ LoginFails(c)
         \/ Refreshes(c) \/ Arrives(c) \/ AnswerLost(c)
  PROVE  Undisputed(b)'
<1>0. PICK y, old : y = BrowserOf[c] /\ old = call[c]
  OBVIOUS
<1>1. /\ y \in Browsers \ {b} /\ old \in CallRecord /\ jar[y] \in Jar /\ ~LoggingIn(c)
      /\ old.at \notin LoginSteps
  BY <1>0, AuthAssumption DEF AuthInv, Shape, Undisputed, LoggingIn
<1>2. ASSUME NoLogin
      PROVE  /\ Older(jar[y].refresh)
             /\ old.sets # Nothing => Older(old.sets.refresh)
             /\ old.at \in {"session", "kill", "rotate", "logout"} => Older(old.token)
  BY <1>0, <1>1, <1>2 DEF Undisputed, Behind
<1>3. Idle.at \notin LoginSteps /\ Older(Nothing) /\ NoCookies.refresh = Nothing
  BY IdleRecord DEF LoginSteps, Older, NoCookies
<1>4. Idle.at = "idle" /\ Idle.token = Nothing /\ Idle.sets = Nothing
  BY IdleRecord
\* The call is over, or gets an answer without cookies.
<1>ends. ASSUME NEW cookies \in {Nothing, NoCookies}, Answer(c, cookies, "idle") \/ Ends(c),
                UNCHANGED <<version, jar>>, Len(sessions') = Len(sessions),
                NoLogin => sessions'[Len(sessions)] = sessions[Len(sessions)]
         PROVE  Undisputed(b)'
  <2>1. PICK e : e = [Idle EXCEPT !.at = "answer", !.sets = cookies, !.next = "idle"]
    OBVIOUS
  <2>2. e.at = "answer" /\ e.sets = cookies
    BY <2>1 DEF Idle
  <2>3. CASE Answer(c, cookies, "idle")
    <3>1. call' = [call EXCEPT ![c] = e] /\ e.at \notin LoginSteps
          /\ (e.sets # Nothing => Older(e.sets.refresh))
      BY <1>3, <2>1, <2>2, <2>3 DEF Answer, LoginSteps
    <3> QED
      BY <1>0, <1>1, <1>2, <1>ends, <2>2, <3>1, ForeignMoves DEF Older
  <2>4. CASE Ends(c)
    BY <1>0, <1>2, <1>3, <1>4, <1>ends, <2>4, ForeignMoves DEF Ends, Older
  <2> QED
    BY <1>ends, <2>3, <2>4
\* The call takes its next step and keeps what it has.
<1>goes. ASSUME NEW step \in {"refused", "kill", "rotate"}, Goes(c, step),
                step = "refused" \/ old.at = "session", UNCHANGED <<version, jar, sessions>>
         PROVE  Undisputed(b)'
  <2>1. PICK e : e = [old EXCEPT !.at = step]
    OBVIOUS
  <2>2. /\ call' = [call EXCEPT ![c] = e] /\ e.at = step /\ e.token = old.token /\ e.sets = old.sets
    BY <1>0, <1>1, <1>goes, <2>1 DEF Goes, CallRecord
  <2>3. e.at \notin LoginSteps
    BY <2>2 DEF LoginSteps
  <2> QED
    BY <1>0, <1>2, <1>goes, <2>2, <2>3, ForeignMoves DEF Older
\* The call takes a token of its jar along.
<1>takes. ASSUME NEW e, call' = [call EXCEPT ![c] = e], e.at \in {"ask", "logout", "session"},
                 e.at # "ask" => e.token = jar[y].refresh, e.sets \in {Nothing, old.sets},
                 UNCHANGED <<version, jar, sessions>>
          PROVE  Undisputed(b)'
  <2>1. e.at \notin LoginSteps
    BY <1>takes DEF LoginSteps
  <2> QED
    BY <1>0, <1>2, <1>takes, <2>1, ForeignMoves DEF Older
<1>5. CASE Asks(c) \/ LogsOut(c)
  <2>1. PICK e : /\ call' = [call EXCEPT ![c] = e]
                 /\ \/ e = [Idle EXCEPT !.at = "ask", !.token = jar[y].access]
                    \/ e = [Idle EXCEPT !.at = "logout", !.token = jar[y].refresh]
    BY <1>0, <1>5 DEF Asks, LogsOut
  <2>2. e.at \in {"ask", "logout"} /\ (e.at # "ask" => e.token = jar[y].refresh) /\ e.sets = Nothing
    BY <2>1 DEF Idle
  <2> QED
    BY <1>5, <1>takes, <2>1, <2>2 DEF Asks, LogsOut
<1>6. CASE Checked(c)
  BY <1>6, <1>ends, <1>goes DEF Checked
<1>7. CASE Refreshes(c)
  <2>1. CASE jar[y].refresh = Nothing
    BY <1>0, <1>7, <1>ends, <2>1 DEF Refreshes
  <2>2. CASE jar[y].refresh # Nothing
    <3>1. PICK e : e = [old EXCEPT !.at = "session", !.token = jar[y].refresh]
      OBVIOUS
    <3>2. /\ call' = [call EXCEPT ![c] = e] /\ e.at = "session" /\ e.token = jar[y].refresh
          /\ e.sets = old.sets
      BY <1>0, <1>1, <1>7, <2>2, <3>1 DEF Refreshes, CallRecord
    <3> QED
      BY <1>7, <1>takes, <3>2 DEF Refreshes
  <2> QED
    BY <2>1, <2>2
<1>8. CASE FindsSession(c)
  BY <1>0, <1>8, <1>ends, <1>goes DEF FindsSession, At
<1>9. CASE Kills(c) \/ Logout(c)
  <2>1. CASE UNCHANGED sessions
    BY <1>9, <1>ends, <2>1 DEF Kills, Logout
  <2>2. CASE sessions' # sessions
    <3>1. sessions' = [sessions EXCEPT ![old.token.sid].live = FALSE] /\ old.token # Nothing
          /\ old.at \in {"kill", "logout"}
      BY <1>0, <1>9, <2>2 DEF Kills, Logout, At, AuthInv, Shape
    <3>2. Held(old.token) /\ Len(sessions') = Len(sessions)
      BY <1>0, <3>1, RowEnds DEF Held, AuthInv
    <3>3. NoLogin => sessions'[Len(sessions)] = sessions[Len(sessions)]
      BY <1>2, <3>1, <3>2, OtherRow
    <3> QED
      BY <1>9, <1>ends, <3>2, <3>3 DEF Kills, Logout
  <2> QED
    BY <2>1, <2>2
<1>10. CASE Rotates(c)
  <2>1. PICK token : token = [old.token EXCEPT !.jti = rotations + 1]
    OBVIOUS
  <2>2. /\ old.at = "rotate" /\ Answer(c, Cookies(token), "again") /\ UNCHANGED <<version, jar>>
        /\ sessions' = [sessions EXCEPT ![token.sid].jti = token.jti]
    BY <1>0, <1>10, <2>1 DEF Rotates, At
  <2>3. old.token \in Refresher \ {Nothing} /\ token.sid = old.token.sid /\ token.jti = rotations + 1
    BY <1>0, <2>1, <2>2 DEF AuthInv, Shape, Refresher
  <2>4. Held(old.token)
    BY <1>0, <2>3 DEF Held
  <2>5. Len(sessions') = Len(sessions)
    <3>1. token.sid \in 1..Len(sessions) /\ rotations + 1 \in Nat
      BY <2>3, <2>4 DEF AuthInv, TokensPast, Shape
    <3>2. sessions[token.sid] \in [jti : Nat, live : BOOLEAN]
      BY <3>1, ElementOfSeq DEF AuthInv, Shape
    <3>3. PICK row : row = [sessions[token.sid] EXCEPT !.jti = token.jti]
      OBVIOUS
    <3>4. row \in [jti : Nat, live : BOOLEAN]
      BY <2>3, <3>1, <3>2, <3>3
    <3> QED
      BY <2>2, <3>3, <3>4, RowWritten DEF AuthInv
  <2>6. NoLogin => sessions'[Len(sessions)] = sessions[Len(sessions)]
    <3>1. sessions' = [sessions EXCEPT ![old.token.sid] = [sessions[old.token.sid] EXCEPT !.jti = token.jti]]
      BY <2>2, <2>3
    <3> QED
      BY <1>2, <2>2, <2>4, <3>1, OtherRow
  <2>7. PICK cookies, e : /\ cookies = Cookies(token)
                          /\ e = [Idle EXCEPT !.at = "answer", !.sets = cookies, !.next = "again"]
    OBVIOUS
  <2>8. /\ call' = [call EXCEPT ![c] = e] /\ e.at = "answer" /\ e.sets = cookies
        /\ cookies.refresh = token /\ e.at \notin LoginSteps
    BY <2>2, <2>7 DEF Answer, Idle, Cookies, LoginSteps
  <2>9. NoLogin => Older(token)
    BY <1>2, <2>2, <2>3 DEF Older
  <2> QED
    BY <1>0, <1>2, <2>2, <2>5, <2>6, <2>8, <2>9, ForeignMoves DEF Older
<1>11. CASE Arrives(c)
  <2>1. PICK e : e = [Idle EXCEPT !.at = old.next, !.token = jar'[y].access]
    OBVIOUS
  <2>2. /\ call' = [call EXCEPT ![c] = e] /\ UNCHANGED <<version, sessions>> /\ old.at = "answer"
        /\ jar' = IF old.sets = Nothing THEN jar ELSE [jar EXCEPT ![y] = old.sets]
    BY <1>0, <1>11, <2>1 DEF Arrives, At
  <2>3. e.at \in {"idle", "again"} /\ e.sets = Nothing
    BY <1>1, <2>1 DEF Idle, CallRecord
  <2>4. /\ \A z \in Browsers \ {y} : jar'[z] = jar[z]
        /\ NoLogin => Older(jar'[y].refresh)
    BY <1>1, <1>2, <2>2 DEF AuthInv, Shape
  <2>5. e.at \notin LoginSteps
    BY <2>3 DEF LoginSteps
  <2> QED
    BY <1>0, <2>2, <2>3, <2>4, <2>5, ForeignMoves DEF Older
<1>12. CASE AnswerLost(c)
  BY <1>12, <1>ends DEF AnswerLost
<1>13. ~Login(c) /\ ~LoginFails(c)
  BY <1>0, <1>1 DEF Login, FindsUser, BumpsVersion, RevokesAll, CreatesSession, LoginFails, At, LoginSteps
<1> QED
  BY <1>5, <1>6, <1>7, <1>8, <1>9, <1>10, <1>11, <1>12, <1>13 DEF Server, Refresh

\* While no login is under way, a move of this browser leaves the others behind.
LEMMA BehindStays ==
  ASSUME AuthInv, NEW b \in Browsers, Undisputed(b), NoLogin,
         NEW c \in Calls, BrowserOf[c] = b, NEW e, call' = [call EXCEPT ![c] = e],
         Len(sessions') = Len(sessions), NEW y \in Browsers \ {b}, jar'[y] = jar[y]
  PROVE  Behind(y)'
<1>1. \A d \in Calls : BrowserOf[d] = y => call'[d] = call[d]
  BY DEF AuthInv, Shape
<1>2. Behind(y)
  BY DEF Undisputed
<1> QED
  BY <1>1, <1>2 DEF Behind, Older

\* The call of the browser that matters moves, and no other call of it is under way.
LEMMA OwnMoves ==
  ASSUME AuthInv, NEW b \in Browsers, Undisputed(b),
         NEW c \in Calls, BrowserOf[c] = b, \A d \in Busy(b) : d = c,
         NEW e, call' = [call EXCEPT ![c] = e],
         e.at \in SessionSteps => Promising(c)',
         e.at \notin SessionSteps => Current(jar[b].refresh)',
         NoLogin' => \A y \in Browsers \ {b} : Behind(y)'
  PROVE  Undisputed(b)'
<1>1. call'[c] = e /\ \A d \in Calls \ {c} : call'[d] = call[d]
  BY DEF AuthInv, Shape
<1>2. Busy(b)' = IF e.at \in SessionSteps THEN {c} ELSE {}
  BY <1>1 DEF Busy
<1>3. \A d \in Calls : LoggingIn(d)' => BrowserOf[d] = b
  BY <1>1 DEF Undisputed, LoggingIn
<1>4. ASSUME NEW d \in Busy(b)' PROVE Promising(d)'
  BY <1>2, <1>4
<1>5. Busy(b)' = {} => Current(jar[b].refresh)'
  BY <1>2
<1>6. \A d, f \in Busy(b)' : d = f
  BY <1>2
<1> QED
  BY <1>3, <1>4, <1>5, <1>6 DEF Undisputed

\* A call of this browser that is asking for data: what the browser holds is the same.
LEMMA OwnAside ==
  ASSUME AuthInv, NEW b \in Browsers, Undisputed(b), NEW c \in Calls, BrowserOf[c] = b,
         call[c].at \notin SessionSteps, NEW e, call' = [call EXCEPT ![c] = e],
         e.at \notin SessionSteps, UNCHANGED <<version, sessions, jar>>
  PROVE  Undisputed(b)'
<1>1. call'[c] = e /\ \A d \in Calls \ {c} : call'[d] = call[d]
  BY DEF AuthInv, Shape
<1>2. Busy(b)' = Busy(b) /\ c \notin Busy(b)
  BY <1>1 DEF Busy
<1>3. \A d \in Calls : LoggingIn(d)' <=> LoggingIn(d)
  BY <1>1 DEF LoggingIn, SessionSteps
<1>4. ASSUME NEW d \in Busy(b) PROVE Promising(d)'
  BY <1>1, <1>2, <1>4 DEF Undisputed, Promising, Current, Refreshable, Row
<1>5. ASSUME NoLogin, NEW y \in Browsers \ {b} PROVE Behind(y)'
  BY <1>5, BehindStays
<1>6. Busy(b) = {} => Current(jar[b].refresh)'
  BY DEF Undisputed, Current, Refreshable, Row
<1>7. NoLogin' <=> NoLogin
  BY <1>3 DEF NoLogin
<1> QED
  BY <1>2, <1>3, <1>4, <1>5, <1>6, <1>7 DEF Undisputed

\* What is known of the call a step of which is due.
LEMMA OwnBusy ==
  ASSUME NEW b \in Browsers, Undisputed(b), NEW c \in Calls, BrowserOf[c] = b,
         call[c].at \in SessionSteps
  PROVE  /\ \A d \in Busy(b) : d = c
         /\ Promising(c)
         /\ ~LoggingIn(c) => NoLogin
<1>1. c \in Busy(b) /\ \A d \in Busy(b) : d = c
  BY DEF Busy, Undisputed
<1>2. Promising(c)
  BY <1>1 DEF Undisputed
<1>3. ASSUME NEW d \in Calls, LoggingIn(d) PROVE d = c
  BY <1>1, <1>3 DEF Undisputed, Busy, LoggingIn, SessionSteps
<1> QED
  BY <1>1, <1>2, <1>3 DEF NoLogin

-----------------------------------------------------------------------------
(* The steps of the browser's own login: nobody else's login is under way. *)

LEMMA OwnLogin ==
  ASSUME AuthInv, NEW b \in Browsers, Undisputed(b), NEW c \in Calls, BrowserOf[c] = b,
         FindsUser(c) \/ BumpsVersion(c) \/ RevokesAll(c)
  PROVE  Undisputed(b)'
<1>1. PICK old : old = call[c] /\ old \in CallRecord /\ old.at \in LoginSteps
  BY DEF AuthInv, Shape, FindsUser, BumpsVersion, RevokesAll, At, LoginSteps
<1>2. (\A d \in Busy(b) : d = c) /\ Promising(c)
  BY <1>1, OwnBusy DEF SessionSteps
<1>3. PICK e : /\ call' = [call EXCEPT ![c] = e]
               /\ e.at \in {"bump", "revoke", "create"}
               /\ e.at \in {"revoke", "create"} => e.v = version'
  <2>1. CASE FindsUser(c)
    <3>1. PICK e : e = [old EXCEPT !.at = "bump", !.v = version + 1]
      OBVIOUS
    <3>2. call' = [call EXCEPT ![c] = e] /\ e.at = "bump"
      BY <1>1, <2>1, <3>1 DEF FindsUser, CallRecord
    <3> QED
      BY <3>2
  <2>2. CASE BumpsVersion(c)
    <3>1. PICK e : e = [old EXCEPT !.at = "revoke"]
      OBVIOUS
    <3>2. call' = [call EXCEPT ![c] = e] /\ e.at = "revoke" /\ e.v = old.v /\ version' = old.v
      BY <1>1, <2>2, <3>1 DEF BumpsVersion, Goes, CallRecord
    <3> QED
      BY <3>2
  <2>3. CASE RevokesAll(c)
    <3>1. PICK e : e = [old EXCEPT !.at = "create"]
      OBVIOUS
    <3>2. /\ call' = [call EXCEPT ![c] = e] /\ e.at = "create" /\ e.v = old.v
          /\ version' = version /\ old.at = "revoke"
      BY <1>1, <2>3, <3>1 DEF RevokesAll, Goes, At, CallRecord
    <3> QED
      BY <1>1, <1>2, <3>2 DEF Promising
  <2> QED
    BY <2>1, <2>2, <2>3
<1>4. call'[c] = e
  BY <1>3 DEF AuthInv, Shape
<1>5. Promising(c)' /\ LoggingIn(c)' /\ e.at \in SessionSteps
  BY <1>3, <1>4 DEF Promising, LoggingIn, LoginSteps, SessionSteps
<1>6. ~NoLogin'
  BY <1>5 DEF NoLogin
<1> QED
  BY <1>2, <1>3, <1>5, <1>6, OwnMoves

\* The new row is the last one: every token there was is of an earlier session.
LEMMA OwnCreates ==
  ASSUME AuthInv, NEW b \in Browsers, Undisputed(b), NEW c \in Calls, BrowserOf[c] = b,
         CreatesSession(c)
  PROVE  Undisputed(b)'
<1>1. PICK old, n : /\ old = call[c] /\ old \in CallRecord /\ old.at = "create"
                    /\ n = Len(sessions) /\ n \in Nat
  BY LenProperties DEF AuthInv, Shape, CreatesSession, At
<1>2. (\A d \in Busy(b) : d = c) /\ old.v = version
  BY <1>1, OwnBusy DEF SessionSteps, LoginSteps, Promising
<1>3. PICK token, row, cookies, e :
        /\ token = [v |-> old.v, sid |-> n + 1, jti |-> 0] /\ row = [jti |-> 0, live |-> TRUE]
        /\ cookies = Cookies(token)
        /\ e = [Idle EXCEPT !.at = "answer", !.sets = cookies, !.next = "idle"]
  OBVIOUS
<1>4. /\ sessions' = Append(sessions, row) /\ call' = [call EXCEPT ![c] = e]
      /\ UNCHANGED <<version, jar>>
  BY <1>1, <1>3 DEF CreatesSession, Answer
<1>5. /\ e.at = "answer" /\ e.sets = cookies /\ cookies.refresh = token
      /\ token.v = old.v /\ token.sid = n + 1 /\ token.jti = 0 /\ row.jti = 0 /\ row.live
  BY <1>3 DEF Idle, Cookies
<1>6. Len(sessions') = n + 1 /\ sessions'[n + 1] = row
  <2>1. row \in [jti : Nat, live : BOOLEAN]
    BY <1>3
  <2> QED
    BY <1>1, <1>4, <2>1, AppendProperties DEF AuthInv, Shape
<1>7. token # Nothing /\ cookies # Nothing
  <2>1. /\ token \in [v : Nat, sid : Nat, jti : Nat]
        /\ cookies \in [access : [v : Nat, sid : Nat], refresh : [v : Nat, sid : Nat, jti : Nat]]
    BY <1>1, <1>3 DEF CallRecord, Cookies
  <2> QED
    BY <2>1, NothingAssumption
<1>8. call'[c] = e /\ \A d \in Calls \ {c} : call'[d] = call[d]
  BY <1>4 DEF AuthInv, Shape
<1>9. Current(token)'
  BY <1>2, <1>4, <1>5, <1>6, <1>7 DEF Current, Refreshable, Row
<1>10. Promising(c)' /\ e.at \in SessionSteps
  BY <1>5, <1>7, <1>8, <1>9 DEF Promising, SessionSteps, Current, Refreshable, Row
<1>11. ASSUME NEW y \in Browsers \ {b} PROVE Behind(y)'
  <2>1. ASSUME NEW t, t = Nothing \/ Held(t) PROVE Older(t)'
    BY <1>1, <1>6, <2>1 DEF Older, AuthInv, TokensPast
  <2>2. ASSUME NEW d \in Calls, BrowserOf[d] = y
        PROVE  /\ call'[d].sets # Nothing => Older(call[d].sets.refresh)'
               /\ Older(call[d].token)'
    <3>1. call'[d] = call[d]
      BY <1>8, <2>2
    <3>2. call[d].sets # Nothing =>
            call[d].sets.refresh = Nothing \/ Held(call[d].sets.refresh)
      BY DEF Held
    <3>3. call[d].token = Nothing \/ Held(call[d].token)
      BY DEF Held
    <3> QED
      BY <2>1, <3>1, <3>2, <3>3 DEF Older
  <2>3. Older(jar[y].refresh)'
    BY <1>4, <2>1 DEF Held, Older
  <2> QED
    BY <2>2, <2>3 DEF Behind
<1> QED
  BY <1>2, <1>4, <1>10, <1>11, OwnMoves

-----------------------------------------------------------------------------
(* The browser's own refresh: the row it finds is the one its token knows, *)
(* so it is rotated, never killed.                                         *)

LEMMA OwnRefreshes ==
  ASSUME AuthInv, NEW b \in Browsers, Undisputed(b), NEW c \in Calls, BrowserOf[c] = b,
         Refreshes(c), Undisturbed(c)
  PROVE  Undisputed(b)'
<1>1. PICK old, t : /\ old = call[c] /\ old \in CallRecord /\ old.at = "refused"
                    /\ t = jar[b].refresh
  BY DEF AuthInv, Shape, Refreshes, At
<1>2. Busy(b) = {}
  BY <1>1 DEF Busy, Undisturbed, Others, SessionSteps, LoginSteps
<1>3. NoLogin /\ Current(t)
  BY <1>1, <1>2 DEF Undisputed, Busy, NoLogin, LoggingIn, SessionSteps
<1>4. PICK e : e = [old EXCEPT !.at = "session", !.token = t]
  OBVIOUS
<1>5. /\ call' = [call EXCEPT ![c] = e] /\ e.at = "session" /\ e.token = t
      /\ UNCHANGED <<version, sessions, jar>>
  BY <1>1, <1>3, <1>4 DEF Refreshes, Current, Refreshable, CallRecord
<1>6. call'[c] = e
  BY <1>5 DEF AuthInv, Shape
<1>7. Current(t)'
  BY <1>3, <1>5 DEF Current, Refreshable, Row
<1>8. Promising(c)' /\ e.at \in SessionSteps
  BY <1>5, <1>6, <1>7 DEF Promising, SessionSteps, Current, Refreshable, Row
<1>9. \A y \in Browsers \ {b} : Behind(y)'
  BY <1>3, <1>5, BehindStays
<1> QED
  BY <1>2, <1>5, <1>8, <1>9, OwnMoves

LEMMA OwnFinds ==
  ASSUME AuthInv, NEW b \in Browsers, Undisputed(b), NEW c \in Calls, BrowserOf[c] = b,
         FindsSession(c)
  PROVE  Undisputed(b)'
<1>1. PICK old, t : /\ old = call[c] /\ old \in CallRecord /\ old.at = "session"
                    /\ t = old.token
  BY DEF AuthInv, Shape, FindsSession, At
<1>2. (\A d \in Busy(b) : d = c) /\ NoLogin /\ Current(t)
  BY <1>1, OwnBusy DEF SessionSteps, LoginSteps, LoggingIn, Promising
<1>3. PICK e : e = [old EXCEPT !.at = "rotate"]
  OBVIOUS
<1>4. /\ call' = [call EXCEPT ![c] = e] /\ e.at = "rotate" /\ e.token = t
      /\ UNCHANGED <<version, sessions, jar>>
  BY <1>1, <1>2, <1>3 DEF FindsSession, Goes, Current, Refreshable, CallRecord
<1>5. call'[c] = e
  BY <1>4 DEF AuthInv, Shape
<1>6. Current(t)'
  BY <1>2, <1>4 DEF Current, Refreshable, Row
<1>7. Promising(c)' /\ e.at \in SessionSteps
  BY <1>4, <1>5, <1>6 DEF Promising, SessionSteps, Current, Refreshable, Row
<1>8. \A y \in Browsers \ {b} : Behind(y)'
  BY <1>2, <1>4, BehindStays
<1> QED
  BY <1>2, <1>4, <1>7, <1>8, OwnMoves

LEMMA OwnRotates ==
  ASSUME AuthInv, NEW b \in Browsers, Undisputed(b), NEW c \in Calls, BrowserOf[c] = b,
         Rotates(c)
  PROVE  Undisputed(b)'
<1>1. PICK old, t : /\ old = call[c] /\ old.at = "rotate" /\ t = old.token
                    /\ t \in Refresher \ {Nothing}
  BY DEF AuthInv, Shape, Rotates, At
<1>2. (\A d \in Busy(b) : d = c) /\ NoLogin /\ Current(t)
  BY <1>1, OwnBusy DEF SessionSteps, LoginSteps, LoggingIn, Promising
<1>3. PICK n, token, row, cookies, e :
        /\ n = rotations + 1
        /\ token = [t EXCEPT !.jti = n] /\ row = [sessions[t.sid] EXCEPT !.jti = n]
        /\ cookies = Cookies(token)
        /\ e = [Idle EXCEPT !.at = "answer", !.sets = cookies, !.next = "again"]
  OBVIOUS
<1>4. n \in Nat /\ t.sid \in 1..Len(sessions) /\ DOMAIN sessions = 1..Len(sessions)
  <2>1. Held(t)
    BY <1>1 DEF Held
  <2> QED
    BY <1>3, <2>1, LenProperties DEF AuthInv, TokensPast, Shape
<1>5. sessions[t.sid] \in [jti : Nat, live : BOOLEAN]
  BY <1>4, ElementOfSeq DEF AuthInv, Shape
<1>6. /\ token \in Refresher /\ token.v = t.v /\ token.sid = t.sid /\ token.jti = n
      /\ row \in [jti : Nat, live : BOOLEAN] /\ row.jti = n /\ row.live = sessions[t.sid].live
  BY <1>1, <1>3, <1>4, <1>5 DEF Refresher
<1>7. /\ sessions' = [sessions EXCEPT ![t.sid] = row] /\ call' = [call EXCEPT ![c] = e]
      /\ UNCHANGED <<version, jar>>
  <2>1. /\ sessions' = [sessions EXCEPT ![token.sid].jti = token.jti]
        /\ Answer(c, cookies, "again") /\ UNCHANGED <<version, jar>>
    BY <1>1, <1>3 DEF Rotates
  <2> QED
    BY <1>3, <1>6, <2>1 DEF Answer
<1>8. Len(sessions') = Len(sessions) /\ sessions'[t.sid] = row
  BY <1>4, <1>6, <1>7, RowWritten DEF AuthInv
<1>9. e.at = "answer" /\ e.sets = cookies /\ cookies.refresh = token
  BY <1>3 DEF Idle, Cookies
<1>10. token # Nothing /\ cookies # Nothing
  <2>1. /\ token \in [v : Nat, sid : Nat, jti : Nat]
        /\ cookies \in [access : [v : Nat, sid : Nat], refresh : [v : Nat, sid : Nat, jti : Nat]]
    BY <1>3, <1>6 DEF Cookies, Refresher
  <2> QED
    BY <2>1, NothingAssumption
<1>11. Current(token)'
  BY <1>2, <1>6, <1>7, <1>8, <1>10 DEF Current, Refreshable, Row
<1>12. call'[c] = e
  BY <1>7 DEF AuthInv, Shape
<1>13. Promising(c)' /\ e.at \in SessionSteps
  BY <1>9, <1>10, <1>11, <1>12 DEF Promising, SessionSteps, Current, Refreshable, Row
<1>14. \A y \in Browsers \ {b} : Behind(y)'
  BY <1>2, <1>7, <1>8, BehindStays
<1> QED
  BY <1>2, <1>7, <1>13, <1>14, OwnMoves

LEMMA OwnArrives ==
  ASSUME AuthInv, NEW b \in Browsers, Undisputed(b), NEW c \in Calls, BrowserOf[c] = b,
         Arrives(c)
  PROVE  Undisputed(b)'
<1>1. PICK old, s : /\ old = call[c] /\ old \in CallRecord /\ old.at = "answer" /\ s = old.sets
  BY DEF AuthInv, Shape, Arrives, At
<1>2. (\A d \in Busy(b) : d = c) /\ NoLogin /\ s # Nothing /\ Current(s.refresh)
  BY <1>1, OwnBusy DEF SessionSteps, LoginSteps, LoggingIn, Promising
<1>3. PICK e : e = [Idle EXCEPT !.at = old.next, !.token = jar'[b].access]
  OBVIOUS
<1>4. /\ call' = [call EXCEPT ![c] = e] /\ e.at \in {"idle", "again"}
      /\ jar' = [jar EXCEPT ![b] = s] /\ UNCHANGED <<version, sessions>>
  BY <1>1, <1>2, <1>3 DEF Arrives, Idle, CallRecord
<1>5. /\ jar'[b] = s /\ \A y \in Browsers \ {b} : jar'[y] = jar[y]
  BY <1>4 DEF AuthInv, Shape
<1>6. Current(jar[b].refresh)' /\ e.at \notin SessionSteps
  BY <1>2, <1>4, <1>5 DEF Current, Refreshable, Row, SessionSteps, LoginSteps
<1>7. \A y \in Browsers \ {b} : Behind(y)'
  BY <1>2, <1>4, <1>5, BehindStays
<1> QED
  BY <1>2, <1>4, <1>6, <1>7, OwnMoves

\* Asking for data, being admitted or refused.
LEMMA OwnAsks ==
  ASSUME AuthInv, NEW b \in Browsers, Undisputed(b), NEW c \in Calls, BrowserOf[c] = b,
         Asks(c) \/ Checked(c)
  PROVE  Undisputed(b)'
<1>1. PICK old : old = call[c] /\ old \in CallRecord /\ old.at \in {"idle", "ask", "again"}
  BY DEF AuthInv, Shape, Asks, Checked, At
<1>2. PICK e : call' = [call EXCEPT ![c] = e] /\ e.at \in {"ask", "idle", "refused"}
  <2>1. CASE Asks(c)
    <3>1. PICK e : e = [Idle EXCEPT !.at = "ask", !.token = jar[BrowserOf[c]].access]
      OBVIOUS
    <3>2. call' = [call EXCEPT ![c] = e] /\ e.at = "ask"
      BY <2>1, <3>1 DEF Asks, Idle
    <3> QED
      BY <3>2
  <2>2. CASE Ends(c)
    BY <2>2, IdleRecord DEF Ends
  <2>3. CASE Goes(c, "refused")
    <3>1. PICK e : e = [old EXCEPT !.at = "refused"]
      OBVIOUS
    <3>2. call' = [call EXCEPT ![c] = e] /\ e.at = "refused"
      BY <1>1, <2>3, <3>1 DEF Goes, CallRecord
    <3> QED
      BY <3>2
  <2> QED
    BY <2>1, <2>2, <2>3 DEF Checked
<1>3. e.at \notin SessionSteps /\ call[c].at \notin SessionSteps
  BY <1>1, <1>2 DEF SessionSteps, LoginSteps
<1>4. UNCHANGED <<version, sessions, jar>>
  BY DEF Asks, Checked
<1> QED
  BY <1>2, <1>3, <1>4, OwnAside

\* What cannot happen to it: a kill or a logout of its own under way.
LEMMA OwnNever ==
  ASSUME NEW b \in Browsers, Undisputed(b), NEW c \in Calls, BrowserOf[c] = b
  PROVE  ~Kills(c) /\ ~Logout(c)
BY OwnBusy DEF Kills, Logout, At, SessionSteps, Promising

LEMMA OwnStep ==
  ASSUME AuthInv, NEW b \in Browsers, Undisputed(b), NEW c \in Calls, BrowserOf[c] = b,
         \/ Asks(c) \/ Server(c) \/ Arrives(c)
         \/ Refreshes(c) /\ Undisturbed(c)
  PROVE  Undisputed(b)'
BY OwnLogin, OwnCreates, OwnRefreshes, OwnFinds, OwnRotates, OwnArrives, OwnAsks, OwnNever
   DEF Server, Login, Refresh

-----------------------------------------------------------------------------
(* Cookies that go, and the login that makes a browser the one that matters. *)

\* Only refresh tokens count, and those of the browser that matters stay.
LEMMA JarStep ==
  ASSUME AuthInv, NEW b \in Browsers, Undisputed(b), UNCHANGED <<version, sessions, call>>,
         jar'[b].refresh = jar[b].refresh,
         \A y \in Browsers : jar'[y].refresh = jar[y].refresh \/ jar'[y].refresh = Nothing
  PROVE  Undisputed(b)'
<1>1. Busy(b)' = Busy(b) /\ (NoLogin' <=> NoLogin)
  BY DEF Busy, NoLogin, LoggingIn
<1>2. ASSUME NEW d \in Busy(b) PROVE Promising(d)'
  BY <1>2 DEF Undisputed, Promising, Current, Refreshable, Row
<1>3. Busy(b) = {} => Current(jar[b].refresh)'
  BY DEF Undisputed, Current, Refreshable, Row
<1>4. ASSUME NoLogin, NEW y \in Browsers \ {b} PROVE Behind(y)'
  BY <1>4 DEF Undisputed, Behind, Older
<1> QED
  BY <1>1, <1>2, <1>3, <1>4 DEF Undisputed, LoggingIn

LEMMA CookiesGo ==
  ASSUME AuthInv, NEW b \in Browsers, Undisputed(b), NEW y \in Browsers,
         AccessExpires(y) \/ (SessionLapses(y) /\ y # b)
  PROVE  Undisputed(b)'
<1>1. UNCHANGED <<version, sessions, call>>
  BY DEF AccessExpires, SessionLapses
<1>2. PICK j : /\ jar' = [jar EXCEPT ![y] = j]
               /\ j.refresh = jar[y].refresh \/ (y # b /\ j.refresh = Nothing)
  <2>1. CASE AccessExpires(y)
    <3>1. PICK old, j : old = jar[y] /\ old \in Jar /\ j = [old EXCEPT !.access = Nothing]
      BY DEF AuthInv, Shape
    <3>2. jar' = [jar EXCEPT ![y] = j] /\ j.refresh = old.refresh
      BY <2>1, <3>1 DEF AccessExpires, Jar
    <3> QED
      BY <3>1, <3>2
  <2>2. CASE SessionLapses(y) /\ y # b
    <3>1. jar' = [jar EXCEPT ![y] = NoCookies] /\ NoCookies.refresh = Nothing
      BY <2>2 DEF SessionLapses, NoCookies
    <3> QED
      BY <2>2, <3>1
  <2> QED
    BY <2>1, <2>2
<1>3. jar'[y] = j /\ \A z \in Browsers \ {y} : jar'[z] = jar[z]
  BY <1>2 DEF AuthInv, Shape
<1> QED
  BY <1>1, <1>2, <1>3, JarStep

\* Nobody else is logging in, and nothing of the browser is on its way.
LEMMA FreshLogin ==
  ASSUME AuthInv, NEW c \in Calls, LogsIn(c), NoLogin, Undisturbed(c)
  PROVE  Undisputed(BrowserOf[c])'
<1>1. PICK e : /\ e = [Idle EXCEPT !.at = "find"] /\ call' = [call EXCEPT ![c] = e]
  BY DEF LogsIn
<1>2. e.at = "find"
  BY <1>1 DEF Idle
<1>3. call'[c] = e /\ \A d \in Calls \ {c} : call'[d] = call[d]
  BY <1>1 DEF AuthInv, Shape
<1>4. \A d \in Calls \ {c} : ~LoggingIn(d)'
  BY <1>3 DEF NoLogin, LoggingIn
<1>5. LoggingIn(c)' /\ Promising(c)'
  BY <1>2, <1>3 DEF LoggingIn, LoginSteps, Promising
<1>6. Busy(BrowserOf[c])' = {c}
  BY <1>2, <1>3 DEF Busy, Undisturbed, Others, SessionSteps, LoginSteps
<1>7. \A d \in Calls : LoggingIn(d)' => BrowserOf[d] = BrowserOf[c]
  BY <1>4
<1>8. ~NoLogin'
  BY <1>5 DEF NoLogin
<1> QED
  BY <1>5, <1>6, <1>7, <1>8 DEF Undisputed

LEMMA AloneInit == Init => AloneInv
BY DEF Init, AloneInv

LEMMA AloneStep == AuthInv /\ AloneInv /\ [Next]_vars => AloneInv'
<1> SUFFICES ASSUME AuthInv, AloneInv, [Next]_vars PROVE AloneInv'
  OBVIOUS
<1>1. ASSUME NEW c \in Calls, LogsIn(c) PROVE AloneInv'
  <2>1. CASE NoLogin /\ Undisturbed(c)
    <3>1. alone' \subseteq {BrowserOf[c]} /\ BrowserOf[c] \in Browsers
      BY <1>1, AuthAssumption DEF LogsIn
    <3> QED
      BY <1>1, <2>1, <3>1, FreshLogin DEF AloneInv
  <2>2. CASE ~(NoLogin /\ Undisturbed(c))
    BY <1>1, <2>2 DEF LogsIn, NoLogin, AloneInv
  <2> QED
    BY <2>1, <2>2
<1>2. ASSUME NEW c \in Calls,
             \/ Asks(c) \/ LogsOut(c) \/ Server(c) \/ LoginFails(c)
             \/ Refreshes(c) \/ Arrives(c) \/ AnswerLost(c)
      PROVE  AloneInv'
  <2>1. alone' \subseteq alone
    BY <1>2 DEF Asks, LogsOut, Server, Login, FindsUser, BumpsVersion, RevokesAll, CreatesSession,
       Checked, Refresh, FindsSession, Kills, Rotates, Logout, LoginFails, Refreshes, Arrives,
       AnswerLost
  <2>2. \/ BrowserOf[c] \notin alone'
        \/ Asks(c) \/ Server(c) \/ Arrives(c) \/ (Refreshes(c) /\ Undisturbed(c))
    BY <1>2 DEF LogsOut, LoginFails, Refreshes, AnswerLost
  <2>3. ASSUME NEW b \in alone' PROVE Undisputed(b)'
    <3>1. b \in Browsers /\ Undisputed(b)
      BY <2>1, <2>3 DEF AloneInv
    <3>2. CASE BrowserOf[c] # b
      BY <1>2, <3>1, <3>2, ForeignStep
    <3>3. CASE BrowserOf[c] = b
      BY <2>2, <2>3, <3>1, <3>3, OwnStep
    <3> QED
      BY <3>2, <3>3
  <2> QED
    BY <2>1, <2>3 DEF AloneInv
<1>3. ASSUME NEW y \in Browsers, AccessExpires(y) \/ SessionLapses(y) PROVE AloneInv'
  <2>1. alone' \subseteq alone /\ (SessionLapses(y) => y \notin alone')
    BY <1>3 DEF AccessExpires, SessionLapses
  <2>2. ASSUME NEW b \in alone' PROVE Undisputed(b)'
    BY <1>3, <2>1, <2>2, CookiesGo DEF AloneInv
  <2> QED
    BY <2>1, <2>2 DEF AloneInv
<1>4. CASE ApiDies
  BY <1>4 DEF ApiDies, AloneInv
<1>5. CASE UNCHANGED vars
  <2>1. UNCHANGED <<version, sessions, jar, call, alone>>
    BY <1>5 DEF vars
  <2>2. ASSUME NEW b \in alone PROVE Undisputed(b)'
    BY <2>1, <2>2, JarStep DEF AloneInv
  <2> QED
    BY <2>1, <2>2 DEF AloneInv
<1> QED
  BY <1>1, <1>2, <1>3, <1>4, <1>5 DEF Next, Step

\* Nothing of the browser is under way, so what matters of it is in its jar, and that is
\* the token its session knows, of the version there is.
THEOREM AloneIsKept == Spec => []KeptWhileAlone
<1>1. AuthInv /\ AloneInv => KeptWhileAlone
  <2> SUFFICES ASSUME AloneInv, NEW b \in alone,
                      \A c \in Calls : BrowserOf[c] = b => call[c].at \notin SessionSteps
      PROVE  Refreshable(jar[b].refresh)
    BY DEF KeptWhileAlone
  <2>1. Undisputed(b) /\ Busy(b) = {}
    BY DEF AloneInv, Busy
  <2> QED
    BY <2>1 DEF Undisputed, Current
<1>2. Init => AuthInv /\ AloneInv
  BY AuthInvInit, AloneInit
<1>3. AuthInv /\ AloneInv /\ [Next]_vars => (AuthInv /\ AloneInv)'
  BY AuthInvStep, AloneStep
<1> QED
  BY <1>1, <1>2, <1>3, PTL DEF Spec

(***************************************************************************)
(* Sessions that were ended.  A rotation that found its row live before a  *)
(* logout or another login ended it still writes the row, but not to life. *)
(***************************************************************************)
EndedRows == \A s \in ended : s \in DOMAIN sessions /\ ~sessions[s].live

\* What is left of an ended session is at most an access cookie, which expires: no
\* refresh token of it is accepted again.
EndedNeverRefreshes ==
  \A b \in Browsers : Refreshable(jar[b].refresh) => jar[b].refresh.sid \notin ended

\* No statement brings a row back to life.
LEMMA DeadRowsStay ==
  ASSUME AuthInv, Step, NEW s \in DOMAIN sessions, ~sessions[s].live
  PROVE  s \in DOMAIN sessions' /\ ~sessions'[s].live
<1>1. s \in 1..Len(sessions) /\ Len(sessions) \in Nat /\ DOMAIN sessions = 1..Len(sessions)
  BY LenProperties DEF AuthInv, Shape
<1>2. CASE UNCHANGED sessions
  BY <1>2
<1>3. ASSUME NEW c \in Calls, RevokesAll(c) PROVE s \in DOMAIN sessions' /\ ~sessions'[s].live
  <2>1. sessions[s] \in [jti : Nat, live : BOOLEAN]
    BY <1>1, ElementOfSeq DEF AuthInv, Shape
  <2>2. sessions'[s] = [sessions[s] EXCEPT !.live = FALSE] /\ s \in DOMAIN sessions'
    BY <1>3 DEF RevokesAll
  <2> QED
    BY <2>1, <2>2
<1>4. ASSUME NEW c \in Calls, CreatesSession(c) PROVE s \in DOMAIN sessions' /\ ~sessions'[s].live
  <2>1. PICK row : row = [jti |-> 0, live |-> TRUE]
    OBVIOUS
  <2>2. sessions' = Append(sessions, row) /\ row \in [jti : Nat, live : BOOLEAN]
    BY <1>4, <2>1 DEF CreatesSession
  <2>3. /\ Len(sessions') = Len(sessions) + 1 /\ sessions' \in Seq([jti : Nat, live : BOOLEAN])
        /\ sessions'[s] = sessions[s]
    BY <1>1, <2>2, AppendProperties DEF AuthInv, Shape
  <2> QED
    BY <1>1, <2>3, LenProperties
<1>5. ASSUME NEW sid, sessions' = [sessions EXCEPT ![sid].live = FALSE]
      PROVE  s \in DOMAIN sessions' /\ ~sessions'[s].live
  <2>1. sessions[s] \in [jti : Nat, live : BOOLEAN]
    BY <1>1, ElementOfSeq DEF AuthInv, Shape
  <2> QED
    BY <1>5, <2>1
<1>6. ASSUME NEW c \in Calls, Rotates(c) PROVE s \in DOMAIN sessions' /\ ~sessions'[s].live
  <2>1. sessions[s] \in [jti : Nat, live : BOOLEAN]
    BY <1>1, ElementOfSeq DEF AuthInv, Shape
  <2>2. PICK sid, n : sessions' = [sessions EXCEPT ![sid].jti = n]
    BY <1>6 DEF Rotates
  <2> QED
    BY <2>1, <2>2
<1> QED
  BY <1>2, <1>3, <1>4, <1>5, <1>6
     DEF Step, LogsIn, Asks, LogsOut, Server, Login, FindsUser, BumpsVersion, Checked, Refresh,
         FindsSession, Kills, Logout, LoginFails, Refreshes, Arrives, AnswerLost, AccessExpires,
         SessionLapses, ApiDies

\* Once a session was ended, by a logout, a later login or a token used twice, no race
\* with a rotation under way makes a refresh token of it good again.
THEOREM EndedSessionsNeverRefresh == Spec => []EndedNeverRefreshes
<1>1. Init => EndedRows
  BY DEF Init, EndedRows
<1>2. AuthInv /\ EndedRows /\ [Next]_vars => EndedRows'
  <2>1. CASE UNCHANGED vars
    BY <2>1 DEF vars, EndedRows
  <2>2. CASE AuthInv /\ EndedRows /\ Next
    BY <2>2, DeadRowsStay DEF Next, Records, EndedRows
  <2> QED
    BY <2>1, <2>2
<1>3. EndedRows => EndedNeverRefreshes
  BY DEF EndedRows, EndedNeverRefreshes, Refreshable, Row
<1> QED
  BY <1>1, <1>2, <1>3, AuthInvInit, AuthInvStep, PTL DEF Spec
=============================================================================
