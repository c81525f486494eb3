---------------------------- MODULE AuthSessions ----------------------------
(***************************************************************************)
(* The cookie sessions of one user: login, refresh and logout, which the   *)
(* API runs as several statements without a transaction, the token version *)
(* that every request is checked against, and the wrapper around fetch in  *)
(* each browser, which answers a 401 with a refresh and a second try.      *)
(* A password is right, or nothing happens: wrong ones are left out.       *)
(***************************************************************************)
EXTENDS Integers, Sequences, FiniteSets

CONSTANTS Browsers, Calls, BrowserOf, Nothing, MaxLogins, MaxRotations, MaxFaults

ASSUME AuthAssumption ==
  /\ BrowserOf \in [Calls -> Browsers]
  /\ {MaxLogins, MaxRotations, MaxFaults} \subseteq Nat

\* No token is not a token, and an answer that sets no cookies is not one that sets some.
ASSUME NothingAssumption ==
  LET Token == [v : Nat, sid : Nat, jti : Nat]
  IN  Nothing \notin Token \cup [access : [v : Nat, sid : Nat], refresh : Token]

VARIABLES version,    \* users.token_version
          sessions,   \* rows of refresh_sessions: which token it knows, and whether it is live
          jar,        \* browser -> its access and refresh cookies
          call,       \* call -> its next step and what it has read
          rotations,  \* how many refresh tokens were rotated
          faults,
          crossed,    \* ghost: sessions whose login overlapped another login
          overlap,    \* ghost: calls whose login overlapped another login
          ended,      \* ghost: sessions that were revoked at some time
          alone       \* ghost: browsers nothing has come in the way of since they logged in

vars == <<version, sessions, jar, call, rotations, faults, crossed, overlap, ended, alone>>

NoCookies == [access |-> Nothing, refresh |-> Nothing]
Cookies(token) == [access |-> [v |-> token.v, sid |-> token.sid], refresh |-> token]

Idle == [at |-> "idle", v |-> 0, token |-> Nothing, sets |-> Nothing, next |-> "idle"]

At(c, step) == call[c].at = step
LoginSteps == {"find", "bump", "revoke", "create"}
SessionSteps == LoginSteps \cup {"session", "kill", "rotate", "logout", "answer"}
LoggingIn(c) == call[c].at \in LoginSteps
Others(c) == {d \in Calls \ {c} : BrowserOf[d] = BrowserOf[c]}
Undisturbed(c) == \A d \in Others(c) : call[d].at \notin SessionSteps

Fault == faults < MaxFaults /\ faults' = faults + 1
NoFault == UNCHANGED faults

Goes(c, step) == call' = [call EXCEPT ![c].at = step]
Ends(c) == call' = [call EXCEPT ![c] = Idle]
\* The answer on its way: the cookies it sets, and what the page does when it is there.
Answer(c, cookies, next) ==
  call' = [call EXCEPT ![c] = [Idle EXCEPT !.at = "answer", !.sets = cookies, !.next = next]]

Init ==
  /\ version = 0 /\ sessions = <<>> /\ rotations = 0 /\ faults = 0
  /\ jar = [b \in Browsers |-> NoCookies]
  /\ call = [c \in Calls |-> Idle]
  /\ crossed = {} /\ overlap = {} /\ ended = {} /\ alone = {}

-----------------------------------------------------------------------------
(* POST /api/auth/login: handleLogin and issueSessionTokens. *)

Started == Len(sessions) + Cardinality({c \in Calls : LoggingIn(c)})

LogsIn(c) ==
  /\ At(c, "idle") /\ Started < MaxLogins
  /\ call' = [call EXCEPT ![c] = [Idle EXCEPT !.at = "find"]]
  /\ LET rivals == {d \in Calls : LoggingIn(d)}
     IN  /\ overlap' = IF rivals = {} THEN overlap ELSE overlap \cup rivals \cup {c}
         /\ alone' = IF rivals = {} /\ Undisturbed(c) THEN {BrowserOf[c]} ELSE {}
  /\ UNCHANGED <<version, sessions, jar, rotations, faults, crossed>>

FindsUser(c) ==
  /\ At(c, "find")
  /\ call' = [call EXCEPT ![c].at = "bump", ![c].v = version + 1]
  /\ UNCHANGED <<version, sessions, jar, rotations, crossed, overlap, alone>>

\* Mutation: the version is left as it is.
KeepsVersion(c) ==
  /\ At(c, "bump")
  /\ call' = [call EXCEPT ![c].at = "revoke", ![c].v = version]
  /\ UNCHANGED <<version, sessions, jar, rotations, crossed, overlap, alone>>

BumpsVersion(c) ==
  /\ At(c, "bump")
  /\ version' = call[c].v
  /\ Goes(c, "revoke")
  /\ UNCHANGED <<sessions, jar, rotations, crossed, overlap, alone>>

RevokesAll(c) ==
  /\ At(c, "revoke")
  /\ sessions' = [s \in DOMAIN sessions |-> [sessions[s] EXCEPT !.live = FALSE]]
  /\ Goes(c, "create")
  /\ UNCHANGED <<version, jar, rotations, crossed, overlap, alone>>

CreatesSession(c) ==
  /\ At(c, "create")
  /\ LET sid == Len(sessions) + 1
         token == [v |-> call[c].v, sid |-> sid, jti |-> 0]
     IN  /\ sessions' = Append(sessions, [jti |-> 0, live |-> TRUE])
         /\ crossed' = IF c \in overlap THEN crossed \cup {sid} ELSE crossed
         /\ Answer(c, Cookies(token), "idle")
  /\ overlap' = overlap \ {c}
  /\ UNCHANGED <<version, jar, rotations, alone>>

\* A statement fails: 500, and what was written before stays.
LoginFails(c) ==
  /\ LoggingIn(c) /\ Fault
  /\ Answer(c, Nothing, "idle")
  /\ overlap' = overlap \ {c}
  /\ alone' = alone \ {BrowserOf[c]}
  /\ UNCHANGED <<version, sessions, jar, rotations, crossed>>

Login(c) == (FindsUser(c) \/ BumpsVersion(c) \/ RevokesAll(c) \/ CreatesSession(c)) /\ NoFault

-----------------------------------------------------------------------------
(* A page asks for data; authMiddleware and JwtAuthGuard compare versions. *)

Asks(c) ==
  /\ At(c, "idle")
  /\ call' = [call EXCEPT ![c] = [Idle EXCEPT !.at = "ask", !.token = jar[BrowserOf[c]].access]]
  /\ UNCHANGED <<version, sessions, jar, rotations, faults, crossed, overlap, alone>>

Admits(token) == token # Nothing /\ token.v = version

\* First try and second: a refusal of the first leads to a refresh, of the second to nothing.
Checked(c) ==
  /\ call[c].at \in {"ask", "again"}
  /\ \/ Admits(call[c].token) /\ NoFault /\ Ends(c)
     \/ /\ IF Admits(call[c].token) THEN Fault ELSE NoFault
        /\ IF At(c, "ask") THEN Goes(c, "refused") ELSE Ends(c)
  /\ UNCHANGED <<version, sessions, jar, rotations, crossed, overlap, alone>>

\* The wrapper: POST /api/auth/refresh with the cookie of that moment.
Refreshes(c) ==
  /\ At(c, "refused")
  /\ LET token == jar[BrowserOf[c]].refresh
     IN  IF token = Nothing THEN Answer(c, NoCookies, "idle")
         ELSE call' = [call EXCEPT ![c].at = "session", ![c].token = token]
  /\ alone' = IF Undisturbed(c) THEN alone ELSE alone \ {BrowserOf[c]}
  /\ UNCHANGED <<version, sessions, jar, rotations, faults, crossed, overlap>>

Row(token) == sessions[token.sid]

FindsSession(c) ==
  /\ At(c, "session")
  /\ LET token == call[c].token
     IN  IF ~Row(token).live THEN Answer(c, NoCookies, "idle")
         ELSE IF Row(token).jti # token.jti \/ version # token.v THEN Goes(c, "kill")
         ELSE Goes(c, "rotate")
  /\ UNCHANGED <<version, sessions, jar, rotations, crossed, overlap, alone>>

\* The token is an old one, or its login is not the latest: the session ends.
Kills(c) ==
  /\ At(c, "kill")
  /\ sessions' = [sessions EXCEPT ![call[c].token.sid].live = FALSE]
  /\ Answer(c, NoCookies, "idle")
  /\ UNCHANGED <<version, jar, rotations, crossed, overlap, alone>>

\* Mutation: the session is written as a live one.
RotatesAlive(c) ==
  /\ At(c, "rotate") /\ rotations < MaxRotations
  /\ LET token == [call[c].token EXCEPT !.jti = rotations + 1]
     IN  /\ sessions' = [sessions EXCEPT ![token.sid].jti = token.jti, ![token.sid].live = TRUE]
         /\ Answer(c, Cookies(token), "again")
  /\ rotations' = rotations + 1
  /\ UNCHANGED <<version, jar, crossed, overlap, alone>>

\* Mutation: the answer carries the old refresh token.
RotatesRow(c) ==
  /\ At(c, "rotate") /\ rotations < MaxRotations
  /\ sessions' = [sessions EXCEPT ![call[c].token.sid].jti = rotations + 1]
  /\ Answer(c, Cookies(call[c].token), "again")
  /\ rotations' = rotations + 1
  /\ UNCHANGED <<version, jar, crossed, overlap, alone>>

Rotates(c) ==
  /\ At(c, "rotate") /\ rotations < MaxRotations
  /\ LET token == [call[c].token EXCEPT !.jti = rotations + 1]
     IN  /\ sessions' = [sessions EXCEPT ![token.sid].jti = token.jti]
         /\ Answer(c, Cookies(token), "again")
  /\ rotations' = rotations + 1
  /\ UNCHANGED <<version, jar, crossed, overlap, alone>>

Refresh(c) == (FindsSession(c) \/ Kills(c) \/ Rotates(c)) /\ NoFault

\* Nothing catches an error of these statements: the process ends, no answer comes.
ApiDies ==
  /\ \E c \in Calls : call[c].at \in {"session", "kill", "rotate"}
  /\ Fault
  /\ call' = [c \in Calls |-> Idle]
  /\ overlap' = {} /\ alone' = {}
  /\ UNCHANGED <<version, sessions, jar, rotations, crossed>>

-----------------------------------------------------------------------------
(* POST /api/auth/logout, from the sidebar. *)

LogsOut(c) ==
  /\ At(c, "idle")
  /\ call' = [call EXCEPT ![c] = [Idle EXCEPT !.at = "logout", !.token = jar[BrowserOf[c]].refresh]]
  /\ alone' = alone \ {BrowserOf[c]}
  /\ UNCHANGED <<version, sessions, jar, rotations, faults, crossed, overlap>>

\* An error is swallowed like a token that cannot be parsed.
Logout(c) ==
  /\ At(c, "logout")
  /\ IF call[c].token = Nothing THEN NoFault /\ UNCHANGED sessions
     ELSE \/ sessions' = [sessions EXCEPT ![call[c].token.sid].live = FALSE] /\ NoFault
          \/ UNCHANGED sessions /\ Fault
  /\ Answer(c, NoCookies, "idle")
  /\ UNCHANGED <<version, jar, rotations, crossed, overlap, alone>>

-----------------------------------------------------------------------------
(* The browser: answers arrive in any order, or not at all; cookies expire. *)

Arrives(c) ==
  /\ At(c, "answer")
  /\ LET b == BrowserOf[c]
     IN  /\ jar' = IF call[c].sets = Nothing THEN jar ELSE [jar EXCEPT ![b] = call[c].sets]
         /\ call' = [call EXCEPT ![c] = [Idle EXCEPT !.at = call[c].next, !.token = jar'[b].access]]
  /\ UNCHANGED <<version, sessions, rotations, faults, crossed, overlap, alone>>

AnswerLost(c) ==
  /\ At(c, "answer") /\ Fault
  /\ Ends(c)
  /\ alone' = alone \ {BrowserOf[c]}
  /\ UNCHANGED <<version, sessions, jar, rotations, crossed, overlap>>

\* The access cookie lives as long as its token.
AccessExpires(b) ==
  /\ jar[b].access # Nothing
  /\ jar' = [jar EXCEPT ![b].access = Nothing]
  /\ UNCHANGED <<version, sessions, call, rotations, faults, crossed, overlap, alone>>

\* After the life of the refresh token without a request the browser has no cookies.
SessionLapses(b) ==
  /\ jar[b].refresh # Nothing
  /\ \A c \in Calls : BrowserOf[c] = b => At(c, "idle")
  /\ jar' = [jar EXCEPT ![b] = NoCookies]
  /\ alone' = alone \ {b}
  /\ UNCHANGED <<version, sessions, call, rotations, faults, crossed, overlap>>

Server(c) == Login(c) \/ Checked(c) \/ Refresh(c) \/ Logout(c)

Step ==
  \/ \E c \in Calls : \/ LogsIn(c) \/ Asks(c) \/ LogsOut(c)
                      \/ Server(c) \/ LoginFails(c)
                      \/ Refreshes(c) \/ Arrives(c) \/ AnswerLost(c)
  \/ \E b \in Browsers : AccessExpires(b) \/ SessionLapses(b)
  \/ ApiDies

Records == ended' = ended \cup {s \in DOMAIN sessions' : ~sessions'[s].live}
Next == Step /\ Records

Spec == Init /\ [][Next]_vars

\* Statements end, answers arrive or are lost, tokens expire.  Nobody has to ask.
Fairness ==
  /\ \A c \in Calls : WF_vars((Server(c) \/ Refreshes(c) \/ Arrives(c)) /\ Records)
  /\ \A b \in Browsers : WF_vars(AccessExpires(b) /\ Records)

FairSpec == Spec /\ Fairness

-----------------------------------------------------------------------------

Refreshable(token) ==
  token # Nothing /\ Row(token).live /\ Row(token).jti = token.jti /\ version = token.v

\* The sessions a browser can still use: its access token or its refresh token is accepted.
Usable(b) ==
  {s \in DOMAIN sessions : \/ Admits(jar[b].access) /\ jar[b].access.sid = s
                           \/ Refreshable(jar[b].refresh) /\ jar[b].refresh.sid = s}

\* What works is of the latest login ("Token expired due to newer login"), unless two
\* logins overlapped: they read the same version, and both may go on.
LatestLoginOnly ==
  \A b \in Browsers : \A s \in Usable(b) \ crossed : s = Len(sessions)

\* A browser that logged in, whose refreshes did not overlap and lost no answer, while
\* nobody else logged in, holds a refresh token that works: no page sends it to login.
KeptWhileAlone ==
  \A b \in alone :
    (\A c \in Calls : BrowserOf[c] = b => call[c].at \notin SessionSteps)
      => Refreshable(jar[b].refresh)

\* However a refresh raced the logout, or a login the other: the cookies left of a
\* session that was ended stop working.
EndedStaysEnded ==
  <>[](\A b \in Browsers : Usable(b) \cap ended = {})
=============================================================================
