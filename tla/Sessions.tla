------------------------------ MODULE Sessions ------------------------------
(***************************************************************************)
(* Sessions of one user: logins, the rotation of refresh tokens, logout and*)
(* revocation (server/src/auth/auth.service.ts), with the browsers that    *)
(* hold the cookie and the interceptor that refreshes after a 401          *)
(* (client/src/app/core/interceptors/auth.interceptor.ts).                 *)
(*                                                                         *)
(* A slot follows one request from the browser through the handler's       *)
(* statements to its answer.  A login runs outside any transaction, so each*)
(* of its statements is a step.  A refresh is one transaction: it reads the*)
(* session, then locks the User row with its first write, so the writes and*)
(* the commit are one step.                                                *)
(***************************************************************************)
EXTENDS Integers, FiniteSets, FiniteSetsExt

CONSTANTS
    Browsers,       \* browsers the user has
    Agents,         \* values of the column Session.userAgent
    HeaderOf,       \* User-Agent header of each browser, or Missing
    Procs,          \* slots for requests that are under way at the same time
    MaxSessions,    \* MAX_SESSIONS
    MaxIds, MaxTok  \* bounds: sessions created, tokens issued

Missing == "missing"
Unknown == "unknown"
NoBrowser == "none"

ASSUME AgentsAssumption ==
    Unknown \in Agents /\ Missing \notin Agents /\ HeaderOf \in [Browsers -> Agents \cup {Missing}]
ASSUME BoundsAssumption ==
    /\ MaxSessions \in Nat \ {0} /\ MaxIds \in Nat /\ MaxTok \in Nat
    /\ IsFiniteSet(Procs)
ASSUME NoBrowserAssumption == NoBrowser \notin Browsers

VARIABLES
    live,       \* ids of the Session rows, in creation order
    agent, token, lapsed,   \* their userAgent and refreshToken; the expired ones
    nextId, nextTok,
    issued,     \* history: the session each token was generated for
    cookie,     \* refreshToken cookie of each browser, 0: none
    signed,     \* browsers that have an access token stored
    alone,      \* history: browsers whose requests did not overlap and all ran to
                \* their end, the last login and whatever came after it
    pc, by,     \* where a request is, and the browser it comes from
    tok,        \* the token it carries, or brings back
    sid         \* the session its handler found, or is going to evict

rows == <<live, agent, token, lapsed>>
tokens == <<nextTok, issued>>
server == <<rows, tokens, nextId>>
client == <<cookie, signed, alone>>
slots == <<pc, by, tok, sid>>
vars == <<server, client, slots>>

Ids == 1 .. MaxIds
Tokens == 1 .. MaxTok

Init ==
    /\ live = {} /\ lapsed = {}
    /\ agent = [i \in Ids |-> Unknown]
    /\ token = [i \in Ids |-> 0]
    /\ nextId = 1 /\ nextTok = 1
    /\ issued = [t \in Tokens |-> 0]
    /\ cookie = [b \in Browsers |-> 0]
    /\ signed = {}
    /\ alone = {}
    /\ pc = [p \in Procs |-> "idle"]
    /\ by = [p \in Procs |-> NoBrowser]
    /\ tok = [p \in Procs |-> 0]
    /\ sid = [p \in Procs |-> 0]

----------------------------------------------------------------------------

Goto(p, label) == pc' = [pc EXCEPT ![p] = label]

Finish(p) ==
    /\ pc' = [pc EXCEPT ![p] = "idle"]
    /\ by' = [by EXCEPT ![p] = NoBrowser]
    /\ tok' = [tok EXCEPT ![p] = 0]
    /\ sid' = [sid EXCEPT ![p] = 0]

\* A login carries no token until it is answered.
Answered(p) == IF tok[p] = 0 THEN "welcome" ELSE "answer"

Quiet(b) == \A p \in Procs : by[p] # b

\* Browser b sends a request, carrying token t.
Send(p, b, label, t) ==
    /\ pc[p] = "idle"
    /\ Goto(p, label)
    /\ by' = [by EXCEPT ![p] = b]
    /\ tok' = [tok EXCEPT ![p] = t]
    /\ alone' = IF ~Quiet(b) THEN alone \ {b}
                ELSE IF label = "find" THEN alone \cup {b} ELSE alone
    /\ UNCHANGED <<sid, server, cookie>>

\* Fault: no default for a missing header.
AgentRaw(b) == HeaderOf[b]

\* extractMeta: the header, or 'unknown'.
Agent(b) == IF HeaderOf[b] = Missing THEN Unknown ELSE HeaderOf[b]

\* generateTokens: a token nobody has had before, brought back to the browser.
Issue(p, i) ==
    /\ nextTok \in Tokens
    /\ nextTok' = nextTok + 1
    /\ issued' = [issued EXCEPT ![nextTok] = i]
    /\ tok' = [tok EXCEPT ![p] = nextTok]

\* Delete the rows of the ids in S.
Remove(S) ==
    /\ live' = live \ S
    /\ lapsed' = lapsed \ S
    /\ agent' = [i \in Ids |-> IF i \in S THEN Unknown ELSE agent[i]]
    /\ token' = [i \in Ids |-> IF i \in S THEN 0 ELSE token[i]]

----------------------------------------------------------------------------
(* issueTokens, after the credentials have been verified *)

StartLogin(p, b) == b \notin signed /\ Send(p, b, "find", 0) /\ UNCHANGED signed

\* findFirst by userAgent: any row of that agent will do.
LoginFind(p) ==
    /\ pc[p] = "find"
    /\ LET same == {i \in live : agent[i] = Agent(by[p])} IN
         \/ same = {} /\ Goto(p, "count") /\ UNCHANGED sid
         \/ \E i \in same : Goto(p, "rotate") /\ sid' = [sid EXCEPT ![p] = i]
    /\ UNCHANGED <<server, client, by, tok>>

\* Fault: one session more than the limit is let in.
FullOffByOne == Cardinality(live) > MaxSessions

Full == Cardinality(live) >= MaxSessions

\* Fault: findMany without an order.
LoginCountUnordered(p) ==
    /\ pc[p] = "count"
    /\ \/ ~Full /\ Goto(p, "create") /\ UNCHANGED sid
       \/ Full /\ Goto(p, "evict") /\ \E i \in live : sid' = [sid EXCEPT ![p] = i]
    /\ UNCHANGED <<server, client, by, tok>>

\* findMany, oldest first.
LoginCount(p) ==
    /\ pc[p] = "count"
    /\ \/ ~Full /\ Goto(p, "create") /\ UNCHANGED sid
       \/ Full /\ Goto(p, "evict") /\ sid' = [sid EXCEPT ![p] = Min(live)]
    /\ UNCHANGED <<server, client, by, tok>>

\* delete by id; if the row is gone already, it throws and the login fails.
LoginEvict(p) ==
    /\ pc[p] = "evict"
    /\ IF sid[p] \in live
         THEN Remove({sid[p]}) /\ Goto(p, "create")
         ELSE UNCHANGED rows /\ Goto(p, "refused")
    /\ UNCHANGED <<tokens, nextId, client, by, tok, sid>>

LoginCreate(p) ==
    /\ pc[p] = "create"
    /\ nextId \in Ids
    /\ Issue(p, nextId)
    /\ live' = live \cup {nextId}
    /\ agent' = [agent EXCEPT ![nextId] = Agent(by[p])]
    /\ token' = [token EXCEPT ![nextId] = nextTok]
    /\ nextId' = nextId + 1
    /\ Goto(p, "welcome")
    /\ UNCHANGED <<lapsed, client, by, sid>>

----------------------------------------------------------------------------
(* The interceptor's refresh *)

\* A request sent with an access token that has expired is answered 401.
Call(p, b) == b \in signed /\ Send(p, b, "unauthorized", 0) /\ UNCHANGED signed

\* The interceptor sends the cookie that the browser has by now.
SendRefresh(p) ==
    /\ pc[p] = "unauthorized"
    /\ Goto(p, "refresh")
    /\ tok' = [tok EXCEPT ![p] = cookie[by[p]]]
    /\ UNCHANGED <<server, client, by, sid>>

\* Row i holds token t and has not expired.
Valid(i, t) == token[i] = t /\ i \notin lapsed

\* The session of the token.  If it has expired, it is deleted and an exception
\* thrown in the same transaction: the row stays.
RefreshFind(p) ==
    /\ pc[p] = "refresh"
    /\ \/ \E i \in live : /\ Valid(i, tok[p])
                          /\ sid' = [sid EXCEPT ![p] = i]
                          /\ Goto(p, "rotate")
       \/ /\ \A i \in live : ~Valid(i, tok[p])
          /\ Goto(p, "refused") /\ UNCHANGED sid
    /\ UNCHANGED <<server, client, by, tok>>

\* Fault: an upsert instead of an update.
RotateUpsert(p) ==
    /\ pc[p] = "rotate"
    /\ Issue(p, sid[p])
    /\ live' = live \cup {sid[p]}
    /\ token' = [token EXCEPT ![sid[p]] = nextTok]
    /\ Goto(p, Answered(p))
    /\ UNCHANGED <<agent, lapsed, nextId, client, by, sid>>

\* Fault: the answer carries a new token, but the row keeps the old one.
RotateNotStored(p) ==
    /\ pc[p] = "rotate" /\ sid[p] \in live
    /\ Issue(p, sid[p])
    /\ Goto(p, Answered(p))
    /\ UNCHANGED <<rows, nextId, client, by, sid>>

\* rotateSession, for a login or a refresh: update by id, which throws if the
\* row is gone.
Rotate(p) ==
    /\ pc[p] = "rotate"
    /\ \/ /\ sid[p] \in live
          /\ Issue(p, sid[p])
          /\ token' = [token EXCEPT ![sid[p]] = nextTok]
          /\ lapsed' = lapsed \ {sid[p]}
          /\ Goto(p, Answered(p))
       \/ /\ sid[p] \notin live
          /\ Goto(p, "refused")
          /\ UNCHANGED <<token, lapsed, tokens, tok>>
    /\ UNCHANGED <<live, agent, nextId, client, by, sid>>

\* Set-Cookie, and saveToken.
Answer(p) ==
    /\ pc[p] \in {"welcome", "answer"}
    /\ cookie' = [cookie EXCEPT ![by[p]] = tok[p]]
    /\ signed' = signed \cup {by[p]}
    /\ Finish(p)
    /\ UNCHANGED <<server, alone>>

\* A failed refresh clears the access token, a failed login shows an error.
\* The cookie stays.
Refused(p) ==
    /\ pc[p] = "refused"
    /\ \/ tok[p] # 0 /\ signed' = signed \ {by[p]} /\ UNCHANGED alone
       \/ tok[p] = 0 /\ alone' = alone \ {by[p]} /\ UNCHANGED signed
    /\ Finish(p)
    /\ UNCHANGED <<server, cookie>>

----------------------------------------------------------------------------
(* logout, logoutAll, revokeSession *)

\* The access token goes at once; the POST carries the cookie.
Logout(p, b) ==
    /\ b \in signed
    /\ signed' = signed \ {b}
    /\ Send(p, b, "logout", cookie[b])

\* Fault: the token is not hashed: no row has it, and the error is swallowed.
LogoutDeleteNothing(p) ==
    /\ pc[p] = "logout"
    /\ Finish(p)
    /\ UNCHANGED <<server, client>>

\* delete by token, errors swallowed.  clearCookie names the path /api/auth,
\* not the path / the cookie was set with: the browser keeps it.
LogoutDelete(p) ==
    /\ pc[p] = "logout"
    /\ Remove({i \in live : token[i] = tok[p]})
    /\ Finish(p)
    /\ UNCHANGED <<tokens, nextId, client>>

\* By any browser with an access token, which outlives its session: one other
\* session, or all of them.
Revoke ==
    /\ signed # {}
    /\ \/ \E i \in live : Remove({i})
       \/ live # {} /\ Remove(live)
    /\ UNCHANGED <<tokens, nextId, client, slots>>

----------------------------------------------------------------------------

\* REFRESH_TTL_MS pass without a rotation.
Lapse(i) ==
    /\ lapsed' = lapsed \cup {i}
    /\ UNCHANGED <<live, agent, token, tokens, nextId, client, slots>>

\* The connection breaks or the server stops: the handler ends after any of
\* its statements, or its answer is lost.  A failed refresh clears the token,
\* unless the page is closed.
Drop(p) ==
    /\ pc[p] # "idle"
    /\ alone' = alone \ {by[p]}
    /\ \/ UNCHANGED signed
       \/ /\ pc[p] \in {"refresh", "rotate", "answer", "refused"} /\ tok[p] # 0
          /\ signed' = signed \ {by[p]}
    /\ Finish(p)
    /\ UNCHANGED <<server, cookie>>

Handle(p) ==
    \/ LoginFind(p) \/ LoginCount(p) \/ LoginEvict(p) \/ LoginCreate(p)
    \/ SendRefresh(p) \/ RefreshFind(p) \/ Rotate(p)
    \/ Answer(p) \/ Refused(p) \/ LogoutDelete(p)

Next ==
    \/ \E p \in Procs, b \in Browsers : StartLogin(p, b) \/ Call(p, b) \/ Logout(p, b)
    \/ \E p \in Procs : Handle(p) \/ Drop(p)
    \/ \E i \in live \ lapsed : Lapse(i)
    \/ Revoke

Spec == Init /\ [][Next]_vars

----------------------------------------------------------------------------
(* Properties *)

\* Types; ids and tokens that are in use have been handed out.
ServerOK ==
    /\ nextId \in 1 .. MaxIds + 1 /\ nextTok \in 1 .. MaxTok + 1
    /\ live \subseteq Ids /\ \A i \in live : i < nextId
    /\ agent \in [Ids -> Agents] /\ token \in [Ids -> 0 .. MaxTok] /\ lapsed \subseteq live
    /\ issued \in [Tokens -> 0 .. MaxIds]

ClientOK ==
    /\ cookie \in [Browsers -> 0 .. MaxTok]
    /\ signed \subseteq Browsers /\ alone \subseteq Browsers

Labels == {"idle", "find", "count", "evict", "create", "rotate", "unauthorized", "refresh",
           "welcome", "answer", "refused", "logout"}

SlotsOK ==
    /\ pc \in [Procs -> Labels]
    /\ by \in [Procs -> Browsers \cup {NoBrowser}]
    /\ tok \in [Procs -> 0 .. MaxTok]
    /\ sid \in [Procs -> 0 .. MaxIds] /\ \A p \in Procs : sid[p] < nextId

TypeOK == ServerOK /\ ClientOK /\ SlotsOK

Creating == {p \in Procs : pc[p] = "create"}

\* README.md:131 promises MAX_SESSIONS.  Logins that overlap can exceed it, but
\* never by more than the other handlers: whoever is about to insert a row saw
\* room for it, or has evicted one.
SessionsBounded ==
    Cardinality(live) + Cardinality(Creating) < MaxSessions + Cardinality(Procs)

\* README.md:131: the oldest is evicted.  The row chosen before the delete is
\* still the oldest when it is deleted, whatever came and went in between.
OldestIsEvicted ==
    \A p \in Procs : pc[p] = "evict" /\ sid[p] \in live => \A i \in live : sid[p] <= i

\* A session that was revoked, evicted or logged out never comes back, although
\* a refresh or a login that found it may still be under way.
RevokedStaysRevoked == [][\A i \in live' : i < nextId => i \in live]_vars

\* No other browser of the user sends b's User-Agent.
OwnAgent(b) == \A c \in Browsers : Agent(c) = Agent(b) => c = b

\* As long as a browser's requests do not overlap and are answered, the token
\* in its cookie is the current one of its session, if that still exists.  A
\* browser with the same User-Agent would share the row, and rotate it away.
CookieIsCurrent ==
    \A b \in alone \cap signed : Quiet(b) /\ OwnAgent(b) =>
        LET i == issued[cookie[b]] IN i \in live => token[i] = cookie[b]

\* A browser that has logged out, or that a failed refresh has signed out, has
\* no session left that its cookie could refresh, whoever shares the row.
SignedOutIsDead ==
    \A b \in alone \ signed : Quiet(b) => \A i \in live : ~Valid(i, cookie[b])

=============================================================================
