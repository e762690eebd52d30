---------------------------- MODULE ServerSessions ----------------------------
(***************************************************************************)
(* Sessions of the server (src/server.ts) and of the browser that holds    *)
(* one (src/src/services/sessionService.ts): the server's map, its list of *)
(* revoked tokens, which lives in memory only, and its file, written after *)
(* each change; the browser's current session and its copy in              *)
(* localStorage; and the requests between the two, which may be answered,  *)
(* given up, lost, or arrive after the browser gave up.                    *)
(*                                                                         *)
(* A login's and a registration's token is drawn by the server, that of a  *)
(* passkey session by the browser; each is used for one session.  Requests *)
(* that are refused for their content change nothing and are left out, as  *)
(* is the built-in session, whose token no request of the browser names.   *)
(***************************************************************************)
EXTENDS Integers, FiniteSets

CONSTANTS
    Tokens, Passkeys, \* session tokens, and those of them the browser draws
    Expirable,        \* bound: tokens that may reach the end of their 24 hours
    Local, NoSession, \* the session a page without one makes up, and none at all
    MaxCalls          \* bound: requests under way

ASSUME TokensAssumption ==
    /\ Passkeys \cup Expirable \subseteq Tokens
    /\ Local \notin Tokens
    /\ NoSession \notin Tokens \cup {Local}
    /\ MaxCalls \in Nat

VARIABLES
    activeSessions, revokedTokens, \* server memory
    file, saved,  \* the sessions a load of the file finds; whether the last write
                  \* succeeded
    current, cached, \* browser: the current session, its copy in localStorage
    calls,        \* requests under way
    expired,      \* tokens whose 24 hours are over
    drawn,        \* tokens in use so far
    answered, closed, lost \* for the properties: sessions the browser was told of,
                  \* those whose last request the server handled was a logout, and
                  \* those a restart set back because the last write had failed

serverVars == <<activeSessions, revokedTokens, file, saved>>
browserVars == <<current, cached>>
sessionVars == <<serverVars, browserVars, calls, expired, drawn, answered, closed, lost>>

Holders == Tokens \cup {Local}

Call == [op : {"login", "passkey", "logout"}, token : Holders,
         handled : BOOLEAN, awaited : BOOLEAN]

SessionTypeOK ==
    /\ activeSessions \subseteq Tokens
    /\ revokedTokens \subseteq Holders
    /\ file \subseteq Tokens
    /\ saved \in BOOLEAN
    /\ current \in Holders \cup {NoSession}
    /\ cached \in Holders \cup {NoSession}
    /\ calls \subseteq Call
    /\ expired \subseteq Tokens
    /\ drawn \subseteq Tokens
    /\ answered \subseteq Tokens
    /\ closed \subseteq Holders
    /\ lost \subseteq Tokens

(* A page without a stored session makes one up. *)
SessionInit ==
    /\ activeSessions = {} /\ revokedTokens = {}
    /\ file = {} /\ saved = TRUE
    /\ current = Local /\ cached = Local
    /\ calls = {} /\ expired = {} /\ drawn = {}
    /\ answered = {} /\ closed = {} /\ lost = {}

-----------------------------------------------------------------------------
(* The browser. *)

Send(op, token) ==
    /\ Cardinality(calls) < MaxCalls
    /\ calls' = calls \cup {[op |-> op, token |-> token, handled |-> FALSE, awaited |-> TRUE]}

(* loginWithCredentials, registerUser; createSessionFromWebAuthn. *)
RequestSession(t) ==
    /\ t \notin drawn
    /\ drawn' = drawn \cup {t}
    /\ Send(IF t \in Passkeys THEN "passkey" ELSE "login", t)
    /\ UNCHANGED <<serverVars, browserVars, expired, answered, closed, lost>>

RequestLogout ==
    /\ current # NoSession
    /\ Send("logout", current)
    /\ UNCHANGED <<serverVars, browserVars, expired, drawn, answered, closed, lost>>

Holds(session) == current' = session /\ cached' = session

(* What follows the await of a logout: it ends the session that is current *)
(* by then; when there is none it throws before it touches the cache.      *)
LogoutTail ==
    IF current = NoSession THEN UNCHANGED browserVars ELSE Holds(NoSession)

(* A successful answer arrives. *)
Answered(call) ==
    /\ call.handled /\ call.awaited
    /\ calls' = calls \ {call}
    /\ IF call.op = "logout"
       THEN LogoutTail /\ UNCHANGED answered
       ELSE Holds(call.token) /\ answered' = answered \cup {call.token}
    /\ UNCHANGED <<serverVars, expired, drawn, closed, lost>>

(* The request fails for the browser, handled or not: a passkey session is *)
(* kept locally, a logout ends as if answered, a login reports an error.   *)
GivenUp(call) ==
    /\ call.awaited
    /\ calls' = (calls \ {call}) \cup
                (IF call.handled THEN {} ELSE {[call EXCEPT !.awaited = FALSE]})
    /\ CASE call.op = "logout"  -> LogoutTail
         [] call.op = "passkey" -> Holds(call.token)
         [] call.op = "login"   -> UNCHANGED browserVars
    /\ UNCHANGED <<serverVars, expired, drawn, answered, closed, lost>>

(* restoreCachedSession: an expired session is shown but not kept. *)
ReloadPage ==
    /\ calls' = {[call EXCEPT !.awaited = FALSE] : call \in {c \in calls : ~c.handled}}
    /\ CASE cached = NoSession -> Holds(Local)
         [] cached \in expired -> current' = cached /\ cached' = NoSession
         [] OTHER              -> current' = cached /\ UNCHANGED cached
    /\ UNCHANGED <<serverVars, expired, drawn, answered, closed, lost>>

-----------------------------------------------------------------------------
(* The server. *)

(* Mutant: a new session of the browser is written only by the next one. *)
SavesBefore(ok) ==
    /\ file' \in IF ok THEN {activeSessions} ELSE {file, {}}
    /\ saved' = ok

(* saveSessions writes the whole map over the file; its failure is only    *)
(* logged.  A write that fails before the file is opened leaves it as it   *)
(* was; one that fails later leaves it empty or cut off, and of such a     *)
(* file loadSessions, whose parse throws, reads no session at all.         *)
Saves(ok) ==
    /\ file' \in IF ok THEN {activeSessions'} ELSE {file, {}}
    /\ saved' = ok

Handled(call) ==
    calls' = (calls \ {call}) \cup
             (IF call.awaited THEN {[call EXCEPT !.handled = TRUE]} ELSE {})

(* POST login, register and session.  The last does not look at the        *)
(* revoked tokens.                                                         *)
HandleSession(call, ok) ==
    /\ call.op # "logout" /\ ~call.handled
    /\ activeSessions' = activeSessions \cup {call.token}
    /\ Saves(ok)
    /\ closed' = closed \ {call.token}
    /\ Handled(call)
    /\ UNCHANGED <<revokedTokens, browserVars, expired, drawn, answered, lost>>

(* Mutant: a logout is not written to the file. *)
HandleLogoutUnsaved(call, ok) ==
    /\ call.op = "logout" /\ ~call.handled
    /\ revokedTokens' = revokedTokens \cup {call.token}
    /\ activeSessions' = activeSessions \ {call.token}
    /\ UNCHANGED <<file, saved>>
    /\ closed' = closed \cup {call.token}
    /\ Handled(call)
    /\ UNCHANGED <<browserVars, expired, drawn, answered, lost>>

(* Mutant: a logout revokes the token and leaves its session in the map. *)
HandleLogoutKept(call, ok) ==
    /\ call.op = "logout" /\ ~call.handled
    /\ revokedTokens' = revokedTokens \cup {call.token}
    /\ UNCHANGED activeSessions
    /\ IF call.token \in activeSessions THEN Saves(ok) ELSE UNCHANGED <<file, saved>>
    /\ closed' = closed \cup {call.token}
    /\ Handled(call)
    /\ UNCHANGED <<browserVars, expired, drawn, answered, lost>>

(* POST logout *)
HandleLogout(call, ok) ==
    /\ call.op = "logout" /\ ~call.handled
    /\ revokedTokens' = revokedTokens \cup {call.token}
    /\ activeSessions' = activeSessions \ {call.token}
    /\ IF call.token \in activeSessions THEN Saves(ok) ELSE UNCHANGED <<file, saved>>
    /\ closed' = closed \cup {call.token}
    /\ Handled(call)
    /\ UNCHANGED <<browserVars, expired, drawn, answered, lost>>

(* A request the browser gave up never arrives. *)
Drop(call) ==
    /\ ~call.handled /\ ~call.awaited
    /\ calls' = calls \ {call}
    /\ UNCHANGED <<serverVars, browserVars, expired, drawn, answered, closed, lost>>

(* The process ends and starts again: loadSessions.  Answers on their way  *)
(* are not taken back.  When the last write had failed, the sessions that  *)
(* are in memory and not on file, all of them when the file is torn, or on *)
(* file and not in memory, are set back.  A process that ends in the       *)
(* middle of a write is a write that fails and then this step.             *)
Restart ==
    /\ activeSessions' = file \ expired
    /\ revokedTokens' = {}
    /\ lost' = IF saved THEN lost
               ELSE lost \cup (file \ activeSessions) \cup (activeSessions \ file)
    /\ UNCHANGED <<file, saved, browserVars, calls, expired, drawn, answered, closed>>

Expire(t) ==
    /\ t \in drawn \ expired
    /\ expired' = expired \cup {t}
    /\ UNCHANGED <<serverVars, browserVars, calls, drawn, answered, closed, lost>>

SessionNext ==
    \/ \E t \in Tokens : RequestSession(t)
    \/ RequestLogout
    \/ \E call \in calls : Answered(call)
    \/ \E call \in calls : GivenUp(call)
    \/ ReloadPage
    \/ \E call \in calls, ok \in BOOLEAN : HandleSession(call, ok)
    \/ \E call \in calls, ok \in BOOLEAN : HandleLogout(call, ok)
    \/ \E call \in calls : Drop(call)
    \/ Restart
    \/ \E t \in Expirable : Expire(t)

SessionSpec == SessionInit /\ [][SessionNext]_sessionVars

-----------------------------------------------------------------------------
(* getSessionFromRequest *)
Accepted(t) ==
    /\ t \notin revokedTokens
    /\ t \in activeSessions
    /\ t \notin expired

(* Memory and disk agree: unless the last write failed, the sessions a     *)
(* restart would load are those the server accepts now, and the cached     *)
(* session of the browser, which is one tab here, is its current one,      *)
(* through every interleaving of logins, logouts, late requests, reloads   *)
(* and restarts (saveSessions and loadSessions of server.ts, saveSession   *)
(* and logout of sessionService.ts).                                       *)
SessionsDurable ==
    /\ saved => file \ expired = activeSessions \ expired
    /\ cached # current => cached = NoSession /\ current \in expired

(* A session whose logout the server has handled is refused from then on,  *)
(* by a server that has forgotten its revoked tokens in a restart too,     *)
(* unless the write of that logout failed before the restart or the        *)
(* session's own request arrived after its logout (POST logout, POST       *)
(* session and loadSessions of server.ts).                                 *)
LogoutSticks == \A t \in closed \ lost : ~Accepted(t)

(* A session the browser was told of is accepted until its logout is       *)
(* handled or its time is over, across restarts, unless a restart followed *)
(* a failed write, which costs every session when it has torn the file: no *)
(* late request of an earlier session, and no logout of another, takes it  *)
(* away (saveSessions, loadSessions and the session routes of server.ts).  *)
ConfirmedAccepted ==
    \A t \in answered : Accepted(t) \/ t \in closed \cup lost \cup expired
=============================================================================
