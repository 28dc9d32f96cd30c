------------------------------ MODULE Sessions ------------------------------
(***************************************************************************)
(* Sessions of the web admin (internal/web/admin.go): login, logout, and   *)
(* the two middlewares before every other handler.                         *)
(*                                                                         *)
(* The map of sessions is shared by all handlers without a lock.  Go's     *)
(* runtime keeps a flag in a map while it is written: a read or a write    *)
(* that meets it ends the process, and nothing recovers it.  (Two writes   *)
(* that set it together are noticed when one of them is over.)  A write    *)
(* that begins during a read goes unnoticed, and the read may find its     *)
(* entry or miss it.  An access is therefore two steps.  In an empty map   *)
(* there is nothing to read or delete, and nothing is looked at.           *)
(***************************************************************************)
EXTENDS Naturals, FiniteSets

CONSTANTS
    Workers,       \* goroutines that serve requests of the web admin
    Ids,           \* session ids that may be generated
    None,          \* no cookie, no request
    MaxVisits      \* bound: requests

ASSUME SessionsAssumption == None \notin Ids /\ MaxVisits \in Nat

VARIABLES
    sessions,   \* ids in the map
    old,        \* ids created more than 24 hours ago
    generated,  \* ids generated so far
    step,       \* worker -> what it does
    visit,      \* worker -> the request it serves
    found,      \* worker -> did its last read of the map find the session
    visits,     \* requests so far
    exit        \* how the process ended: "no", "clean" (status 0), "fatal"

sessionVars == <<sessions, old, generated, step, visit, found, visits>>

(***************************************************************************)
(* A request: a login, right or wrong; a page, a change or a logout, with  *)
(* the cookie of some session.  A change is genuine when it brings the     *)
(* CSRF token of that session, and Origin or Referer name the server.      *)
(***************************************************************************)
Visit ==
         [kind : {"login"}, right : BOOLEAN]
    \cup [kind : {"page", "logout"}, cookie : Ids \cup {None}]
    \cup [kind : {"change"}, cookie : Ids \cup {None}, genuine : BOOLEAN]

Reading == {"reading"}
Writing == {"creating", "dropping", "ending"}

SessionsTypeOK ==
    /\ sessions \subseteq generated /\ old \subseteq generated /\ generated \subseteq Ids
    /\ step \in [Workers -> {"idle", "login", "auth", "csrf", "drop", "logout", "serving"}
                                \cup Reading \cup Writing]
    /\ \A w \in Workers : step[w] # "idle" => visit[w] \in Visit
    /\ found \in [Workers -> BOOLEAN]
    /\ exit \in {"no", "clean", "fatal"}

SessionsInit ==
    /\ sessions = {} /\ old = {} /\ generated = {}
    /\ step = [w \in Workers |-> "idle"]
    /\ visit = [w \in Workers |-> None]
    /\ found = [w \in Workers |-> FALSE]
    /\ visits = 0

-----------------------------------------------------------------------------
(***************************************************************************)
(* The map.                                                                *)
(***************************************************************************)
BeingWritten == \E w \in Workers : step[w] \in Writing

Proceed(w, next) == step' = [step EXCEPT ![w] = next]

\* An access begins, or the runtime ends the process.
BeginAccess(w, access) ==
    IF BeingWritten /\ (access \in Writing \/ sessions # {})
    THEN exit' = "fatal" /\ UNCHANGED step
    ELSE Proceed(w, access) /\ UNCHANGED exit

\* A write is over: w is done, and reads in progress may have missed their entry.
EndWrite(w) ==
    /\ step' = [step EXCEPT ![w] = "idle"]
    /\ visit' = [visit EXCEPT ![w] = None]
    /\ \E missed \in SUBSET {v \in Workers : step[v] = "reading"} :
          found' = [v \in Workers |-> found[v] /\ v # w /\ v \notin missed]

Respond(w) ==
    /\ step' = [step EXCEPT ![w] = "idle"]
    /\ visit' = [visit EXCEPT ![w] = None]
    /\ found' = [found EXCEPT ![w] = FALSE]

-----------------------------------------------------------------------------
(***************************************************************************)
(* Requests.                                                               *)
(***************************************************************************)
FirstStep(v) ==
    CASE v.kind = "login" -> "login"
      [] OTHER            -> "auth"

Arrive(w) ==
    /\ step[w] = "idle"
    /\ visits < MaxVisits
    /\ visits' = visits + 1
    /\ \E v \in Visit : /\ visit' = [visit EXCEPT ![w] = v]
                        /\ Proceed(w, FirstStep(v))
    /\ UNCHANGED <<sessions, old, generated, found, exit>>

\* loginSubmit: credentials, then a session under a random id.
Login(w) ==
    /\ step[w] = "login"
    /\ IF visit[w].right /\ generated # Ids
       THEN BeginAccess(w, "creating") /\ UNCHANGED <<visit, found>>
       ELSE Respond(w) /\ UNCHANGED exit
    /\ UNCHANGED <<sessions, old, generated, visits>>

\* Mutant: the session is kept under an id that was not generated.
CreateGiven(w) ==
    /\ step[w] = "creating"
    /\ \E id \in Ids : sessions' = sessions \cup {id}
    /\ EndWrite(w)
    /\ UNCHANGED <<old, generated, visits, exit>>

Create(w) ==
    /\ step[w] = "creating"
    /\ \E id \in Ids \ generated : /\ sessions' = sessions \cup {id}
                                   /\ generated' = generated \cup {id}
    /\ EndWrite(w)
    /\ UNCHANGED <<old, visits, exit>>

\* authMiddleware: without a cookie, to the login page.
Auth(w) ==
    /\ step[w] = "auth"
    /\ IF visit[w].cookie = None
       THEN Respond(w) /\ UNCHANGED exit
       ELSE /\ BeginAccess(w, "reading")
            /\ found' = [found EXCEPT ![w] = visit[w].cookie \in sessions]
            /\ UNCHANGED visit
    /\ UNCHANGED <<sessions, old, generated, visits>>

AfterAuth(v) ==
    CASE v.kind = "change" -> "csrf"
      [] v.kind = "logout" -> "logout"
      [] OTHER             -> "serving"

Authorized(w) == found[w] /\ visit[w].cookie \notin old

\* The session is there and less than a day old, or what there is is removed.
Authorize(w) ==
    /\ step[w] = "reading"
    /\ Proceed(w, IF Authorized(w) THEN AfterAuth(visit[w]) ELSE "drop")
    /\ UNCHANGED <<sessions, old, generated, visit, found, visits, exit>>

\* delete(s.sessions, cookie), before the redirect and in logout.
BeginDelete(w) ==
    /\ step[w] \in {"drop", "logout"}
    /\ IF sessions = {}
       THEN Respond(w) /\ UNCHANGED exit
       ELSE /\ BeginAccess(w, IF step[w] = "drop" THEN "dropping" ELSE "ending")
            /\ UNCHANGED <<visit, found>>
    /\ UNCHANGED <<sessions, old, generated, visits>>

\* Mutant: logout clears the cookie and nothing else.
DeleteDroppedOnly(w) ==
    /\ step[w] \in {"dropping", "ending"}
    /\ sessions' = IF step[w] = "dropping" THEN sessions \ {visit[w].cookie} ELSE sessions
    /\ EndWrite(w)
    /\ UNCHANGED <<old, generated, visits, exit>>

Delete(w) ==
    /\ step[w] \in {"dropping", "ending"}
    /\ sessions' = sessions \ {visit[w].cookie}
    /\ EndWrite(w)
    /\ UNCHANGED <<old, generated, visits, exit>>

\* csrfMiddleware, with the token that authMiddleware took from the session.
CheckToken(w) ==
    /\ step[w] = "csrf"
    /\ IF visit[w].genuine
       THEN Proceed(w, "serving") /\ UNCHANGED <<visit, found>>
       ELSE Respond(w)
    /\ UNCHANGED <<sessions, old, generated, visits, exit>>

\* The handler itself: a page, or a change of ZoneStore or Templates.
Serve(w) ==
    /\ step[w] = "serving"
    /\ Respond(w)
    /\ UNCHANGED <<sessions, old, generated, visits, exit>>

\* 24 hours pass.
Expire ==
    /\ old # generated
    /\ \E id \in generated \ old : old' = old \cup {id}
    /\ UNCHANGED <<sessions, generated, step, visit, found, visits, exit>>

SessionStep(w) ==
    \/ Login(w) \/ Create(w) \/ Auth(w) \/ Authorize(w) \/ BeginDelete(w) \/ Delete(w)
    \/ CheckToken(w) \/ Serve(w)
=============================================================================
