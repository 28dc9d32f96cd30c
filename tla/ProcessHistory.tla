--------------------------- MODULE ProcessHistory ---------------------------
(***************************************************************************)
(* Process with a history of the sessions that were ended.                 *)
(***************************************************************************)
EXTENDS Process

VARIABLES
    loggedOut,  \* sessions ended by a logout
    over        \* worker -> the sessions ended, by logout or age, when its request came

historyVars == <<processVars, loggedOut, over>>

LoggedOutNow == {visit[w].cookie : w \in {v \in Workers : step[v] = "ending" /\ step'[v] = "idle"}}

HInit ==
    /\ ProcessInit
    /\ loggedOut = {}
    /\ over = [w \in Workers |-> {}]

HNext ==
    /\ ProcessNext
    /\ loggedOut' = loggedOut \cup LoggedOutNow
    /\ over' = [w \in Workers |-> CASE step'[w] = "idle" -> {}
                                    [] step[w] = "idle" /\ step'[w] # "idle" -> loggedOut \cup old
                                    [] OTHER -> over[w]]

HSpec == HInit /\ [][HNext]_historyVars

(* A request that comes after its session was logged out, or a day after   *)
(* the login, gets no further than the login page, whatever other requests *)
(* do to the map of sessions meanwhile.                                    *)
EndedStaysEnded ==
    \A w \in Workers : step[w] = "serving" => visit[w].cookie \notin over[w]
=============================================================================
