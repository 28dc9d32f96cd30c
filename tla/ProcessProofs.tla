--------------------------- MODULE ProcessProofs ---------------------------
(***************************************************************************)
(* How the process ends, and who stays logged in, for any number of        *)
(* workers, sessions and requests.                                         *)
(*                                                                         *)
(* CleanExitDrained needs to know that requests stop coming once Shutdown  *)
(* is called, and that it is not called before main has come to it.        *)
(* EndedStaysEnded needs to know how far a request has come: what its read *)
(* of the map found was not logged out at that time, ids are not generated *)
(* twice, and age is looked at after the read.                             *)
(***************************************************************************)
EXTENDS ProcessHistory, TLAPS

Inside == {"csrf", "logout", "ending", "serving"}

WithCookie == {"reading", "drop", "dropping"} \cup Inside

Steps == {"idle", "login", "auth", "creating"} \cup WithCookie

(* A request is where its kind leads to.                                   *)
KindOK(w) ==
    /\ step[w] \in {"login", "creating"} => visit[w].kind = "login"
    /\ step[w] \in {"auth"} \cup WithCookie => visit[w].kind # "login"
    /\ step[w] \in WithCookie => visit[w].cookie \in Ids

KindsOK == \A w \in Workers : KindOK(w)

SessionsInv == SessionsTypeOK /\ KindsOK /\ DOMAIN visit = Workers

DrainInv ==
    /\ exit = "clean" => main = "returned"
    /\ main \in {"waiting", "restShutdown", "restClosing"} => ~closing
    /\ main \in {"dnsShutdown", "returned"} /\ closing => Busy = {} \/ late

ProcessInv == ProcessTypeOK /\ SessionsInv /\ DrainInv

-----------------------------------------------------------------------------
(* What the step of one worker does to itself and to the others.           *)
OthersKept(w) ==
    \A v \in Workers \ {w} : /\ step'[v] = step[v]
                             /\ visit'[v] = visit[v]
                             /\ found'[v] => found[v]

WorkerMoved(w) ==
    /\ step' \in [Workers -> Steps]
    /\ found' \in [Workers -> BOOLEAN]
    /\ DOMAIN visit' = Workers
    /\ step'[w] # "idle" => visit'[w] \in Visit
    /\ KindOK(w)'
    /\ OthersKept(w)

LEMMA ArriveMoves ==
    ASSUME SessionsInv, NEW w \in Workers, Arrive(w)
    PROVE  WorkerMoved(w)
<1> USE DEF SessionsInv, SessionsTypeOK, Arrive, Proceed
<1>1. PICK v \in Visit : visit' = [visit EXCEPT ![w] = v] /\ step' = [step EXCEPT ![w] = FirstStep(v)]
    OBVIOUS
<1>2. step \in [Workers -> Steps]
    BY DEF Steps, WithCookie, Inside, Reading, Writing
<1>3. FirstStep(v) \in {"login", "auth"} /\ (FirstStep(v) = "login" <=> v.kind = "login")
    BY DEF FirstStep
<1>4. step' \in [Workers -> Steps] /\ step'[w] = FirstStep(v) /\ visit'[w] = v
    BY <1>1, <1>2, <1>3 DEF Steps
<1>5. KindOK(w)'
    BY <1>3, <1>4 DEF KindOK, WithCookie, Inside
<1>6. OthersKept(w)
    BY <1>1 DEF OthersKept
<1> QED
    BY <1>1, <1>4, <1>5, <1>6 DEF WorkerMoved

(* The ways a step of a worker ends.                                       *)
LEMMA RespondMoves ==
    ASSUME SessionsInv, NEW w \in Workers, Respond(w)
    PROVE  WorkerMoved(w) /\ step'[w] = "idle"
<1> USE DEF SessionsInv, SessionsTypeOK, Respond
<1>1. step \in [Workers -> Steps]
    BY DEF Steps, WithCookie, Inside, Reading, Writing
<1>2. step' \in [Workers -> Steps] /\ step'[w] = "idle"
    BY <1>1 DEF Steps
<1>3. KindOK(w)'
    BY <1>2 DEF KindOK, WithCookie, Inside
<1> QED
    BY <1>2, <1>3 DEF WorkerMoved, OthersKept

LEMMA EndWriteMoves ==
    ASSUME SessionsInv, NEW w \in Workers, EndWrite(w)
    PROVE  WorkerMoved(w) /\ step'[w] = "idle"
<1> USE DEF SessionsInv, SessionsTypeOK, EndWrite
<1>1. step \in [Workers -> Steps]
    BY DEF Steps, WithCookie, Inside, Reading, Writing
<1>2. step' \in [Workers -> Steps] /\ step'[w] = "idle"
    BY <1>1 DEF Steps
<1>3. PICK missed \in SUBSET {v \in Workers : step[v] = "reading"} :
          found' = [v \in Workers |-> found[v] /\ v # w /\ v \notin missed]
    OBVIOUS
<1>4. found' \in [Workers -> BOOLEAN] /\ \A v \in Workers : found'[v] => found[v]
    BY <1>3
<1>5. KindOK(w)'
    BY <1>2 DEF KindOK, WithCookie, Inside
<1> QED
    BY <1>2, <1>4, <1>5 DEF WorkerMoved, OthersKept

LEMMA ProceedMoves ==
    ASSUME SessionsInv, NEW w \in Workers, NEW next \in Steps \ {"idle"}, step[w] # "idle",
           Proceed(w, next),
           UNCHANGED visit, found' \in [Workers -> BOOLEAN],
           \A v \in Workers \ {w} : found'[v] => found[v],
           visit[w].kind = "login" <=> next \in {"login", "creating"},
           next \in WithCookie => visit[w].cookie \in Ids
    PROVE  WorkerMoved(w) /\ step'[w] = next
<1> USE DEF SessionsInv, SessionsTypeOK, Proceed
<1>1. step \in [Workers -> Steps]
    BY DEF Steps, WithCookie, Inside, Reading, Writing
<1>2. step' \in [Workers -> Steps] /\ step'[w] = next
    BY <1>1
<1>3. KindOK(w)'
    BY <1>2 DEF KindOK, WithCookie, Inside
<1> QED
    BY <1>2, <1>3 DEF WorkerMoved, OthersKept

(* The process ended under the access.                                     *)
LEMMA StayMoves ==
    ASSUME SessionsInv, NEW w \in Workers, UNCHANGED <<step, visit>>,
           found' \in [Workers -> BOOLEAN],
           \A v \in Workers \ {w} : found'[v] => found[v]
    PROVE  WorkerMoved(w) /\ step'[w] = step[w]
<1>1. step \in [Workers -> Steps]
    BY DEF SessionsInv, SessionsTypeOK, Steps, WithCookie, Inside, Reading, Writing
<1>2. KindOK(w)'
    BY DEF SessionsInv, KindsOK, KindOK
<1> QED
    BY <1>1, <1>2 DEF WorkerMoved, OthersKept, SessionsInv, SessionsTypeOK

-----------------------------------------------------------------------------
(* Each step of a worker moves it, and touches the map as its type allows. *)
MapMoved ==
    /\ sessions' \subseteq generated' /\ old' \subseteq generated' /\ generated' \subseteq Ids
    /\ exit' \in {exit, "fatal"}

LEMMA StepMovesMap ==
    ASSUME SessionsInv, NEW w \in Workers, SessionStep(w)
    PROVE  MapMoved
<1> USE DEF SessionsInv, SessionsTypeOK, MapMoved
<1>1. CASE Login(w)
    BY <1>1 DEF Login, BeginAccess
<1>2. CASE Create(w)
    BY <1>2 DEF Create
<1>3. CASE Auth(w)
    BY <1>3 DEF Auth, BeginAccess
<1>4. CASE BeginDelete(w)
    BY <1>4 DEF BeginDelete, BeginAccess
<1>5. CASE Delete(w)
    BY <1>5 DEF Delete
<1>6. CASE Authorize(w) \/ CheckToken(w) \/ Serve(w)
    BY <1>6 DEF Authorize, CheckToken, Serve
<1> QED
    BY <1>1, <1>2, <1>3, <1>4, <1>5, <1>6 DEF SessionStep

LEMMA StepMoves ==
    ASSUME SessionsInv, NEW w \in Workers, SessionStep(w)
    PROVE  WorkerMoved(w)
<1>0. found \in [Workers -> BOOLEAN] /\ KindOK(w) /\ (step[w] # "idle" => visit[w] \in Visit)
    BY DEF KindsOK, SessionsInv, SessionsTypeOK
<1>1. CASE Login(w)
    <2>0. step[w] = "login" /\ visit[w].kind = "login"
        BY <1>0, <1>1 DEF Login, KindOK
    <2>1. CASE BeginAccess(w, "creating") /\ UNCHANGED <<visit, found>>
        <3>1. CASE UNCHANGED step
            BY <1>0, <2>1, <3>1, StayMoves
        <3>2. CASE Proceed(w, "creating")
            BY <1>0, <2>0, <2>1, <3>2, ProceedMoves, "creating" \in Steps \ {"idle"},
               "creating" \notin WithCookie
            DEF Steps, WithCookie, Inside
        <3> QED
            BY <2>1, <3>1, <3>2 DEF BeginAccess
    <2>2. CASE Respond(w)
        BY <2>2, RespondMoves
    <2> QED
        BY <1>1, <2>1, <2>2 DEF Login
<1>2. CASE Create(w)
    BY <1>2, EndWriteMoves DEF Create
<1>3. CASE Auth(w)
    <2>0. step[w] = "auth" /\ visit[w].kind # "login"
        BY <1>0, <1>3 DEF Auth, KindOK
    <2>1. CASE visit[w].cookie # None
        <3>1. visit[w].cookie \in Ids
            BY <1>0, <2>0, <2>1 DEF Visit
        <3>2. found' \in [Workers -> BOOLEAN] /\ \A v \in Workers \ {w} : found'[v] => found[v]
            <4> DEFINE there == visit[w].cookie \in sessions
            <4>1. found' = [found EXCEPT ![w] = there]
                BY <1>3, <2>1, Zenon DEF Auth
            <4>2. there \in BOOLEAN
                OBVIOUS
            <4> HIDE DEF there
            <4> QED
                BY <1>0, <4>1, <4>2
        <3>3. CASE UNCHANGED step
            BY <1>3, <2>1, <3>2, <3>3, StayMoves DEF Auth
        <3>4. CASE Proceed(w, "reading")
            BY <1>3, <2>0, <2>1, <3>1, <3>2, <3>4, ProceedMoves, "reading" \in Steps \ {"idle"}
            DEF Auth, Steps, WithCookie, Inside
        <3> QED
            BY <1>3, <2>1, <3>3, <3>4 DEF Auth, BeginAccess
    <2>2. CASE Respond(w)
        BY <2>2, RespondMoves
    <2> QED
        BY <1>3, <2>1, <2>2 DEF Auth
<1>4. CASE Authorize(w)
    <2>0. step[w] = "reading" /\ visit[w].kind # "login" /\ visit[w].cookie \in Ids
        BY <1>0, <1>4 DEF Authorize, KindOK, WithCookie
    <2> DEFINE next == IF Authorized(w) THEN AfterAuth(visit[w]) ELSE "drop"
    <2>1. next \in Steps \ {"idle"} /\ next \notin {"login", "creating"}
        BY DEF AfterAuth, Steps, WithCookie, Inside
    <2>2. Proceed(w, next) /\ UNCHANGED <<visit, found>>
        BY <1>4 DEF Authorize
    <2> HIDE DEF next
    <2>3. WorkerMoved(w)
        BY <1>0, <2>0, <2>1, <2>2, ProceedMoves
    <2> QED
        BY <1>4, <2>3 DEF Authorize
<1>5. CASE BeginDelete(w)
    <2>0. step[w] \in {"drop", "logout"} /\ visit[w].kind # "login" /\ visit[w].cookie \in Ids
        BY <1>0, <1>5 DEF BeginDelete, KindOK, WithCookie, Inside
    <2> DEFINE next == IF step[w] = "drop" THEN "dropping" ELSE "ending"
    <2>1. next \in Steps \ {"idle"} /\ next \notin {"login", "creating"}
        BY DEF Steps, WithCookie, Inside
    <2>2. CASE BeginAccess(w, next) /\ UNCHANGED <<visit, found>>
        <3>1. CASE UNCHANGED step
            BY <1>0, <2>2, <3>1, StayMoves
        <3>2. CASE Proceed(w, next)
            <4> HIDE DEF next
            <4> QED
                BY <1>0, <2>0, <2>1, <2>2, <3>2, ProceedMoves
        <3> QED
            BY <2>2, <3>1, <3>2 DEF BeginAccess
    <2>3. CASE Respond(w)
        BY <2>3, RespondMoves
    <2> QED
        BY <1>5, <2>2, <2>3 DEF BeginDelete
<1>6. CASE Delete(w)
    BY <1>6, EndWriteMoves DEF Delete
<1>7. CASE CheckToken(w)
    <2>0. step[w] = "csrf" /\ visit[w].kind # "login" /\ visit[w].cookie \in Ids
        BY <1>0, <1>7 DEF CheckToken, KindOK, WithCookie, Inside
    <2>1. CASE Proceed(w, "serving") /\ UNCHANGED <<visit, found>>
        BY <1>0, <2>0, <2>1, ProceedMoves, "serving" \in Steps \ {"idle"} DEF Steps, WithCookie, Inside
    <2>2. CASE Respond(w)
        BY <2>2, RespondMoves
    <2> QED
        BY <1>7, <2>1, <2>2 DEF CheckToken
<1>8. CASE Serve(w)
    BY <1>8, RespondMoves DEF Serve
<1> QED
    BY <1>1, <1>2, <1>3, <1>4, <1>5, <1>6, <1>7, <1>8 DEF SessionStep

(* What one worker's step keeps of all the sessions.                       *)
LEMMA MovedKeepsSessions ==
    ASSUME SessionsInv, NEW w \in Workers, WorkerMoved(w), MapMoved, exit = "no"
    PROVE  SessionsInv'
<1>1. SessionsTypeOK'
    BY DEF SessionsInv, SessionsTypeOK, WorkerMoved, OthersKept, MapMoved, Steps, WithCookie,
           Inside, Reading, Writing
<1>2. ASSUME NEW v \in Workers PROVE KindOK(v)'
    BY <1>2 DEF SessionsInv, KindsOK, KindOK, WorkerMoved, OthersKept
<1> QED
    BY <1>1, <1>2 DEF SessionsInv, KindsOK, WorkerMoved

-----------------------------------------------------------------------------
(* Steps that are not of a worker leave the sessions as they are.          *)
LEMMA ExpireKeepsSessions ==
    ASSUME SessionsInv, Expire
    PROVE  SessionsInv'
BY DEF SessionsInv, SessionsTypeOK, KindsOK, KindOK, Expire

LEMMA IdleKeepsSessions ==
    ASSUME SessionsInv, UNCHANGED sessionVars, exit' \in {"no", "clean", "fatal"}
    PROVE  SessionsInv'
BY DEF SessionsInv, SessionsTypeOK, KindsOK, KindOK, sessionVars

LEMMA InitSessions == SessionsInit /\ exit = "no" => SessionsInv
BY DEF SessionsInit, SessionsInv, SessionsTypeOK, KindsOK, KindOK, Reading, Writing, WithCookie, Inside

LEMMA VisitsKeepSessions ==
    ASSUME SessionsInv, Up, Visits
    PROVE  SessionsInv'
<1>1. CASE \E w \in Workers : Accept(w) \/ SessionStep(w)
    <2>1. PICK w \in Workers : Accept(w) \/ SessionStep(w)
        BY <1>1
    <2>2. CASE Accept(w)
        <3>1. Arrive(w)
            BY <2>2 DEF Accept
        <3>2. MapMoved
            BY <3>1 DEF Arrive, MapMoved, SessionsInv, SessionsTypeOK
        <3> QED
            BY <3>1, <3>2, ArriveMoves, MovedKeepsSessions DEF Up
    <2>3. CASE SessionStep(w)
        BY <2>3, StepMoves, StepMovesMap, MovedKeepsSessions DEF Up
    <2> QED
        BY <2>1, <2>2, <2>3
<1> QED
    BY <1>1, ExpireKeepsSessions DEF Visits

-----------------------------------------------------------------------------
(* Everything but requests.                                                *)
LifeStep ==
    \/ Starting \/ Signal \/ Stopping \/ RESTReturns \/ Late
    \/ Reloading \/ RenewCert \/ RenewKey

LifeTypeOK ==
    /\ main \in {"waiting", "restShutdown", "restClosing", "draining", "dnsShutdown", "returned"}
    /\ signalled \in BOOLEAN /\ late \in BOOLEAN /\ closing \in BOOLEAN
    /\ rest \in {"spawned", "made", "started", "listening", "closed"}
    /\ dns \in [Networks -> {"none", "made", "listening", "closed"}]

CertTypeOK ==
    /\ {certFile, keyFile, cert} \subseteq 1 .. MaxRenewals + 1
    /\ reloader \in {"off", "on", "stopped"}
    /\ read \in 0 .. MaxRenewals + 1

LEMMA LifeKeepsTypes ==
    ASSUME LifeTypeOK, CertTypeOK, LifeStep
    PROVE  LifeTypeOK' /\ CertTypeOK'
<1> USE DEF LifeTypeOK, CertTypeOK
<1>1. CASE MakeREST \/ LoadCert
    BY <1>1 DEF MakeREST, LoadCert, certVars
<1>2. CASE ListenREST
    BY <1>2 DEF ListenREST, certVars
<1>3. CASE MakeDNS
    BY <1>3 DEF MakeDNS, certVars
<1>4. CASE \E n \in Networks : ListenDNS(n)
    BY <1>4 DEF ListenDNS, certVars
<1>5. CASE Signal
    BY <1>5 DEF Signal, certVars
<1>6. CASE StopReloader \/ ShutdownREST
    BY <1>6 DEF StopReloader, ShutdownREST, certVars
<1>7. CASE RESTReturns \/ Late
    BY <1>7 DEF RESTReturns, Late, certVars
<1>8. CASE Drained \/ ShutdownDNS \/ Return
    BY <1>8 DEF Drained, ShutdownDNS, Return, certVars, lifeVars
<1>9. CASE RenewCert \/ RenewKey
    BY <1>9, ProcessAssumption DEF RenewCert, RenewKey, lifeVars
<1>10. CASE ReloadCert
    BY <1>10 DEF ReloadCert, lifeVars
<1>11. CASE ReloadKey
    <2>1. MaxRenewals \in Nat
        BY ProcessAssumption
    <2>2. read' = 0 /\ cert' \in {read, cert} /\ (cert' = read => read # 0)
        BY <1>11 DEF ReloadKey, NotRead
    <2>3. cert' \in 1 .. MaxRenewals + 1 /\ read' \in 0 .. MaxRenewals + 1
        BY <2>1, <2>2
    <2> QED
        BY <1>11, <2>3 DEF ReloadKey, lifeVars
<1> QED
    BY <1>1, <1>2, <1>3, <1>4, <1>5, <1>6, <1>7, <1>8, <1>9, <1>10, <1>11
    DEF LifeStep, Starting, Stopping, Reloading

LEMMA LifeKeepsVisits ==
    ASSUME LifeStep, Up
    PROVE  UNCHANGED sessionVars /\ exit' \in {"no", "clean", "fatal"}
<1> USE DEF sessionVars, Up
<1>1. CASE Starting
    BY <1>1 DEF Starting, MakeREST, LoadCert, ListenREST, MakeDNS, ListenDNS, Fatal
<1>2. CASE Signal \/ Stopping \/ RESTReturns \/ Late
    BY <1>2 DEF Signal, Stopping, StopReloader, ShutdownREST, Drained, ShutdownDNS, Return,
                RESTReturns, Late, Fatal
<1>3. CASE Reloading \/ RenewCert \/ RenewKey
    BY <1>3 DEF Reloading, ReloadCert, ReloadKey, RenewCert, RenewKey
<1> QED
    BY <1>1, <1>2, <1>3 DEF LifeStep

-----------------------------------------------------------------------------
(* DrainInv.  Once Shutdown is called no request comes, so the workers     *)
(* that are busy only get fewer.                                           *)
LEMMA VisitsKeepDrain ==
    ASSUME SessionsInv, DrainInv, Up, Visits
    PROVE  DrainInv'
<1>1. UNCHANGED <<main, closing, late>> /\ exit' \in {"no", "fatal"}
    BY StepMovesMap DEF Visits, Accept, Arrive, Expire, Up, MapMoved, lifeVars
<1>2. closing => Busy' \subseteq Busy
    <2>1. CASE \E w \in Workers : SessionStep(w)
        <3>1. PICK w \in Workers : SessionStep(w)
            BY <2>1
        <3>2. step[w] # "idle"
            BY <3>1 DEF SessionStep, Login, Create, Auth, Authorize, BeginDelete, Delete, CheckToken, Serve
        <3>3. OthersKept(w)
            BY <3>1, StepMoves DEF WorkerMoved
        <3> QED
            BY <3>2, <3>3 DEF Busy, OthersKept
    <2>2. CASE Expire
        BY <2>2 DEF Expire, Busy
    <2> QED
        BY <2>1, <2>2 DEF Visits, Accept
<1> QED
    BY <1>1, <1>2 DEF DrainInv

LEMMA LifeKeepsDrain ==
    ASSUME DrainInv, LifeStep, Up
    PROVE  DrainInv'
<1> USE DEF DrainInv, Up, sessionVars, certVars, lifeVars
<1>0. UNCHANGED sessionVars /\ UNCHANGED Busy
    BY LifeKeepsVisits DEF Busy
<1>1. CASE Starting
    BY <1>0, <1>1 DEF Starting, MakeREST, LoadCert, ListenREST, MakeDNS, ListenDNS, Fatal
<1>2. CASE Signal
    BY <1>0, <1>2 DEF Signal
<1>3. CASE StopReloader \/ ShutdownREST
    BY <1>0, <1>3 DEF StopReloader, ShutdownREST
<1>4. CASE Drained
    BY <1>0, <1>4 DEF Drained
<1>5. CASE ShutdownDNS \/ Return
    BY <1>0, <1>5 DEF ShutdownDNS, Return
<1>6. CASE RESTReturns \/ Late
    BY <1>0, <1>6 DEF RESTReturns, Late, Fatal
<1>7. CASE Reloading \/ RenewCert \/ RenewKey
    BY <1>0, <1>7 DEF Reloading, ReloadCert, ReloadKey, RenewCert, RenewKey
<1> QED
    BY <1>1, <1>2, <1>3, <1>4, <1>5, <1>6, <1>7 DEF LifeStep, Stopping

-----------------------------------------------------------------------------
LEMMA TypeParts == ProcessTypeOK <=> SessionsTypeOK /\ LifeTypeOK /\ CertTypeOK
BY DEF ProcessTypeOK, LifeTypeOK, CertTypeOK

LEMMA ProcessInvInit == ProcessInit => ProcessInv
<1> SUFFICES ASSUME ProcessInit PROVE ProcessInv
    OBVIOUS
<1>1. SessionsInv
    BY InitSessions DEF ProcessInit
<1>2. LifeTypeOK /\ CertTypeOK
    <2>1. 1 \in 1 .. MaxRenewals + 1 /\ 0 \in 0 .. MaxRenewals + 1
        BY ProcessAssumption
    <2>2. LifeTypeOK
        BY DEF ProcessInit, LifeTypeOK
    <2> QED
        BY <2>1, <2>2 DEF ProcessInit, CertTypeOK, NotRead
<1>3. DrainInv
    BY DEF ProcessInit, DrainInv
<1> QED
    BY <1>1, <1>2, <1>3, TypeParts DEF ProcessInv, SessionsInv

LEMMA ProcessInvStep == ProcessInv /\ [ProcessNext]_processVars => ProcessInv'
<1> SUFFICES ASSUME ProcessInv, [ProcessNext]_processVars PROVE ProcessInv'
    OBVIOUS
<1>0. SessionsInv /\ LifeTypeOK /\ CertTypeOK /\ DrainInv /\ exit \in {"no", "clean", "fatal"}
    BY TypeParts DEF ProcessInv, SessionsTypeOK
<1>1. CASE Up /\ LifeStep
    <2>1. SessionsInv'
        BY <1>0, <1>1, LifeKeepsVisits, IdleKeepsSessions
    <2>2. LifeTypeOK' /\ CertTypeOK' /\ DrainInv'
        BY <1>0, <1>1, LifeKeepsTypes, LifeKeepsDrain
    <2> QED
        BY <2>1, <2>2, TypeParts DEF ProcessInv, SessionsInv, ProcessTypeOK, LifeTypeOK, CertTypeOK
<1>2. CASE Up /\ Visits
    <2>1. SessionsInv' /\ DrainInv'
        BY <1>0, <1>2, VisitsKeepSessions, VisitsKeepDrain
    <2>2. LifeTypeOK' /\ CertTypeOK'
        BY <1>0, <1>2 DEF Visits, lifeVars, certVars, LifeTypeOK, CertTypeOK
    <2> QED
        BY <2>1, <2>2 DEF ProcessInv, SessionsInv, ProcessTypeOK, LifeTypeOK, CertTypeOK
<1>3. CASE UNCHANGED processVars
    <2>1. SessionsInv'
        BY <1>0, <1>3, IdleKeepsSessions DEF processVars
    <2> QED
        BY <1>0, <1>3, <2>1
        DEF processVars, sessionVars, lifeVars, certVars, ProcessInv, SessionsInv, ProcessTypeOK,
            LifeTypeOK, CertTypeOK, DrainInv, Busy
<1> QED
    BY <1>1, <1>2, <1>3 DEF ProcessNext, LifeStep

(* The process, its listeners, certificate and sessions have their types.  *)
THEOREM ProcessTyped == ProcessSpec => []ProcessTypeOK
<1>1. ProcessInv => ProcessTypeOK
    BY DEF ProcessInv
<1> QED
    BY <1>1, ProcessInvInit, ProcessInvStep, PTL DEF ProcessSpec

(* When main ends the process after it told the REST server to shut down,  *)
(* the requests have been answered or have had their five seconds.         *)
THEOREM CleanExitDrains == ProcessSpec => []CleanExitDrained
<1>1. ProcessInv => CleanExitDrained
    BY DEF ProcessInv, DrainInv, CleanExitDrained
<1> QED
    BY <1>1, ProcessInvInit, ProcessInvStep, PTL DEF ProcessSpec

-----------------------------------------------------------------------------
(* EndedStaysEnded.  What one request has found out of its session.        *)
Informed(w) ==
    /\ over[w] \subseteq loggedOut \cup old
    /\ step[w] = "reading" /\ found[w]
          => visit[w].cookie \in generated /\ (visit[w].cookie \in over[w] => visit[w].cookie \in old)
    /\ step[w] \in Inside => visit[w].cookie \in generated \ over[w]

HistoryInv ==
    /\ loggedOut \subseteq generated \ sessions
    /\ DOMAIN over = Workers
    /\ \A w \in Workers : Informed(w)

HistoryNext ==
    /\ loggedOut' = loggedOut \cup LoggedOutNow
    /\ over' = [w \in Workers |-> CASE step'[w] = "idle" -> {}
                                    [] step[w] = "idle" /\ step'[w] # "idle" -> loggedOut \cup old
                                    [] OTHER -> over[w]]

LEMMA OverNow ==
    ASSUME HistoryNext, NEW w \in Workers
    PROVE  /\ step'[w] = "idle" => over'[w] = {}
           /\ step[w] = "idle" /\ step'[w] # "idle" => over'[w] = loggedOut \cup old
           /\ step[w] # "idle" /\ step'[w] # "idle" => over'[w] = over[w]
BY DEF HistoryNext

(* A worker that does not move knows what it knew.                         *)
LEMMA KeepsInformed ==
    ASSUME HistoryNext, NEW w \in Workers, Informed(w), UNCHANGED <<step[w], visit[w]>>,
           found'[w] => found[w], old \subseteq old', generated \subseteq generated'
    PROVE  Informed(w)'
<1>1. over'[w] \in {{}, over[w]} /\ (step'[w] # "idle" => over'[w] = over[w])
    BY OverNow
<1>2. loggedOut \subseteq loggedOut'
    BY DEF HistoryNext
<1> QED
    BY <1>1, <1>2 DEF Informed, Inside

(* One that has responded has nothing to know.                             *)
LEMMA IdleInformed ==
    ASSUME HistoryNext, NEW w \in Workers, step'[w] = "idle"
    PROVE  Informed(w)'
BY OverNow DEF Informed, Inside

(* The map loses and gains sessions one by one.                            *)
Grown == old \subseteq old' /\ generated \subseteq generated'

LEMMA ArriveKeepsHistory ==
    ASSUME SessionsInv, HistoryInv, HistoryNext, NEW w \in Workers, Arrive(w)
    PROVE  HistoryInv'
<1>1. WorkerMoved(w) /\ UNCHANGED <<sessions, old, generated, found>> /\ step[w] = "idle"
    BY ArriveMoves DEF Arrive
<1>2. step'[w] \in {"login", "auth"}
    <2>1. PICK v \in Visit : step' = [step EXCEPT ![w] = FirstStep(v)]
        BY DEF Arrive, Proceed
    <2> QED
        BY <2>1 DEF SessionsInv, SessionsTypeOK, FirstStep
<1>3. LoggedOutNow = {}
    BY <1>1 DEF LoggedOutNow, WorkerMoved, OthersKept
<1>4. Informed(w)'
    BY <1>1, <1>2, <1>3, OverNow DEF Informed, Inside, HistoryNext
<1>5. ASSUME NEW v \in Workers \ {w} PROVE Informed(v)'
    BY <1>1, KeepsInformed DEF HistoryInv, WorkerMoved, OthersKept
<1> QED
    BY <1>1, <1>3, <1>4, <1>5 DEF HistoryInv, HistoryNext

(* How a step that does not respond goes on.                               *)
LEMMA Continues ==
    ASSUME SessionsInv, NEW w \in Workers, SessionStep(w), step'[w] # "idle"
    PROVE  /\ UNCHANGED <<old, visit>>
           /\ step[w] # "idle"
           /\ \/ step'[w] \notin {"reading"} \cup Inside
              \/ step'[w] = "reading" /\ (found'[w] => visit[w].cookie \in sessions)
              \/ step[w] = "reading" /\ Authorized(w)
              \/ step[w] \in Inside
<1> USE DEF SessionsInv, SessionsTypeOK
<1>0. step \in [Workers -> Steps] /\ found \in [Workers -> BOOLEAN]
    BY DEF Steps, WithCookie, Inside, Reading, Writing
<1>1. CASE Login(w)
    BY <1>0, <1>1 DEF Login, BeginAccess, Proceed, Respond, Inside
<1>2. CASE Create(w) \/ Delete(w) \/ Serve(w)
    BY <1>0, <1>2 DEF Create, Delete, Serve, EndWrite, Respond
<1>3. CASE Auth(w)
    <2>1. CASE Respond(w)
        BY <1>0, <2>1 DEF Respond
    <2>2. CASE BeginAccess(w, "reading") /\ UNCHANGED visit
                /\ found' = [found EXCEPT ![w] = visit[w].cookie \in sessions]
        <3>1. found'[w] => visit[w].cookie \in sessions
            BY <1>0, <2>2
        <3>2. step'[w] \in {"auth", "reading"}
            BY <1>0, <1>3, <2>2 DEF Auth, BeginAccess, Proceed
        <3> QED
            BY <1>3, <2>2, <3>1, <3>2 DEF Auth, Inside
    <2> QED
        BY <1>3, <2>1, <2>2, Zenon DEF Auth
<1>4. CASE Authorize(w)
    BY <1>0, <1>4 DEF Authorize, Proceed, Inside
<1>5. CASE BeginDelete(w)
    BY <1>0, <1>5 DEF BeginDelete, BeginAccess, Proceed, Respond, Inside
<1>6. CASE CheckToken(w)
    BY <1>0, <1>6 DEF CheckToken, Proceed, Respond, Inside
<1> QED
    BY <1>1, <1>2, <1>3, <1>4, <1>5, <1>6 DEF SessionStep

LEMMA StepKeepsInformed ==
    ASSUME SessionsInv, HistoryInv, HistoryNext, NEW w \in Workers, SessionStep(w)
    PROVE  Informed(w)'
<1>1. CASE step'[w] = "idle"
    BY <1>1, IdleInformed
<1>2. CASE step'[w] # "idle"
    <2>1. over'[w] = over[w] /\ over[w] \subseteq loggedOut \cup old /\ loggedOut \subseteq loggedOut'
        BY <1>2, Continues, OverNow DEF HistoryInv, Informed, HistoryNext
    <2>2. UNCHANGED <<old, visit>> /\ generated \subseteq generated'
        BY <1>2, Continues DEF SessionStep, Login, Create, Auth, Authorize, BeginDelete, Delete,
                               CheckToken, Serve
    <2>3. sessions \subseteq generated /\ loggedOut \cap sessions = {} /\ Informed(w)
        BY DEF SessionsInv, SessionsTypeOK, HistoryInv
    <2>4. CASE step'[w] \notin {"reading"} \cup Inside
        BY <2>1, <2>2, <2>4 DEF Informed
    <2>5. CASE step'[w] = "reading" /\ (found'[w] => visit[w].cookie \in sessions)
        BY <2>1, <2>2, <2>3, <2>5 DEF Informed, Inside
    <2>6. CASE step[w] = "reading" /\ Authorized(w)
        <3>1. visit[w].cookie \in generated \ over[w]
            BY <2>3, <2>6 DEF Informed, Authorized
        <3> QED
            BY <2>1, <2>2, <3>1 DEF Informed
    <2>7. CASE step[w] \in Inside
        <3>1. visit[w].cookie \in generated \ over[w]
            BY <2>3, <2>7 DEF Informed
        <3> QED
            BY <2>1, <2>2, <3>1 DEF Informed
    <2> QED
        BY <1>2, Continues, <2>4, <2>5, <2>6, <2>7
<1> QED
    BY <1>1, <1>2

LEMMA StepKeepsLoggedOut ==
    ASSUME SessionsInv, HistoryInv, HistoryNext, NEW w \in Workers, SessionStep(w)
    PROVE  loggedOut' \subseteq generated' \ sessions' /\ Grown
<1> USE DEF SessionsInv, SessionsTypeOK
<1>1. LoggedOutNow \subseteq {visit[w].cookie} /\ (LoggedOutNow # {} => step[w] = "ending" /\ step'[w] = "idle")
    BY StepMoves DEF LoggedOutNow, WorkerMoved, OthersKept
<1>2. CASE Delete(w)
    <2>1. step[w] = "ending" => visit[w].cookie \in generated
        BY DEF HistoryInv, Informed, Inside
    <2>2. sessions' = sessions \ {visit[w].cookie} /\ UNCHANGED <<generated, old>>
        BY <1>2 DEF Delete
    <2> QED
        BY <1>1, <2>1, <2>2 DEF HistoryInv, HistoryNext, Grown
<1>3. CASE Create(w)
    <2>1. step[w] = "creating"
        BY <1>3 DEF Create
    <2> QED
        BY <1>1, <1>3, <2>1 DEF Create, HistoryInv, HistoryNext, Grown
<1>4. CASE ~Delete(w) /\ ~Create(w)
    <2>1. UNCHANGED <<sessions, generated, old>> /\ step[w] # "ending"
        BY <1>4 DEF SessionStep, Login, Auth, Authorize, BeginDelete, CheckToken, Serve
    <2> QED
        BY <1>1, <2>1 DEF HistoryInv, HistoryNext, Grown
<1> QED
    BY <1>2, <1>3, <1>4

LEMMA StepKeepsHistory ==
    ASSUME SessionsInv, HistoryInv, HistoryNext, NEW w \in Workers, SessionStep(w)
    PROVE  HistoryInv'
<1>1. ASSUME NEW v \in Workers \ {w} PROVE Informed(v)'
    <2>1. UNCHANGED <<step[v], visit[v]>> /\ (found'[v] => found[v])
        BY StepMoves DEF WorkerMoved, OthersKept
    <2> QED
        BY <2>1, StepKeepsLoggedOut, KeepsInformed DEF Grown, HistoryInv
<1> QED
    BY <1>1, StepKeepsInformed, StepKeepsLoggedOut DEF HistoryInv, HistoryNext

(* Other steps, and the passing of a day.                                  *)
LEMMA QuietKeepsHistory ==
    ASSUME SessionsInv, HistoryInv, HistoryNext,
           UNCHANGED <<sessions, step, visit, found, generated>>, old \subseteq old'
    PROVE  HistoryInv'
<1>1. LoggedOutNow = {}
    BY DEF LoggedOutNow
<1>2. ASSUME NEW v \in Workers PROVE Informed(v)'
    BY KeepsInformed DEF HistoryInv
<1> QED
    BY <1>1, <1>2 DEF HistoryInv, HistoryNext

LEMMA HistoryInvStep == ProcessInv /\ HistoryInv /\ [HNext]_historyVars => HistoryInv'
<1> SUFFICES ASSUME ProcessInv, HistoryInv, [HNext]_historyVars PROVE HistoryInv'
    OBVIOUS
<1>1. CASE HNext
    <2>1. HistoryNext /\ ProcessNext /\ SessionsInv
        BY <1>1 DEF HNext, HistoryNext, ProcessInv
    <2>2. CASE LifeStep
        BY <2>1, <2>2, LifeKeepsVisits, QuietKeepsHistory DEF ProcessNext, sessionVars
    <2>3. CASE Expire
        BY <2>1, <2>3, QuietKeepsHistory DEF Expire
    <2>4. CASE \E w \in Workers : Accept(w)
        BY <2>1, <2>4, ArriveKeepsHistory DEF Accept
    <2>5. CASE \E w \in Workers : SessionStep(w)
        BY <2>1, <2>5, StepKeepsHistory
    <2> QED
        BY <2>1, <2>2, <2>3, <2>4, <2>5 DEF ProcessNext, Visits, LifeStep
<1>2. CASE UNCHANGED historyVars
    BY <1>2 DEF historyVars, processVars, sessionVars, HistoryInv, Informed
<1> QED
    BY <1>1, <1>2

(* A request that comes after its session was logged out, or a day after   *)
(* the login, is not served by the handlers of the web admin, whatever     *)
(* other requests do to the map of sessions meanwhile.                     *)
THEOREM EndedSessionsStayEnded == HSpec => []EndedStaysEnded
<1>1. HInit => ProcessInv /\ HistoryInv
    BY ProcessInvInit
    DEF HInit, ProcessInit, SessionsInit, HistoryInv, Informed, Inside
<1>2. ProcessInv /\ HistoryInv /\ [HNext]_historyVars => ProcessInv' /\ HistoryInv'
    <2>1. [HNext]_historyVars => [ProcessNext]_processVars
        BY DEF HNext, historyVars
    <2> QED
        BY <2>1, ProcessInvStep, HistoryInvStep
<1>3. HistoryInv => EndedStaysEnded
    BY DEF HistoryInv, Informed, Inside, EndedStaysEnded
<1> QED
    BY <1>1, <1>2, <1>3, PTL DEF HSpec

=============================================================================
