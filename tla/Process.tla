------------------------------ MODULE Process ------------------------------
(***************************************************************************)
(* The life of the server process: what main starts and in which order a   *)
(* signal stops it (cmd/namedot/main.go), the listeners of the REST and    *)
(* DNS servers (Start and Shutdown of internal/server), the reloader of    *)
(* the TLS certificate (rest/tls.go), and the web admin's sessions.        *)
(*                                                                         *)
(* Each listener and the reloader is a goroutine of its own, and so is     *)
(* main.  log.Fatalf in any of them ends the process at once.              *)
(***************************************************************************)
EXTENDS Sessions

CONSTANTS
    TLSReload,     \* TLS is configured, with cfg.TLSReloadSec > 0
    MaxRenewals    \* bound: certificates the operator installs

ASSUME ProcessAssumption == TLSReload \in BOOLEAN /\ MaxRenewals \in Nat

VARIABLES
    main,        \* main's next step
    signalled,   \* SIGINT or SIGTERM has come
    late,        \* the five seconds of the shutdown context are over
    rest,        \* the REST listener
    closing,     \* httpServer.Shutdown has been called
    dns,         \* the listeners of the DNS server, by network
    certFile, keyFile,  \* versions of the two files
    cert,        \* version of the certificate in use
    reloader,    \* "off", "on", "stopped"
    read         \* the certificate a reload has read, its key not yet

lifeVars == <<main, signalled, late, rest, closing, dns>>
certVars == <<certFile, keyFile, cert, reloader, read>>
processVars == <<sessionVars, exit, lifeVars, certVars>>

NotRead == 0
Networks == {"udp", "tcp"}

Up == exit = "no"

ProcessTypeOK ==
    /\ SessionsTypeOK
    /\ main \in {"waiting", "restShutdown", "restClosing", "draining", "dnsShutdown", "returned"}
    /\ signalled \in BOOLEAN /\ late \in BOOLEAN /\ closing \in BOOLEAN
    /\ rest \in {"spawned", "made", "started", "listening", "closed"}
    /\ dns \in [Networks -> {"none", "made", "listening", "closed"}]
    /\ {certFile, keyFile, cert} \subseteq 1 .. MaxRenewals + 1
    /\ reloader \in {"off", "on", "stopped"}
    /\ read \in 0 .. MaxRenewals + 1

ProcessInit ==
    /\ SessionsInit
    /\ exit = "no"
    /\ main = "waiting" /\ signalled = FALSE /\ late = FALSE
    /\ rest = "spawned" /\ closing = FALSE
    /\ dns = [n \in Networks |-> "none"]
    /\ certFile = 1 /\ keyFile = 1 /\ cert = 1
    /\ reloader = "off" /\ read = NotRead

Fatal == exit' = "fatal"

-----------------------------------------------------------------------------
(***************************************************************************)
(* Start.                                                                  *)
(***************************************************************************)
\* restServer.Start: the http.Server, which Shutdown looks for.
MakeREST ==
    /\ rest = "spawned"
    /\ rest' = "made"
    /\ UNCHANGED <<sessionVars, certVars, main, signalled, late, closing, dns, exit>>

\* The certificate if there is one, and its reloader with tlsStopCh.
LoadCert ==
    /\ rest = "made"
    /\ IF TLSReload /\ certFile # keyFile
       THEN Fatal /\ UNCHANGED <<rest, certVars>>
       ELSE /\ rest' = "started"
            /\ cert' = certFile
            /\ reloader' = IF TLSReload THEN "on" ELSE "off"
            /\ UNCHANGED <<certFile, keyFile, read, exit>>
    /\ UNCHANGED <<sessionVars, main, signalled, late, closing, dns>>

\* Mutant: an address that cannot be had is only logged.
ListenRESTLogged ==
    /\ rest = "started"
    /\ ~closing
    /\ rest' \in {"listening", "closed"}
    /\ UNCHANGED <<sessionVars, certVars, main, signalled, late, closing, dns, exit>>

\* The address may be taken.
ListenREST ==
    /\ rest = "started"
    /\ ~closing
    /\ \/ rest' = "listening" /\ UNCHANGED exit
       \/ Fatal /\ UNCHANGED rest
    /\ UNCHANGED <<sessionVars, certVars, main, signalled, late, closing, dns>>

\* dnsServer.Start makes both servers, then their goroutines listen.
MakeDNS ==
    /\ \A n \in Networks : dns[n] = "none"
    /\ dns' = [n \in Networks |-> "made"]
    /\ UNCHANGED <<sessionVars, certVars, main, signalled, late, rest, closing, exit>>

ListenDNS(n) ==
    /\ dns[n] = "made"
    /\ \/ dns' = [dns EXCEPT ![n] = "listening"] /\ UNCHANGED exit
       \/ Fatal /\ UNCHANGED dns
    /\ UNCHANGED <<sessionVars, certVars, main, signalled, late, rest, closing>>

-----------------------------------------------------------------------------
(***************************************************************************)
(* Shutdown.                                                               *)
(***************************************************************************)
Busy == {w \in Workers : step[w] # "idle"}

\* main goes on from its channel; its five seconds begin.
Signal ==
    /\ main = "waiting"
    /\ signalled' = TRUE
    /\ main' = "restShutdown"
    /\ UNCHANGED <<sessionVars, certVars, late, rest, closing, dns, exit>>

\* restServer.Shutdown closes tlsStopCh if it finds one.  A reloader that starts
\* after this is never stopped.
StopReloader ==
    /\ main = "restShutdown"
    /\ main' = "restClosing"
    /\ reloader' = IF reloader = "on" THEN "stopped" ELSE reloader
    /\ UNCHANGED <<sessionVars, certFile, keyFile, cert, read, signalled, late, rest, closing, dns,
                   exit>>

\* Then it shuts the http.Server down, if Start has made one.
ShutdownREST ==
    /\ main = "restClosing"
    /\ IF rest = "spawned"
       THEN main' = "dnsShutdown" /\ UNCHANGED closing
       ELSE main' = "draining" /\ closing' = TRUE
    /\ UNCHANGED <<sessionVars, certVars, signalled, late, rest, dns, exit>>

\* ListenAndServe returns ErrServerClosed as soon as Shutdown is called, and
\* main's goroutine takes any error of Start for a failure to start.
RESTReturns ==
    /\ closing
    /\ rest \in {"started", "listening"}
    /\ rest' = "closed"
    /\ Fatal
    /\ UNCHANGED <<sessionVars, certVars, main, signalled, late, closing, dns>>

Late ==
    /\ signalled
    /\ ~late
    /\ late' = TRUE
    /\ UNCHANGED <<sessionVars, certVars, main, signalled, rest, closing, dns, exit>>

\* Mutant: requests are not waited for.
DrainedAtOnce ==
    /\ main = "draining"
    /\ main' = "dnsShutdown"
    /\ UNCHANGED <<sessionVars, certVars, signalled, late, rest, closing, dns, exit>>

\* Mutant: the shutdown has no deadline.
DrainedInTime ==
    /\ main = "draining"
    /\ Busy = {}
    /\ main' = "dnsShutdown"
    /\ UNCHANGED <<sessionVars, certVars, signalled, late, rest, closing, dns, exit>>

\* httpServer.Shutdown waits for the requests in progress, until the deadline.
Drained ==
    /\ main = "draining"
    /\ Busy = {} \/ late
    /\ main' = "dnsShutdown"
    /\ UNCHANGED <<sessionVars, certVars, signalled, late, rest, closing, dns, exit>>

\* dnsServer.Shutdown: a server that does not listen yet gives an error, which
\* is dropped.  Two seconds bound it.
ShutdownDNS ==
    /\ main = "dnsShutdown"
    /\ dns' = [n \in Networks |-> IF dns[n] = "listening" THEN "closed" ELSE dns[n]]
    /\ main' = "returned"
    /\ UNCHANGED <<sessionVars, certVars, signalled, late, rest, closing, exit>>

Return ==
    /\ main = "returned"
    /\ exit' = "clean"
    /\ UNCHANGED <<sessionVars, lifeVars, certVars>>

-----------------------------------------------------------------------------
(***************************************************************************)
(* The certificate.  The operator replaces the two files one after the     *)
(* other; a reload reads them one after the other, and tls.LoadX509KeyPair *)
(* refuses a key of another certificate.                                   *)
(***************************************************************************)
RenewCert ==
    /\ certFile = keyFile
    /\ certFile <= MaxRenewals
    /\ certFile' = certFile + 1
    /\ UNCHANGED <<sessionVars, lifeVars, keyFile, cert, reloader, read, exit>>

RenewKey ==
    /\ keyFile # certFile
    /\ keyFile' = certFile
    /\ UNCHANGED <<sessionVars, lifeVars, certFile, cert, reloader, read, exit>>

ReloadCert ==
    /\ reloader = "on"
    /\ read = NotRead
    /\ read' = certFile
    /\ UNCHANGED <<sessionVars, lifeVars, certFile, keyFile, cert, reloader, exit>>

\* Mutant: the reloader gives up at the first error.
ReloadKeyOnce ==
    /\ read # NotRead
    /\ IF read = keyFile THEN cert' = read /\ UNCHANGED reloader
                         ELSE reloader' = "stopped" /\ UNCHANGED cert
    /\ read' = NotRead
    /\ UNCHANGED <<sessionVars, lifeVars, certFile, keyFile, exit>>

\* An error is logged, and the certificate in use stays.
ReloadKey ==
    /\ read # NotRead
    /\ cert' = IF read = keyFile THEN read ELSE cert
    /\ read' = NotRead
    /\ UNCHANGED <<sessionVars, lifeVars, certFile, keyFile, reloader, exit>>

-----------------------------------------------------------------------------
\* A new request is accepted while the listener is open.
Accept(w) == rest = "listening" /\ ~closing /\ Arrive(w)

Visits ==
    /\ \/ \E w \in Workers : Accept(w) \/ SessionStep(w)
       \/ Expire
    /\ UNCHANGED <<lifeVars, certVars>>

Starting == MakeREST \/ LoadCert \/ ListenREST \/ MakeDNS \/ \E n \in Networks : ListenDNS(n)

Stopping == StopReloader \/ ShutdownREST \/ Drained \/ ShutdownDNS \/ Return

Reloading == ReloadCert \/ ReloadKey

ProcessNext ==
    /\ Up
    /\ \/ Starting \/ Signal \/ Stopping \/ RESTReturns \/ Late
       \/ Reloading \/ RenewCert \/ RenewKey
       \/ Visits

ProcessSpec == ProcessInit /\ [][ProcessNext]_processVars

(***************************************************************************)
(* Goroutines that can go on do, and the deadline comes.  Nothing is asked *)
(* of requests, which may hang, of signals, or of the operator.            *)
(***************************************************************************)
ProcessFairness ==
    /\ WF_processVars(Up /\ (MakeREST \/ LoadCert \/ ListenREST))
    /\ WF_processVars(Up /\ MakeDNS)
    /\ \A n \in Networks : WF_processVars(Up /\ ListenDNS(n))
    /\ WF_processVars(Up /\ Stopping)
    /\ WF_processVars(Up /\ Late)
    /\ WF_processVars(Up /\ Reloading)

FairProcessSpec == ProcessSpec /\ ProcessFairness

-----------------------------------------------------------------------------
(***************************************************************************)
(* Properties.                                                             *)
(***************************************************************************)
(* main.go:234, "Graceful shutdown": when the process ends with status 0   *)
(* after the REST server was told to shut down, its requests have been     *)
(* answered or have had their five seconds.  (Before that, the goroutine   *)
(* of the REST server may end the process with status 1.)                  *)
CleanExitDrained == exit = "clean" /\ closing => Busy = {} \/ late

(* A signal ends the process, though requests hang, and whatever has       *)
(* started by then.                                                        *)
SignalEnds == signalled ~> ~Up

(* A process serves on all its addresses or ends: it does not live on with *)
(* a listener that failed.                                                 *)
AllUp == rest = "listening" /\ \A n \in Networks : dns[n] = "listening"

NoHalfService == []<>(AllUp \/ signalled \/ ~Up)

(* A certificate that has been installed comes into use, though a reload   *)
(* may have read one file of the old and one of the new.                   *)
EventuallyRenewed ==
    TLSReload => <>[](~Up \/ signalled \/ certFile # keyFile \/ cert = certFile)
=============================================================================
