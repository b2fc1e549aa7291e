----------------------------- MODULE ServicesMC -----------------------------
(***************************************************************************)
(* Two parts of the server checked beside each other.  EventBus: two       *)
(* publishers, two publications, two handlers.  Server: one client and two *)
(* countdowns without announcements before the last.                       *)
(***************************************************************************)
EXTENDS EventBus, Server

CONSTANTS p1, p2, e1, e2

TwoPublishers == {p1, p2}
TwoEvents == {e1, e2}

VARIABLE part
ServicesInit == part \in {"bus", "server"} /\ BusInit /\ ServerInit
ServicesNext ==
    \/ part = "bus" /\ BusNext /\ UNCHANGED <<part, serverVars>>
    \/ part = "server" /\ ServerNext /\ UNCHANGED <<part, busVars>>

\* Goroutines that can run do run; nobody has to subscribe, publish or stop.
\* The worker is left out: a handler may hang it for ever.
BusFairness ==
    /\ WF_busVars(part = "bus" /\ StopReturn)
    /\ \A p \in Publishers : WF_busVars(part = "bus" /\ Publisher(p))

\* main, its shutdown and a countdown go on, and the writes to clients that read
\* complete.  No client has to read.
ServerFairness ==
    /\ WF_serverVars(part = "server" /\ (Boot \/ Shutdown))
    /\ SF_serverVars(part = "server" /\ WrittenGMCP)
    /\ \A k \in Countdowns : WF_serverVars(part = "server" /\ Count(k))
                           /\ SF_serverVars(part = "server" /\ Tell(k))

ServicesSpec ==
    /\ ServicesInit /\ [][ServicesNext]_<<part, busVars, serverVars>>
    /\ BusFairness /\ ServerFairness
=============================================================================
