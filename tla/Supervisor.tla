----------------------------- MODULE Supervisor -----------------------------
(***************************************************************************)
(* The processes of the session (policy.rs): applications started by       *)
(* commands and bindings, the two shell services that the one-second timer *)
(* keeps alive, and what the end of the compositor does to them.           *)
(***************************************************************************)
EXTENDS Naturals

CONSTANTS
    Services,           \* desktop.services: the bar and the wallpaper
    MaxApps,            \* bound: applications started
    MaxServiceStarts    \* starts of one service (3 in the code)

ASSUME SupervisorAssumption ==
    MaxApps \in Nat /\ MaxServiceStarts \in Nat \ {0} /\ "app" \notin Services

VARIABLES
    sessionRuns,        \* the compositor process, until Desktop is dropped
    children,           \* desktop.children: the applications held
    apps,               \* history: applications started
    service,            \* per service: which of its starts the held Child is of
    attempts,           \* per service: starts so far
    process             \* every process: unused, alive, a zombie, or reaped

supervisorVars == <<sessionRuns, children, apps, service, attempts, process>>

-----------------------------------------------------------------------------
(* A process is an application or a start of a service.                    *)

App == {<<"app", n>> : n \in 1 .. MaxApps}
ServiceStart == Services \X (1 .. MaxServiceStarts)
Process == App \cup ServiceStart
Alive(p) == process[p] = "alive"

SupervisorTypeOK ==
    /\ sessionRuns \in BOOLEAN
    /\ children \subseteq App
    /\ apps \in 0 .. MaxApps
    /\ service \in [Services -> 0 .. MaxServiceStarts]
    /\ attempts \in [Services -> 0 .. MaxServiceStarts]
    /\ process \in [Process -> {"unused", "alive", "zombie", "reaped"}]

\* install_desktop registers the services; the first tick starts them.
SupervisorInit ==
    /\ sessionRuns = TRUE
    /\ children = {}
    /\ apps = 0
    /\ service = [s \in Services |-> 0]
    /\ attempts = [s \in Services |-> 0]
    /\ process = [p \in Process |-> "unused"]

-----------------------------------------------------------------------------
(* Operators named Mut... are slips of the definition below them that the  *)
(* properties must catch; no specification uses them.                      *)

\* spawn_app: a child that starts is kept.
SpawnApp ==
    /\ sessionRuns /\ apps < MaxApps
    /\ apps' = apps + 1
    /\ process' = [process EXCEPT ![<<"app", apps + 1>>] = "alive"]
    /\ children' = children \cup {<<"app", apps + 1>>}
    /\ UNCHANGED <<sessionRuns, service, attempts>>

Held == children \cup {<<s, service[s]>> : s \in {t \in Services : service[t] # 0}}

\* Is there no Child, or does try_wait report its end?
Dead(s) == service[s] = 0 \/ ~Alive(<<s, service[s]>>)
MutMayStart(s) == Dead(s) /\ attempts[s] + 1 < MaxServiceStarts
MayStart(s) == Dead(s) /\ attempts[s] < MaxServiceStarts

\* supervise.  What has ended is reaped; each service that does not run is
\* started, at most three times.  A start that fails counts as well and
\* leaves the old Child in place.
Supervise ==
    LET due == {s \in Services : MayStart(s)} IN
    /\ sessionRuns
    /\ children' = {p \in children : Alive(p)}
    /\ attempts' = [s \in Services |-> IF s \in due THEN attempts[s] + 1 ELSE attempts[s]]
    /\ \E started \in SUBSET due :
        /\ service' = [s \in Services |-> IF s \in started THEN attempts'[s] ELSE service[s]]
        /\ process' = [p \in Process |->
                IF \E s \in started : p = <<s, attempts'[s]>> THEN "alive"
                ELSE IF p \in Held /\ process[p] = "zombie" THEN "reaped"
                ELSE process[p]]
    /\ UNCHANGED <<sessionRuns, apps>>

\* A process ends by itself, or is killed by the user.
ProcessEnds(p) ==
    /\ sessionRuns /\ Alive(p)
    /\ process' = [process EXCEPT ![p] = "zombie"]
    /\ UNCHANGED <<sessionRuns, children, apps, service, attempts>>

\* Drop for Desktop: every child held is killed and waited for.
MutKilled == children
Killed == Held
EndSession ==
    /\ sessionRuns
    /\ sessionRuns' = FALSE
    /\ process' = [p \in Process |-> IF p \in Killed THEN "reaped" ELSE process[p]]
    /\ UNCHANGED <<children, apps, service, attempts>>

SupervisorNext ==
    \/ SpawnApp
    \/ Supervise
    \/ \E p \in Process : ProcessEnds(p)
    \/ EndSession

SupervisorSpec == SupervisorInit /\ [][SupervisorNext]_supervisorVars

-----------------------------------------------------------------------------
(* Properties.                                                             *)

\* Applications belong to the session: none of them, and no service, survives
\* it or stays a zombie, and two processes of one service never run side by
\* side (Drop for Desktop, supervise).
NothingOutlives ==
    /\ ~sessionRuns => \A p \in Process : process[p] \in {"unused", "reaped"}
    /\ \A s \in Services : \A m, n \in 1 .. MaxServiceStarts :
            Alive(<<s, m>>) /\ Alive(<<s, n>>) => m = n
    /\ \A p \in Process : process[p] \in {"alive", "zombie"} => p \in Held

SupervisorInv == SupervisorTypeOK /\ NothingOutlives

\* A service that ends runs again, or was given up after its three starts, or
\* the session ends.
ServiceComesBack ==
    \A s \in Services :
        (attempts[s] > 0 /\ Dead(s)) ~> (~Dead(s) \/ attempts[s] = MaxServiceStarts \/ ~sessionRuns)
=============================================================================
