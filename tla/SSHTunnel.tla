------------------------------ MODULE SSHTunnel ------------------------------
(***************************************************************************)
(* connect/ssh_tunnel.py: the object that keeps one ssh port-forward to a  *)
(* TPU VM.  ssh runs as a process of its own that may die at any moment,   *)
(* or outlive the five seconds that stop() waits for it.                   *)
(***************************************************************************)
EXTENDS Integers

CONSTANTS
    Retries,   \* of ensure_connected
    MaxSpawns  \* bound: ssh processes ever started

ASSUME TunnelAssumption == Retries \in Nat /\ MaxSpawns \in Nat

NoProcess == 0

VARIABLES
    held,      \* _process
    alive,     \* ssh processes that run, and hold the local port
    spawned,
    tpc,       \* the call that is under way
    attempts   \* of ensure_connected's loop

tunnelVars == <<held, alive, spawned, tpc, attempts>>

IsAlive == held \in alive

(* start() does nothing while a process is held, be it dead. *)
Start ==
    IF held # NoProcess
    THEN UNCHANGED <<held, alive, spawned>>
    ELSE /\ spawned < MaxSpawns
         /\ spawned' = spawned + 1
         /\ held' = spawned'
         /\ alive' = alive \cup {spawned'}

CallStart ==
    /\ tpc = "idle"
    /\ Start
    /\ UNCHANGED <<tpc, attempts>>

(* stop() sends SIGTERM, then waits. *)
CallStop ==
    /\ tpc = "idle"
    /\ held # NoProcess
    /\ tpc' = "stopping"
    /\ UNCHANGED <<held, alive, spawned, attempts>>

WaitReturns ==
    /\ tpc = "stopping"
    /\ ~ IsAlive
    /\ held' = NoProcess
    /\ tpc' = "idle"
    /\ UNCHANGED <<alive, spawned, attempts>>

(* Mutant: stop() forgets the process it could not wait for. *)
WaitGivesUp ==
    /\ tpc = "stopping"
    /\ IsAlive
    /\ held' = NoProcess
    /\ tpc' = "idle"
    /\ UNCHANGED <<alive, spawned, attempts>>

(* wait(timeout=5) raises before _process is reset. *)
WaitTimesOut ==
    /\ tpc = "stopping"
    /\ IsAlive
    /\ tpc' = "idle"
    /\ UNCHANGED <<held, alive, spawned, attempts>>

CallEnsure ==
    /\ tpc = "idle"
    /\ tpc' = "ensure"
    /\ attempts' = 0
    /\ UNCHANGED <<held, alive, spawned>>

(* One turn of the loop that found no connection: start, or an OSError     *)
(* from Popen, and a sleep either way.                                     *)
EnsureTries ==
    /\ tpc = "ensure"
    /\ attempts < Retries
    /\ ~ IsAlive
    /\ \/ Start
       \/ held = NoProcess /\ UNCHANGED <<held, alive, spawned>>
    /\ attempts' = attempts + 1
    /\ UNCHANGED tpc

(* It returns what is_alive() says, in the loop when that is True. *)
EnsureReturns ==
    /\ tpc = "ensure"
    /\ IsAlive \/ attempts = Retries
    /\ tpc' = "idle"
    /\ UNCHANGED <<held, alive, spawned, attempts>>

(* By SIGTERM, by ServerAliveCountMax, by ExitOnForwardFailure... *)
Dies ==
    /\ \E p \in alive : alive' = alive \ {p}
    /\ UNCHANGED <<held, spawned, tpc, attempts>>

TunnelInit ==
    /\ held = NoProcess
    /\ alive = {}
    /\ spawned = 0
    /\ tpc = "idle"
    /\ attempts = 0

TunnelNext ==
    \/ CallStart \/ CallStop \/ WaitReturns \/ WaitTimesOut
    \/ CallEnsure \/ EnsureTries \/ EnsureReturns \/ Dies

TunnelSpec == TunnelInit /\ [][TunnelNext]_tunnelVars
-----------------------------------------------------------------------------
(* No ssh process is left behind holding the port: the one that runs is    *)
(* the one the object can stop, also after a stop() that timed out and the *)
(* start() or ensure_connected() that follows it (ssh_tunnel.py:37-59).    *)
OneTunnel == alive \subseteq {held}

(* The plan's auto-reconnect wrapper: a try of ensure_connected() that     *)
(* finds its ssh process dead starts another in its place.                 *)
EnsureReconnects ==
    [][EnsureTries /\ held # NoProcess => held' # held]_tunnelVars
=============================================================================
