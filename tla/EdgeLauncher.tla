---------------------------- MODULE EdgeLauncher ----------------------------
(***************************************************************************)
(* Starting and finding again the assistant's own Edge                     *)
(* (src/src/edge_cdp/launcher.py): a browser with a profile of its own     *)
(* that answers on one of a few local ports.  ensure_running reuses the    *)
(* process it started, or a browser whose command line shows the profile,  *)
(* or starts one on the first free port and waits for it.                  *)
(*                                                                         *)
(* Programs take and leave ports between any two of its steps.             *)
(***************************************************************************)
EXTENDS Integers, FiniteSets

CONSTANTS
  Ports,           \* the candidate ports, preferred first
  KeepRunning,     \* keep_running_on_exit
  MaxEvents        \* bound: what happens outside

ASSUME LauncherAssumption ==
  /\ Ports \subseteq Nat /\ IsFiniteSet(Ports) /\ Ports # {}
  /\ KeepRunning \in BOOLEAN /\ MaxEvents \in Nat

VARIABLES
  ports,    \* external: who listens: nobody, another program, another browser with
            \* remote debugging, our browser, or ours that does not answer (yet)
  own,      \* _process: the port it was started with and whether it runs
  active,   \* _active_endpoint_url
  at,       \* where ensure_running is
  result,   \* what it returned
  stolen,   \* history: another browser came to the active port after it was chosen
  events    \* bound

launcherVars == <<ports, own, active, at, result, stolen, events>>

NoProcess == [port |-> 0, runs |-> FALSE]
NoResult  == [port |-> 0, verified |-> FALSE, occupant |-> "nobody"]
Preferred == CHOOSE p \in Ports : \A q \in Ports : p <= q

LauncherInit ==
  /\ ports \in [Ports -> {"nobody", "program", "browser", "ours"}]
  /\ own = NoProcess /\ active = Preferred /\ at = "idle" /\ result = NoResult
  /\ stolen = FALSE /\ events = 0

(* _probe_endpoint: somebody there speaks the protocol.                    *)
Answers(p) == ports[p] \in {"browser", "ours"}
(* _port_probe: somebody listens.                                          *)
Listens(p) == ports[p] # "nobody"

Lowest(S) == CHOOSE p \in S : \A q \in S : p <= q

(* Mutant: whatever answers is taken for the browser with our profile.     *)
ManagedIfItAnswers(p, seen) == Answers(p)

(* _ownership: a process on the port has our profile on its command line;  *)
(* nothing is seen when the system withholds command lines.                *)
Managed(p, seen) == seen /\ Answers(p) /\ ports[p] = "ours"

Return(p, verified) ==
  /\ result' = [port |-> p, verified |-> verified, occupant |-> ports[p]]
  /\ at' = "idle"

-----------------------------------------------------------------------------
EnsureRunning ==
  /\ at = "idle" /\ at' = "reuse" /\ result' = NoResult
  /\ UNCHANGED <<ports, own, active, stolen>>

(* _reuse_current_process.                                                 *)
Reuse ==
  /\ at = "reuse"
  /\ IF own.runs /\ Answers(active) THEN Return(active, TRUE)
     ELSE at' = "discover" /\ UNCHANGED result
  /\ UNCHANGED <<ports, own, active, stolen>>

(* _discover_existing_managed.                                             *)
Discover(seen) ==
  /\ at = "discover"
  /\ LET managed == {p \in Ports : Managed(p, seen)}
     IN IF managed # {}
        THEN Return(Lowest(managed), TRUE) /\ active' = Lowest(managed) /\ stolen' = FALSE
        ELSE at' = "select" /\ UNCHANGED <<result, active, stolen>>
  /\ UNCHANGED <<ports, own>>

PortUsable(p, seen) == Managed(p, seen) \/ ~Listens(p)

(* _select_launch_endpoint: the first port that is free, or ours after all.*)
Select(seen) ==
  /\ at = "select"
  /\ LET usable == {p \in Ports : PortUsable(p, seen)}
     IN IF usable = {} THEN at' = "idle" /\ UNCHANGED <<active, stolen>>
        ELSE at' = "recheck" /\ active' = Lowest(usable) /\ stolen' = FALSE
  /\ UNCHANGED <<ports, own, result>>

Recheck(seen) ==
  /\ at = "recheck"
  /\ at' = IF Managed(active, seen) THEN "reuse" ELSE "launch"
  /\ UNCHANGED <<ports, own, active, result, stolen>>

(* The process starts; it gets the port only if that is still free.  The   *)
(* handle of an earlier process is replaced.                               *)
Launch ==
  /\ at = "launch"
  /\ own' = [port |-> active, runs |-> TRUE]
  /\ ports' = IF Listens(active) THEN ports ELSE [ports EXCEPT ![active] = "silent"]
  /\ at' = "wait"
  /\ UNCHANGED <<active, result, stolen>>

(* No executable, or the process cannot be started.                        *)
LaunchFails ==
  /\ at = "launch" /\ at' = "idle"
  /\ UNCHANGED <<ports, own, active, result, stolen>>

(* The waiting loop ends with an answer, the exit of the process or the    *)
(* timeout; the first is enough, whether or not the profile can be seen.   *)
Wait(seen) ==
  /\ at = "wait"
  /\ \/ Answers(active) /\ Return(active, Managed(active, seen))
     \/ ~Answers(active) /\ at' = "idle" /\ UNCHANGED result
  /\ UNCHANGED <<ports, own, active, stolen>>

(* close() at the end of the program; the next one starts afresh.          *)
CloseLauncher ==
  /\ at = "idle"
  /\ own' = NoProcess /\ active' = Preferred /\ result' = NoResult /\ stolen' = FALSE
  /\ ports' = IF own.runs /\ ~KeepRunning /\ ports[own.port] \in {"silent", "ours"}
              THEN [ports EXCEPT ![own.port] = "nobody"] ELSE ports
  /\ UNCHANGED at

-----------------------------------------------------------------------------
(* External.                                                               *)

Takes(p, who) ==
  /\ ports[p] = "nobody" /\ ports' = [ports EXCEPT ![p] = who]
  /\ stolen' = (stolen \/ (p = active /\ who = "browser"))
  /\ UNCHANGED own
Leaves(p) ==
  /\ Listens(p) /\ ports' = [ports EXCEPT ![p] = "nobody"]
  /\ own' = IF own.port = p THEN NoProcess ELSE own
  /\ UNCHANGED stolen
Awakens(p) ==
  /\ ports[p] = "silent" /\ ports' = [ports EXCEPT ![p] = "ours"] /\ UNCHANGED <<own, stolen>>
(* Our browser hangs: it keeps its port and does not answer.               *)
Hangs(p) ==
  /\ ports[p] = "ours" /\ ports' = [ports EXCEPT ![p] = "silent"] /\ UNCHANGED <<own, stolen>>
(* The process exits and the browser it handed over to stays.              *)
Exits == own.runs /\ own' = NoProcess /\ UNCHANGED <<ports, stolen>>

Outside ==
  /\ events < MaxEvents /\ events' = events + 1
  /\ \/ \E p \in Ports : \/ Takes(p, "program") \/ Takes(p, "browser")
                         \/ Leaves(p) \/ Awakens(p) \/ Hangs(p)
     \/ Exits
  /\ UNCHANGED <<active, at, result>>

LauncherNext ==
  \/ /\ \/ EnsureRunning \/ Reuse \/ Launch \/ LaunchFails \/ CloseLauncher
        \/ \E seen \in BOOLEAN : Discover(seen) \/ Select(seen) \/ Recheck(seen) \/ Wait(seen)
     /\ UNCHANGED events
  \/ Outside

LauncherSpec == LauncherInit /\ [][LauncherNext]_launcherVars

-----------------------------------------------------------------------------
(* The browser that tools are connected to is the one with the assistant's *)
(* own profile, found or started, whatever else runs on the candidate      *)
(* ports and however often starting failed; only another browser that      *)
(* comes to the very port after it was chosen is mistaken for it           *)
(* (launcher.py ensure_running; its comment calls blind reuse the          *)
(* dangerous path).                                                        *)
HandsOutOurBrowser == result.port # 0 /\ ~stolen => result.occupant = "ours"

=============================================================================
