------------------------------ MODULE Services ------------------------------
(***************************************************************************)
(* The services behind the tools, the turn that calls them and the         *)
(* microphone, put together.  They have no state in common: none of their  *)
(* modules in src/src imports another's, and the tools reach each through  *)
(* an object of its own.  An interleaving of two of them therefore shows   *)
(* what each shows alone, and a behaviour here exercises one, the others   *)
(* resting where they begin.                                               *)
(***************************************************************************)
EXTENDS EdgeWorkflow, EdgeLauncher, WindowsUia, Memory, LocalRag, GoogleCalendar, AgentTurn,
        Microphone

VARIABLE service   \* the one that is exercised

Services == {"edge", "launcher", "uia", "memory", "rag", "calendar", "turn", "microphone"}
servicesVars == <<service, edgeVars, launcherVars, uiaVars, memoryVars, ragVars, calendarVars,
                  agentVars, micVars>>

AtRest ==
  /\ service # "launcher"   => ports = [p \in Ports |-> "nobody"]
  /\ service # "uia"        => \A c \in Controls : desktop[c] = {"gone"}
  /\ service # "calendar"   => grants.file = "none"
  /\ service # "microphone" => configured = NoDevice /\ \A d \in Devices : rig[d] = "gone"

ServicesInit ==
  /\ service \in Services
  /\ EdgeInit /\ LauncherInit /\ UiaInit /\ MemoryInit /\ RagInit /\ CalendarInit /\ AgentInit
  /\ MicInit
  /\ AtRest

EdgeAlone ==
  /\ service = "edge" /\ EdgeNext
  /\ UNCHANGED <<service, launcherVars, uiaVars, memoryVars, ragVars, calendarVars,
                 agentVars, micVars>>
LauncherAlone ==
  /\ service = "launcher" /\ LauncherNext
  /\ UNCHANGED <<service, edgeVars, uiaVars, memoryVars, ragVars, calendarVars,
                 agentVars, micVars>>
UiaAlone ==
  /\ service = "uia" /\ UiaNext
  /\ UNCHANGED <<service, edgeVars, launcherVars, memoryVars, ragVars, calendarVars,
                 agentVars, micVars>>
MemoryAlone ==
  /\ service = "memory" /\ MemoryNext /\ MemoryBounded
  /\ UNCHANGED <<service, edgeVars, launcherVars, uiaVars, ragVars, calendarVars,
                 agentVars, micVars>>
RagAlone ==
  /\ service = "rag" /\ RagNext
  /\ UNCHANGED <<service, edgeVars, launcherVars, uiaVars, memoryVars, calendarVars, agentVars, micVars>>
CalendarAlone ==
  /\ service = "calendar" /\ CalendarNext
  /\ UNCHANGED <<service, edgeVars, launcherVars, uiaVars, memoryVars, ragVars, agentVars, micVars>>
TurnAlone ==
  /\ service = "turn" /\ AgentNext
  /\ UNCHANGED <<service, edgeVars, launcherVars, uiaVars, memoryVars, ragVars, calendarVars, micVars>>
MicrophoneAlone ==
  /\ service = "microphone" /\ MicNext
  /\ UNCHANGED <<service, edgeVars, launcherVars, uiaVars, memoryVars, ragVars, calendarVars, agentVars>>

ServicesNext ==
  \/ EdgeAlone \/ LauncherAlone \/ UiaAlone \/ MemoryAlone
  \/ RagAlone \/ CalendarAlone \/ TurnAlone \/ MicrophoneAlone

ServicesSpec == ServicesInit /\ [][ServicesNext]_servicesVars

=============================================================================
