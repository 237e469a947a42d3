----------------------------- MODULE Microphone -----------------------------
(***************************************************************************)
(* The microphone (src/src/audio/microphone.py): which input device is     *)
(* used, what happens when it cannot be opened, and the bounded queue that *)
(* the callback of PortAudio fills and the program's thread empties.       *)
(*                                                                         *)
(* A device is asked for by its index or by its name, and that is the key  *)
(* by which a recovery leaves it out; every other candidate has the key of *)
(* its index.  Frames are numbered as they are captured.                   *)
(***************************************************************************)
EXTENDS Integers, Sequences, FiniteSets, SequencesExt

CONSTANTS
  ByApi,          \* all devices, ordered by _host_api_rank and index
  ByName,         \* those with the preferred name, ordered by _preferred_rank
  Loopbacks,      \* those that record what the computer plays
  DefaultInput,   \* the system's default
  ProbeDevices, AllowRecovery, Persist,   \* the configuration
  QueueSize, MaxFrames, MaxRigChanges     \* queue_size and two bounds

Devices == Range(ByApi)
NoDevice == [id |-> 0, named |-> FALSE]
Asked == {NoDevice} \cup [id : Devices, named : BOOLEAN]

ASSUME MicrophoneAssumption ==
  /\ Devices \subseteq Nat \ {0} /\ Range(ByName) \cup Loopbacks \cup {DefaultInput} \subseteq Devices
  /\ {ProbeDevices, AllowRecovery, Persist} \subseteq BOOLEAN
  /\ QueueSize \in Nat \ {0} /\ MaxFrames \in Nat /\ MaxRigChanges \in Nat

VARIABLES
  rig,        \* external: device -> gone, busy (settings accepted, not opened) or works
  rigChanges, \* bound
  configured, \* the device in the settings file
  device,     \* the device in use
  stream,     \* none, made, opening, reopening or runs
  waiting,    \* _frames
  callback,   \* where the callback is: idle, full or popped
  dropped,    \* _dropped_frames
  captured, taken, lastTaken   \* history: frames captured; taken from the queue; the last one

micVars == <<rig, rigChanges, configured, device, stream, waiting, callback, dropped,
             captured, taken, lastTaken>>
selection == <<configured, device>>
frames    == <<waiting, callback, dropped, captured, taken, lastTaken>>

MicInit ==
  /\ rig \in [Devices -> {"gone", "busy", "works"}] /\ rigChanges = 0
  /\ configured \in Asked /\ device = NoDevice /\ stream = "none"
  /\ waiting = <<>> /\ callback = "idle" /\ dropped = 0
  /\ captured = 0 /\ taken = 0 /\ lastTaken = 0

-----------------------------------------------------------------------------
(* Selection.                                                              *)

(* _check_device: the settings are accepted and, when probed, it opens.    *)
Passes(d, probe) == rig[d] = "works" \/ (~probe /\ rig[d] = "busy")

Index(d) == [id |-> d, named |-> FALSE]

Usable(d, excluded, probe) == Index(d) \notin excluded /\ Passes(d, probe)

(* _resolve_input_device: what was asked for,                              *)
AskedStands(asked, excluded, probe) ==
  asked # NoDevice /\ asked \notin excluded /\ Passes(asked.id, probe)

(* the devices of the preferred name,                                      *)
PreferredMatches(excluded, probe) ==
  SelectSeq(ByName, LAMBDA d : Usable(d, excluded, probe))

(* the default, and whatever else there is, loopbacks last.                *)
OtherInputs(excluded, probe) ==
  LET usable(d) == Usable(d, excluded, probe)
      avoided   == SelectSeq(ByApi, usable)
  IN IF usable(DefaultInput) THEN <<DefaultInput>>
     ELSE SelectSeq(avoided, LAMBDA d : d \notin Loopbacks) \o avoided

Resolve(asked, excluded, probe) ==
  LET found == PreferredMatches(excluded, probe) \o OtherInputs(excluded, probe)
  IN IF AskedStands(asked, excluded, probe) THEN asked
     ELSE IF found # <<>> THEN Index(Head(found)) ELSE NoDevice

(* rewrite_audio_device_to_auto: a section or a line that is missing is    *)
(* added, and whatever device was named becomes "auto".                    *)
RewriteToAuto == configured' = NoDevice

(* The file is not there, cannot be replaced, or is not to be touched.     *)
RecordRecovery == (Persist /\ RewriteToAuto) \/ UNCHANGED configured

(* The program starts: the device of the settings, or a recovery from it;  *)
(* with no device at all it ends.                                          *)
MakeMicrophone ==
  /\ stream = "none"
  /\ LET d == Resolve(configured, {}, ProbeDevices)
     IN /\ d # NoDevice /\ device' = d
        /\ IF configured \in {NoDevice, d} THEN UNCHANGED configured ELSE RecordRecovery
  /\ stream' = "made"
  /\ UNCHANGED <<rig, rigChanges, frames>>

(* start: validate raises for a device that is gone; nothing recovers that.*)
StartStream ==
  /\ stream = "made" /\ rig[device.id] # "gone"
  /\ stream' = "opening"
  /\ UNCHANGED <<rig, rigChanges, selection, frames>>

(* _open_stream: a stream that does not start is closed again.             *)
OpenStream ==
  /\ stream \in {"opening", "reopening"} /\ rig[device.id] = "works"
  /\ stream' = "runs"
  /\ UNCHANGED <<rig, rigChanges, selection, frames>>

(* _recover_after_open_failure: another device is chosen and stays chosen, *)
(* also when that cannot be opened either.                                 *)
RecoverStream ==
  /\ stream = "opening" /\ rig[device.id] # "works"
  /\ LET d == Resolve(NoDevice, {device}, TRUE)
     IN IF AllowRecovery /\ d # NoDevice
        THEN device' = d /\ RecordRecovery /\ stream' = "reopening"
        ELSE stream' = "made" /\ UNCHANGED <<device, configured>>
  /\ UNCHANGED <<rig, rigChanges, frames>>

RecoveryCannotOpen ==
  /\ stream = "reopening" /\ rig[device.id] # "works"
  /\ stream' = "made"
  /\ UNCHANGED <<rig, rigChanges, selection, frames>>

(* close: stopping the stream waits for its callback.                      *)
CloseStream ==
  /\ stream = "runs" /\ callback = "idle"
  /\ stream' = "made"
  /\ UNCHANGED <<rig, rigChanges, selection, frames>>

(* The program ends and its queue with it; the settings file stays.        *)
EndProgram ==
  /\ stream = "made"
  /\ stream' = "none" /\ device' = NoDevice
  /\ waiting' = <<>> /\ dropped' = 0 /\ captured' = 0 /\ taken' = 0 /\ lastTaken' = 0
  /\ UNCHANGED <<rig, rigChanges, configured, callback>>

(* External: a device comes, goes or is taken by another program.          *)
RigChanges(d, to) ==
  /\ rigChanges < MaxRigChanges /\ rigChanges' = rigChanges + 1
  /\ rig[d] # to /\ rig' = [rig EXCEPT ![d] = to]
  /\ UNCHANGED <<selection, stream, frames>>

-----------------------------------------------------------------------------
(* Frames.  The three steps of _callback take the lock of the queue one by *)
(* one, and the reader comes in between.                                   *)

PutFrame(n) == waiting' = Append(waiting, n)

(* Mutant: a full queue is not counted.                                    *)
CaptureUncounted ==
  /\ stream = "runs" /\ callback = "idle" /\ captured < MaxFrames
  /\ captured' = captured + 1
  /\ IF Len(waiting) < QueueSize THEN PutFrame(captured + 1) /\ UNCHANGED callback
     ELSE callback' = "full" /\ UNCHANGED waiting
  /\ UNCHANGED <<dropped, taken, lastTaken>>

Capture ==
  /\ stream = "runs" /\ callback = "idle" /\ captured < MaxFrames
  /\ captured' = captured + 1
  /\ IF Len(waiting) < QueueSize
     THEN PutFrame(captured + 1) /\ UNCHANGED <<callback, dropped>>
     ELSE callback' = "full" /\ dropped' = dropped + 1 /\ UNCHANGED waiting
  /\ UNCHANGED <<taken, lastTaken>>

MakeRoom ==
  /\ callback = "full" /\ callback' = "popped"
  /\ waiting' = IF waiting = <<>> THEN waiting ELSE Tail(waiting)
  /\ UNCHANGED <<dropped, captured, taken, lastTaken>>

PutNewest ==
  /\ callback = "popped" /\ callback' = "idle"
  /\ IF Len(waiting) < QueueSize THEN PutFrame(captured) /\ UNCHANGED dropped
     ELSE dropped' = dropped + 1 /\ UNCHANGED waiting
  /\ UNCHANGED <<captured, taken, lastTaken>>

(* read, and one round of clear_pending.  Frames of a stream that was      *)
(* closed are still there.                                                 *)
TakeFrame ==
  /\ stream # "none" /\ waiting # <<>>
  /\ waiting' = Tail(waiting) /\ taken' = taken + 1 /\ lastTaken' = Head(waiting)
  /\ UNCHANGED <<callback, dropped, captured>>

MicNext ==
  \/ MakeMicrophone \/ StartStream \/ OpenStream \/ RecoverStream \/ RecoveryCannotOpen
  \/ CloseStream \/ EndProgram
  \/ \E d \in Devices, to \in {"gone", "busy", "works"} : RigChanges(d, to)
  \/ (Capture \/ MakeRoom \/ PutNewest \/ TakeFrame) /\ UNCHANGED <<rig, rigChanges, selection, stream>>

MicSpec == MicInit /\ [][MicNext]_micVars

-----------------------------------------------------------------------------
(* However the reader comes between the steps of the callback, frames are  *)
(* read in the order they were captured, the newest one is never what a    *)
(* full queue loses, and what is lost is counted (microphone.py _callback, *)
(* read, clear_pending, dropped_frames).                                   *)
FramesInOrder ==
  /\ \A i \in 1 .. Len(waiting) : waiting[i] > IF i = 1 THEN lastTaken ELSE waiting[i - 1]
  /\ callback = "idle" => captured \in Range(waiting) \cup {lastTaken}
  /\ callback = "idle" => captured - taken - Len(waiting) <= dropped

=============================================================================
