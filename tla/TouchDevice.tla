----------------------------- MODULE TouchDevice -----------------------------
(***************************************************************************)
(* The touch slider device: the evdev queue of the kernel, the driver that *)
(* reads it and reopens it (hardware/ucr3/touchSliderUCR3.cpp) and the     *)
(* event filter (touchSliderEventFilter.cpp) that makes presses, moves and *)
(* releases of the events.                                                 *)
(***************************************************************************)
EXTENDS Naturals, Sequences

CONSTANTS Positions, NoValue,
          MaxQueue,  \* bound: events in the kernel's buffer of the device
          MaxOutputs \* bound: outputs that wait when the next event comes

ASSUME NoValueAssumption == NoValue \notin Positions \cup {0, 1}

VARIABLES
  finger, queue, device, \* the finger is down; kernel buffer; file descriptor
  touching, dropped, pendingMove, currentX, frame, outputs, \* TouchSliderEventFilter
  reading,               \* how far readData() is
  touchX, signal,        \* m_touchX; history: the last signal
  gap                    \* history: events were lost since the last position that got out

filter == <<touching, dropped, pendingMove, currentX, frame, gap>>
deviceVars == <<finger, queue, device, filter, outputs, reading, touchX, signal>>

NoFrame == [x |-> NoValue, btn |-> NoValue]
Event(k, v) == [kind |-> k, val |-> v]
Out(s, x) == [signal |-> s, x |-> x]
Events == [kind : {"x"}, val : Positions] \cup [kind : {"btn"}, val : {0, 1}]
            \cup [kind : {"report", "dropped"}, val : {NoValue}]
Signals == {"pressed", "moved", "released"}

\* A coalesced move belongs to a touch.
DeviceTypeOK ==
  /\ finger \in BOOLEAN /\ queue \in Seq(Events)
  /\ device \in {"open", "failed", "closed"} /\ reading \in {"waiting", "draining", "emitting"}
  /\ touching \in BOOLEAN /\ dropped \in BOOLEAN
  /\ pendingMove \in BOOLEAN /\ (pendingMove => touching)
  /\ currentX \in Positions /\ touchX \in Positions
  /\ frame \in [x : Positions \cup {NoValue}, btn : {0, 1, NoValue}]
  /\ outputs \in Seq([signal : Signals, x : Positions])
  /\ signal \in Signals \cup {"none"} /\ gap \in BOOLEAN

DeviceInit ==
  /\ finger = FALSE /\ queue = <<>> /\ device \in {"open", "closed"} /\ reading = "waiting"
  /\ touching = FALSE /\ dropped = FALSE /\ pendingMove = FALSE /\ gap = FALSE
  /\ currentX \in Positions /\ touchX = currentX
  /\ frame = NoFrame /\ outputs = <<>> /\ signal = "none"

-----------------------------------------------------------------------------
(***************************************************************************)
(* The kernel's buffer.  A reader sees whole frames.  When the buffer is   *)
(* full the kernel empties it and leaves SYN_DROPPED and the rest of the   *)
(* frame.  What arrives while readData() drains the buffer is as if it had *)
(* arrived before.  A descriptor that failed is not read any more.         *)
(***************************************************************************)
Enqueue(events) ==
  queue' = CASE device # "open" -> <<>>
             [] Len(queue) + Len(events) <= MaxQueue -> queue \o events
             [] OTHER -> <<Event("dropped", NoValue), Event("report", NoValue)>>

Touched(events) ==
  /\ reading = "waiting" /\ Len(outputs) < MaxOutputs
  /\ Enqueue(events \o <<Event("report", NoValue)>>)
  /\ UNCHANGED <<device, filter, outputs, reading, touchX, signal>>

\* A position that did not change since the last frame is not repeated.
FingerDown ==
  /\ ~finger /\ finger' = TRUE
  /\ \/ Touched(<<Event("btn", 1)>>)
     \/ \E p \in Positions : Touched(<<Event("x", p), Event("btn", 1)>>)

FingerMoves ==
  /\ finger /\ UNCHANGED finger
  /\ \E p \in Positions : Touched(<<Event("x", p)>>)

FingerUp ==
  /\ finger /\ finger' = FALSE
  /\ \/ Touched(<<Event("btn", 0)>>)
     \/ \E p \in Positions : Touched(<<Event("x", p), Event("btn", 0)>>)

-----------------------------------------------------------------------------
(***************************************************************************)
(* The event filter.                                                       *)
(***************************************************************************)

\* Mutant: a release does not take the coalesced move along.
CommitFrameLate ==
  LET x == IF frame.x = NoValue THEN currentX ELSE frame.x
      down == frame.btn = 1 /\ ~touching
      up == frame.btn = 0 /\ touching
  IN /\ currentX' = x
     /\ touching' = ((touching \/ down) /\ ~up)
     /\ pendingMove' = (touching /\ ~up /\ (pendingMove \/ frame.x # NoValue))
     /\ outputs' = CASE down -> Append(outputs, Out("pressed", x))
                     [] up -> Append(outputs, Out("released", x))
                     [] OTHER -> outputs
     /\ gap' = (gap /\ ~down)

\* Mutant: a frame is a move or the end of a touch, never both.
CommitFrameElse ==
  LET x == IF frame.x = NoValue THEN currentX ELSE frame.x
      moved == pendingMove \/ frame.x # NoValue
      down == frame.btn = 1 /\ ~touching
      up == frame.btn = 0 /\ frame.x = NoValue /\ touching
      moves == IF moved THEN <<Out("moved", x)>> ELSE <<>>
  IN /\ currentX' = x
     /\ touching' = ((touching \/ down) /\ ~up)
     /\ pendingMove' = (touching /\ ~up /\ moved)
     /\ outputs' = CASE down -> Append(outputs, Out("pressed", x))
                     [] up -> Append(outputs \o moves, Out("released", x))
                     [] OTHER -> outputs
     /\ gap' = (gap /\ ~down /\ ~(up /\ moved))

CommitFrame ==
  LET x == IF frame.x = NoValue THEN currentX ELSE frame.x
      moved == pendingMove \/ frame.x # NoValue
      down == frame.btn = 1 /\ ~touching
      up == frame.btn = 0 /\ touching
      moves == IF moved THEN <<Out("moved", x)>> ELSE <<>>
  IN /\ currentX' = x
     /\ touching' = ((touching \/ down) /\ ~up)
     /\ pendingMove' = (touching /\ ~up /\ moved)
     /\ outputs' = CASE down -> Append(outputs, Out("pressed", x))
                     [] up -> Append(outputs \o moves, Out("released", x))
                     [] OTHER -> outputs
     /\ gap' = (gap /\ ~down /\ ~(up /\ moved))

\* SYN_DROPPED: the frame and the move before it are worth nothing.  (The
\* output that only logs this is left out.)
EventsDropped ==
  /\ dropped' = TRUE /\ pendingMove' = FALSE /\ frame' = NoFrame
  /\ gap' = TRUE
  /\ UNCHANGED <<touching, currentX, outputs>>

ProcessEvent(e) ==
  \/ /\ dropped
     /\ dropped' = (e.kind # "report") /\ frame' = NoFrame
     /\ UNCHANGED <<touching, pendingMove, currentX, gap, outputs>>
  \/ /\ ~dropped /\ e.kind \in {"x", "btn"}
     /\ frame' = [frame EXCEPT ![e.kind] = e.val]
     /\ UNCHANGED <<touching, dropped, pendingMove, currentX, gap, outputs>>
  \/ ~dropped /\ e.kind = "dropped" /\ EventsDropped
  \/ /\ ~dropped /\ e.kind = "report"
     /\ CommitFrame /\ frame' = NoFrame /\ UNCHANGED dropped

EndOfDrain ==
  /\ outputs' = IF pendingMove THEN Append(outputs, Out("moved", currentX)) ELSE outputs
  /\ pendingMove' = FALSE /\ gap' = (gap /\ ~pendingMove)
  /\ UNCHANGED <<touching, dropped, currentX, frame>>

\* Mutant: outputs that were not delivered outlive the device.
ResyncKeepsOutputs(x) ==
  /\ currentX' = x /\ touching' = FALSE /\ pendingMove' = FALSE /\ dropped' = FALSE
  /\ frame' = NoFrame /\ gap' = FALSE
  /\ UNCHANGED outputs

ResyncState(x) ==
  /\ currentX' = x /\ touching' = FALSE /\ pendingMove' = FALSE /\ dropped' = FALSE
  /\ frame' = NoFrame /\ outputs' = <<>> /\ gap' = FALSE

-----------------------------------------------------------------------------
(***************************************************************************)
(* The driver.  Within readData() no timer and no event of the entity gets *)
(* a turn; a read may fail between two events.                             *)
(***************************************************************************)
quiet == <<touchX, signal>>

ReadEvent ==
  /\ device = "open" /\ reading # "emitting" /\ queue # <<>>
  /\ ProcessEvent(Head(queue))
  /\ queue' = Tail(queue) /\ reading' = "draining"
  /\ UNCHANGED <<finger, device, quiet>>

Drained ==
  /\ reading = "draining" /\ queue = <<>>
  /\ EndOfDrain
  /\ reading' = "emitting"
  /\ UNCHANGED <<finger, queue, device, quiet>>

EmitOutput ==
  /\ reading = "emitting" /\ outputs # <<>>
  /\ LET o == Head(outputs)
     IN /\ signal' = o.signal
        /\ touchX' = IF o.signal = "released" THEN touchX ELSE o.x
  /\ outputs' = Tail(outputs)
  /\ UNCHANGED <<finger, queue, device, filter, reading>>

EmitDone ==
  /\ reading = "emitting" /\ outputs = <<>>
  /\ reading' = "waiting"
  /\ UNCHANGED <<finger, queue, device, filter, outputs, quiet>>

\* A read error, the end of the file included: the notifier goes quiet and
\* the timer that reopens the device is started.
ReadError ==
  /\ device = "open" /\ reading # "emitting"
  /\ device' = "failed" /\ reading' = "waiting" /\ queue' = <<>> /\ gap' = TRUE
  /\ UNCHANGED <<finger, touching, dropped, pendingMove, currentX, frame, outputs, quiet>>

\* The device is missing or cannot be opened: the timer goes on.
ReopenFails ==
  /\ device # "open" /\ reading = "waiting"
  /\ device' = "closed"
  /\ UNCHANGED <<finger, queue, filter, outputs, reading, quiet>>

\* The device is back, at the position where the finger is or was.
Reopen == \E x \in Positions :
  /\ device # "open" /\ reading = "waiting"
  /\ device' = "open" /\ touchX' = x /\ ResyncState(x)
  /\ signal' = "none"
  /\ UNCHANGED <<finger, queue, reading>>

\* The device is back but does not tell its range: nothing is resynchronised.
ReopenRangeless ==
  /\ device # "open" /\ reading = "waiting"
  /\ device' = "open"
  /\ UNCHANGED <<finger, queue, filter, outputs, reading, quiet>>

-----------------------------------------------------------------------------
Device == FingerDown \/ FingerMoves \/ FingerUp
Driver == ReadEvent \/ Drained \/ EmitOutput \/ EmitDone
Recovery == ReadError \/ ReopenFails \/ Reopen \/ ReopenRangeless
DeviceNext == Device \/ Driver \/ Recovery

DeviceSpec == DeviceInit /\ [][DeviceNext]_deviceVars

\* The socket notifier wakes the driver while the buffer has events.
DeviceFairSpec == DeviceSpec /\ WF_deviceVars(Driver)

-----------------------------------------------------------------------------
(***************************************************************************)
(* The views see touches as TouchStream has them, whatever the kernel      *)
(* dropped and however often the device was lost.                          *)
(***************************************************************************)
Stream == INSTANCE TouchStream

ImplementsStream == Stream!Spec

(***************************************************************************)
(* When a touch ends, the position handed out last is where the finger was *)
(* when it left, unless the kernel dropped events since (CommitFrame,      *)
(* "flush the coalesced move first so consumers see the final finger       *)
(* position").                                                             *)
(***************************************************************************)
LastX(outs) == IF outs = <<>> THEN touchX ELSE outs[Len(outs)].x

FinalPositionFirst ==
  [][reading' = "draining" /\ touching /\ ~touching' =>
       \/ gap
       \/ LastX(SubSeq(outputs', 1, Len(outputs') - 1)) = currentX']_deviceVars

(***************************************************************************)
(* A touch does not outlast the finger: once the finger is off a device    *)
(* that works, the views get the release, unless it was among events that  *)
(* were lost and the device was not resynchronised since (readData does    *)
(* not ask the kernel for the state after SYN_DROPPED).                    *)
(***************************************************************************)
TouchEnds ==
  <>[](~finger /\ device = "open" /\ ~gap) => <>[](signal \notin {"pressed", "moved"})

=============================================================================
