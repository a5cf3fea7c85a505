----------------------------- MODULE LogWriter -----------------------------
(***************************************************************************)
(* The writer of a JSONL log fed by the bus: EventLogWriter                *)
(* (src/core/event_log.cpp) and SessionWriter (src/core/session_writer.cpp)*)
(* are one machine but for the topics they take and for stop.              *)
(*                                                                         *)
(* Three threads touch it besides the dispatcher: its flush_loop, a caller *)
(* of flush_sync and the caller of stop.  A batch is written and flushed   *)
(* under file_mutex_, so that the lines appear at once; what is seen       *)
(* without that mutex is that the file is closed in the middle of a        *)
(* rotation.  The lines are those of the log and of its rotated files      *)
(* (rotation in the end deletes the oldest of them, as configured).        *)
(***************************************************************************)
EXTENDS Bus

CONSTANTS
  Writer,    \* the subscriber the writer is
  Recorded   \* whitelisted_topics() of the SessionWriter

ASSUME WriterAssumption == Writer \in Subscriber /\ Recorded \subseteq Topic

VARIABLES
  kind,      \* the class of the writer; the engine attaches none unless asked ("off")
  running,   \* running_
  buffer,    \* buffer_
  open,      \* file_.is_open()
  lines,     \* the events written, in the order of the lines
  flusher,   \* the thread in flush_loop and its snapshot
  syncer,    \* the caller of flush_sync, its snapshot, what had been received when it called
  closer,    \* the caller of stop and its snapshot
  received,  \* history: the events given to on_bus_event that it did not filter out
  dropped,   \* history: the events thrown away because the file was not open
  before     \* history: the clock when stop was called

logVars == <<kind, running, buffer, open, lines, flusher, syncer, closer, received, dropped,
             before>>
vars == <<busVars, logVars>>

Kind == {"off", "event_log", "session"}
EventLog == kind = "event_log"
Idle(pc) == [pc |-> pc, batch |-> <<>>]
NoSync == [pc |-> "idle", batch |-> <<>>, seen |-> {}]

LogInit ==
  /\ kind \in Kind
  /\ running = (kind # "off")
  /\ buffer = <<>>
  /\ open = (kind # "off")
  /\ lines = <<>>
  /\ flusher = Idle(IF kind = "off" THEN "exited" ELSE "top")
  /\ syncer = NoSync
  /\ closer = Idle("none")
  /\ received = {}
  /\ dropped = {}
  /\ before = 0

\* file_mutex_ is held across steps only while flush_sync rotates the file.
FileMutexFree == syncer.pc # "rotate"

-----------------------------------------------------------------------------
(* The callback, run by the dispatcher.  It stays subscribed for ever.     *)

Takes(event) == EventLog \/ event.topic \in Recorded

OnBusEvent ==
  /\ Calls(Writer)
  /\ LET e == dispatch.event
     IN  /\ buffer' = IF Takes(e) THEN Append(buffer, e) ELSE buffer
         /\ received' = IF Takes(e) THEN received \cup {e} ELSE received
  /\ UNCHANGED <<kind, running, open, lines, flusher, syncer, closer, dropped, before>>

-----------------------------------------------------------------------------
(* flush_loop.                                                             *)

FlushEnter ==
  /\ flusher.pc = "top"
  /\ flusher' = Idle(IF running THEN "wait" ELSE "exited")
  /\ UNCHANGED <<busVars, kind, running, buffer, open, lines, syncer, closer, received, dropped,
                 before>>

\* Mutant of FlushTake: the buffer is copied and not emptied.
FlushTakeCopy ==
  /\ flusher.pc = "wait"
  /\ flusher' = [pc |-> "check", batch |-> buffer]
  /\ UNCHANGED <<busVars, kind, running, buffer, open, lines, syncer, closer, received, dropped,
                 before>>

\* wait_for ends with an event, a stop or flush_interval: at any time.
FlushTake ==
  /\ flusher.pc = "wait"
  /\ flusher' = [pc |-> "check", batch |-> buffer]
  /\ buffer' = <<>>
  /\ UNCHANGED <<busVars, kind, running, open, lines, syncer, closer, received, dropped, before>>

\* The file is looked at without file_mutex_.
FlushCheck ==
  /\ flusher.pc = "check"
  /\ IF open /\ flusher.batch # <<>>
     THEN flusher' = [flusher EXCEPT !.pc = "write"] /\ UNCHANGED dropped
     ELSE flusher' = Idle("top") /\ dropped' = dropped \cup ToSet(flusher.batch)
  /\ UNCHANGED <<busVars, kind, running, buffer, open, lines, syncer, closer, received, before>>

FlushWrite ==
  /\ flusher.pc = "write" /\ FileMutexFree
  /\ lines' = lines \o flusher.batch
  /\ flusher' = Idle("top")
  /\ UNCHANGED <<busVars, kind, running, buffer, open, syncer, closer, received, dropped, before>>

Flusher == FlushEnter \/ FlushTake \/ FlushCheck \/ FlushWrite

-----------------------------------------------------------------------------
(* flush_sync, called again and again by a consumer of the log.            *)

SyncTake ==
  /\ syncer.pc \in {"idle", "returned"}
  /\ syncer' = [pc |-> "lock", batch |-> buffer, seen |-> received]
  /\ buffer' = <<>>
  /\ UNCHANGED <<busVars, kind, running, open, lines, flusher, closer, received, dropped, before>>

SyncGoesOn == open /\ syncer.batch # <<>>

SyncNothing ==
  /\ syncer.pc = "lock" /\ FileMutexFree /\ ~SyncGoesOn
  /\ syncer' = [syncer EXCEPT !.pc = "returned", !.batch = <<>>]
  /\ dropped' = dropped \cup ToSet(syncer.batch)
  /\ UNCHANGED <<busVars, kind, running, buffer, open, lines, flusher, closer, received, before>>

SyncWrite ==
  /\ syncer.pc = "lock" /\ FileMutexFree /\ SyncGoesOn
  /\ lines' = lines \o syncer.batch
  /\ syncer' = [syncer EXCEPT !.pc = "returned", !.batch = <<>>]
  /\ UNCHANGED <<busVars, kind, running, buffer, open, flusher, closer, received, dropped, before>>

\* The same where the log has grown to max_file_size: rotate_if_needed closes the file ...
SyncRotate ==
  /\ syncer.pc = "lock" /\ FileMutexFree /\ SyncGoesOn
  /\ lines' = lines \o syncer.batch
  /\ open' = FALSE
  /\ syncer' = [syncer EXCEPT !.pc = "rotate", !.batch = <<>>]
  /\ UNCHANGED <<busVars, kind, running, buffer, flusher, closer, received, dropped, before>>

\* ... renames it and opens the next one.
SyncReopen ==
  /\ syncer.pc = "rotate"
  /\ open' = TRUE
  /\ syncer' = [syncer EXCEPT !.pc = "returned"]
  /\ UNCHANGED <<busVars, kind, running, buffer, lines, flusher, closer, received, dropped, before>>

Syncer == SyncNothing \/ SyncWrite \/ SyncReopen

-----------------------------------------------------------------------------
(* stop, which the destructor calls.  A second call returns at once.       *)

StopCall ==
  /\ closer.pc = "none" /\ running
  /\ running' = FALSE
  /\ before' = clock
  /\ closer' = Idle("join")
  /\ UNCHANGED <<busVars, kind, buffer, open, lines, flusher, syncer, received, dropped>>

\* The EventLogWriter goes on to drain the bus, the SessionWriter to close its file.
StopJoin ==
  /\ closer.pc = "join" /\ flusher.pc = "exited"
  /\ closer' = Idle(IF EventLog THEN "drain" ELSE "close")
  /\ UNCHANGED <<busVars, kind, running, buffer, open, lines, flusher, syncer, received, dropped,
                 before>>

StopDrain ==
  /\ closer.pc = "drain"
  /\ DrainCall
  /\ closer' = Idle("draining")
  /\ UNCHANGED <<kind, running, buffer, open, lines, flusher, syncer, received, dropped, before>>

\* wait_for_drain has returned: the first step of stop's own flush_sync.
StopTake ==
  /\ closer.pc = "draining" /\ drainer = "drained"
  /\ closer' = [pc |-> "write", batch |-> buffer]
  /\ buffer' = <<>>
  /\ UNCHANGED <<busVars, kind, running, open, lines, flusher, syncer, received, dropped, before>>

StopWrite ==
  /\ closer.pc = "write" /\ FileMutexFree
  /\ lines' = lines \o closer.batch
  /\ closer' = Idle("close")
  /\ UNCHANGED <<busVars, kind, running, buffer, open, flusher, syncer, received, dropped, before>>

\* Under file_mutex_ in the EventLogWriter; the SessionWriter looks whether the file is open and
\* closes it without.
StopClose ==
  /\ closer.pc = "close" /\ (FileMutexFree \/ ~EventLog)
  /\ open' = FALSE
  /\ closer' = Idle("stopped")
  /\ UNCHANGED <<busVars, kind, running, buffer, lines, flusher, syncer, received, dropped, before>>

Closer == StopJoin \/ StopDrain \/ StopTake \/ StopWrite \/ StopClose

-----------------------------------------------------------------------------
(* Properties.                                                             *)

Times(events) == {e.time : e \in events}
LostBySync == IF syncer.pc = "idle" THEN {} ELSE dropped \cup ToSet(syncer.batch)

(* What is received is not lost.  When the stop of an EventLogWriter has    *)
(* returned, the log has every event that was emitted before stop was       *)
(* called, whatever the dispatcher, the flush thread and flush_sync were    *)
(* doing; the stop of a SessionWriter leaves out what is still in its       *)
(* buffer, for it does not flush.  All else that can miss is what a caller  *)
(* of flush_sync holds or threw away, or made the flush thread throw away   *)
(* by closing the file to rotate it.  And when flush_sync returns, no event *)
(* received before the call waits in the buffer: what is neither written    *)
(* nor thrown away yet is held by the flush thread or by stop.              *)
NothingLost ==
  /\ EventLog /\ closer.pc = "stopped" =>
       1..before \subseteq Times(ToSet(lines) \cup LostBySync)
  /\ kind = "session" /\ closer.pc = "stopped" =>
       received \subseteq ToSet(lines) \cup LostBySync \cup ToSet(buffer)
  /\ syncer.pc = "returned" =>
       syncer.seen \subseteq ToSet(lines) \cup dropped \cup ToSet(flusher.batch)
                            \cup ToSet(closer.batch)

(* No event has two lines, and none was both written and thrown away: the   *)
(* three threads that empty the buffer never take the same event.  While    *)
(* only the flush thread and stop write, the lines are in the order of      *)
(* causal_time (two batches of flush_loop and flush_sync may be written in  *)
(* either order).                                                           *)
WrittenOnceInOrder ==
  /\ IsInjective(lines) /\ ToSet(lines) \cap dropped = {}
  /\ syncer.pc = "idle" => \A i, j \in DOMAIN lines : i < j => lines[i].time < lines[j].time

(* A stop that was called returns, once the emitters pause: it joins the    *)
(* flush thread, and the thread that drains the bus is woken by the         *)
(* dispatcher when the last event is done.                                  *)
StopReturns == closer.pc = "join" ~> closer.pc = "stopped"
=============================================================================
