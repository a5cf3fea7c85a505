----------------------------- MODULE ChatSession -----------------------------
(***************************************************************************)
(* ChatSession (pdk/chat_session/src/chat_session.cpp): a thread that reads*)
(* lines into two bounded queues, the program's loop that takes them out,  *)
(* steering lines first, and runs a turn for each text, request_stop from  *)
(* any thread, and the destructor, with the timer that wakes the reader.   *)
(* The source of the lines is StdinInputSource; the loop is that of        *)
(* examples/pdk_chat_demo/main.cpp.                                        *)
(*                                                                         *)
(* A line is its number.  The waits with a time limit may end at any time, *)
(* so what a notification or a wake-up of the reader adds is only haste.   *)
(*                                                                         *)
(* A turn runs the tool loop/run of the loop agent                         *)
(* (pdk/loop_agent/src/pdk_entry.cpp), saves the history and records the   *)
(* turn: what it keeps is ChatStore's.  The program may be killed, and     *)
(* launched again with the id of its session.                              *)
(***************************************************************************)
EXTENDS TimerService, ChatStore, SequencesExt

CONSTANT ChatSetups   \* the lines that are typed, and what there is around the session

\* "command" is one without an effect on what is modelled.
Kind == {"blank", "text", "command", "cancel", "compact", "fork", "exit"}
\* It is not loaded; it has no model of the parent's in this thread, or is to do without; it has.
AgentKind == {"none", "mock", "real"}
ChatSetup == [on : BOOLEAN,        \* the program has a chat session
              lines : Seq(Kind),
              tty : BOOLEAN,       \* a read of stdin returns one line, and not all there is
              timer : BOOLEAN,     \* a timer is injected
              leaves : BOOLEAN,    \* main returns before its loop (a --fork of an unknown node)
              throws : BOOLEAN,    \* the tool of a turn may throw
              agent : AgentKind,   \* the loop agent
              disk : BOOLEAN,      \* a write may fail
              kills : Nat,         \* bound on the kills
              launches : Nat,      \* bound on the launches after the first
              capacity : Nat,      \* capacity_
              stops : Nat,         \* bound on the calls of request_stop from another thread
              signal : BOOLEAN]    \* a signal asks the program to end

ASSUME ChatAssumption == ChatSetups \subseteq ChatSetup /\ "chat" \in Owner

VARIABLES
  chat,        \* the setup
  stdin,       \* lines sent, lines in stdio's buffer or beyond it, lines read; where a line that
               \* is not ended is; the other end is closed; at_eof_; shutdown_requested_
  reader,      \* input_thread_: pc; the line in hand; the id of its timer; what its guard holds
  steering, followUp,   \* the queues
  pending,     \* pending_input_count_
  shutdown,    \* stop_input_thread_
  chatTimer,   \* periodic_id_
  timerPtr,    \* timer_ is not null
  callbacks,   \* in_flight_callbacks_
  callback,    \* the timer's thread is in the callback, and whether the destructor could see it
  loop,        \* main: pc; the line in hand; the number of the turn, its id and whether it was
               \* answered; why the loop ended
  sources,     \* sources_ of the cancellation registry: per id, the turn its source belongs to
  currentId,   \* current_cancellation_id_, 0 when there is none
  asker,       \* a thread in request_stop: pc; its id; the source's turn; history: the turn at call
  toldToStop,  \* the turns whose source was asked to stop
  signalled,   \* g_shutdown_requested
  asked,       \* how often request_stop was called by the other thread
  done,        \* history: the lines that were handled
  dropped,     \* history: the lines refused at a full queue
  launched,    \* how often the program was launched again
  seen,        \* history: the last line in a queue when the loop last found both empty
  raced        \* history: the destructor took the timer's id before the reader had stored it

queueVars == <<steering, followUp, pending, dropped>>
timingVars == <<chatTimer, timerPtr, callbacks, callback, raced>>
cancelVars == <<sources, currentId, toldToStop>>
askerVars == <<asker, asked>>
chatVars == <<chat, stdin, reader, queueVars, shutdown, timingVars, loop, cancelVars, askerVars,
              signalled, done, seen, storeVars, launched>>

Alive == chat.on /\ loop.pc # "crashed"
KindOf(line) == chat.lines[line]
Steers(line) == KindOf(line) \in Kind \ {"blank", "text"}
ReaderAt(pc) == Alive /\ reader.pc = pc
LoopAt(pc) == Alive /\ loop.pc = pc

ChatInit ==
  /\ chat \in ChatSetups
  /\ stdin = [sent |-> 0, fetched |-> 0, read |-> 0, begun |-> "no", closed |-> FALSE, eof |-> FALSE,
              down |-> FALSE]
  /\ reader = [pc |-> "start", line |-> 0, id |-> 0, guard |-> FALSE]
  /\ steering = <<>> /\ followUp = <<>> /\ pending = 0 /\ shutdown = FALSE
  /\ chatTimer = 0 /\ timerPtr = chat.timer /\ callbacks = 0 /\ callback = "no"
  /\ loop = [pc |-> IF chat.leaves THEN "cancel" ELSE "top", line |-> 0, turn |-> 0, id |-> 0,
             answered |-> FALSE, why |-> "none"]
  /\ sources = <<>> /\ currentId = 0 /\ toldToStop = {} /\ asked = 0 /\ signalled = FALSE
  /\ asker = [pc |-> "idle", id |-> 0, source |-> 0, turn |-> 0]
  /\ done = {} /\ dropped = {} /\ seen = 0 /\ raced = FALSE
  /\ StoreInit /\ launched = 0

-----------------------------------------------------------------------------
(* The other end of stdin.                                                  *)

Typing == UNCHANGED <<chat, reader, queueVars, shutdown, timerVars, timingVars, loop, cancelVars,
                      askerVars, signalled, done, seen, storeVars, launched>>

\* A line begins to arrive, and ends.
BeginLine ==
  /\ Alive /\ ~stdin.closed /\ stdin.begun = "no" /\ stdin.sent < Len(chat.lines)
  /\ stdin' = [stdin EXCEPT !.begun = "sent"]
  /\ Typing

EndLine ==
  /\ Alive /\ stdin.begun # "no"
  /\ stdin' = [stdin EXCEPT !.sent = @ + 1, !.begun = "no"]
  /\ Typing

\* A last line without its end counts.
CloseStdin ==
  /\ Alive /\ ~stdin.closed
  /\ stdin' = [stdin EXCEPT !.closed = TRUE, !.begun = "no",
                            !.sent = IF stdin.begun = "no" THEN @ ELSE @ + 1]
  /\ Typing

-----------------------------------------------------------------------------
(* The input thread.                                                        *)

Reading == UNCHANGED <<chat, loop, cancelVars, askerVars, signalled, done, seen, storeVars, launched>>
ReaderGoes(pc) == reader' = [reader EXCEPT !.pc = pc]

\* timer_ is a plain pointer that the destructor clears: what is read twice may differ.
ReaderStarts ==
  /\ ReaderAt("start")
  /\ ReaderGoes(IF timerPtr THEN "register" ELSE "guard")
  /\ UNCHANGED <<stdin, queueVars, shutdown, timerVars, timingVars>>
  /\ Reading

ReaderRegisters ==
  /\ ReaderAt("register")
  /\ Register("chat", TRUE)
  /\ reader' = [reader EXCEPT !.pc = "store", !.id = nextId]
  /\ UNCHANGED <<stdin, queueVars, shutdown, timingVars>>
  /\ Reading

\* The other outcome of the second read: a call through a null pointer.
ReaderCrashes ==
  /\ ReaderAt("register") /\ ~timerPtr
  /\ loop' = [loop EXCEPT !.pc = "crashed"]
  /\ UNCHANGED <<chat, stdin, reader, queueVars, shutdown, timerVars, timingVars, cancelVars,
                 askerVars, signalled, done, seen, storeVars, launched>>

ReaderStores ==
  /\ ReaderAt("store")
  /\ chatTimer' = reader.id
  /\ ReaderGoes("guard")
  /\ UNCHANGED <<stdin, queueVars, shutdown, timerVars, timerPtr, callbacks, callback, raced>>
  /\ Reading

\* The guard takes timer_ as it is, or as it was read before.
ReaderGuards ==
  /\ ReaderAt("guard")
  /\ \E held \in {timerPtr, reader.id # 0} :
       reader' = [reader EXCEPT !.pc = "top", !.guard = held]
  /\ UNCHANGED <<stdin, queueVars, shutdown, timerVars, timingVars>>
  /\ Reading

\* The loop's test, and read_line up to its poll.
ReaderAsks ==
  /\ ReaderAt("top")
  /\ ReaderGoes(IF shutdown THEN "exit" ELSE IF stdin.down THEN "noline" ELSE "poll")
  /\ UNCHANGED <<stdin, queueVars, shutdown, timerVars, timingVars>>
  /\ Reading

\* poll sees what stdio has not fetched; what is in stdio's buffer it does not see.
StdinReady == stdin.sent > stdin.fetched \/ stdin.begun = "sent" \/ stdin.closed

ReaderPolls ==
  /\ ReaderAt("poll")
  /\ ReaderGoes(IF StdinReady /\ ~stdin.down THEN "getline" ELSE "noline")
  /\ UNCHANGED <<stdin, queueVars, shutdown, timerVars, timingVars>>
  /\ Reading

\* getline fetches all there is, or a line of a terminal; without a whole line it waits for one.
Fetched ==
  IF chat.tty THEN [stdin EXCEPT !.fetched = @ + 1, !.read = @ + 1]
              ELSE [stdin EXCEPT !.fetched = stdin.sent, !.read = @ + 1,
                                 !.begun = IF stdin.begun = "sent" THEN "fetched" ELSE @]

ReaderGets ==
  /\ ReaderAt("getline")
  /\ \/ /\ \/ stdin.fetched > stdin.read /\ stdin' = [stdin EXCEPT !.read = @ + 1]
           \/ stdin.fetched = stdin.read /\ stdin.sent > stdin.fetched /\ stdin' = Fetched
        /\ reader' = [reader EXCEPT !.pc = "line", !.line = stdin.read + 1]
     \/ /\ stdin.closed /\ stdin.read = stdin.sent
        /\ stdin' = [stdin EXCEPT !.eof = TRUE]
        /\ ReaderGoes("noline")
  /\ UNCHANGED <<queueVars, shutdown, timerVars, timingVars>>
  /\ Reading

\* End of input ends the session's reading, and the program's loop with it.
ReaderGetsNone ==
  /\ ReaderAt("noline")
  /\ IF stdin.eof \/ shutdown THEN shutdown' = TRUE /\ ReaderGoes("exit")
                              ELSE UNCHANGED shutdown /\ ReaderGoes("top")
  /\ UNCHANGED <<stdin, queueVars, timerVars, timingVars>>
  /\ Reading

\* A full queue refuses a line.
HasRoom(queue) == Len(queue) < chat.capacity

ReaderPushes ==
  /\ ReaderAt("line")
  /\ LET line == reader.line IN
     \/ /\ KindOf(line) = "blank"
        /\ ReaderGoes("top")
        /\ UNCHANGED queueVars
     \/ /\ Steers(line) /\ HasRoom(steering)
        /\ steering' = Append(steering, line)
        /\ ReaderGoes("count")
        /\ UNCHANGED <<followUp, pending, dropped>>
     \/ /\ KindOf(line) = "text" /\ HasRoom(followUp)
        /\ followUp' = Append(followUp, line)
        /\ ReaderGoes("count")
        /\ UNCHANGED <<steering, pending, dropped>>
     \/ /\ KindOf(line) # "blank" /\ ~HasRoom(IF Steers(line) THEN steering ELSE followUp)
        /\ dropped' = dropped \cup {line}
        /\ ReaderGoes("top")
        /\ UNCHANGED <<steering, followUp, pending>>
  /\ UNCHANGED <<stdin, shutdown, timerVars, timingVars>>
  /\ Reading

\* Mutant of OneMore: a text is not counted.
OneMoreIfSteers == IF Steers(reader.line) THEN pending + 1 ELSE pending

OneMore == pending + 1

\* Still under the lock of the queue.
ReaderCounts ==
  /\ ReaderAt("count")
  /\ pending' = OneMore
  /\ ReaderGoes("top")
  /\ UNCHANGED <<stdin, steering, followUp, dropped, shutdown, timerVars, timingVars>>
  /\ Reading

Locked(steers) == reader.pc = "count" /\ Steers(reader.line) = steers

\* The guard cancels the timer.
ReaderExits ==
  /\ ReaderAt("exit")
  /\ IF reader.guard /\ chatTimer # 0
       THEN CancelTimer(chatTimer) /\ chatTimer' = 0
       ELSE UNCHANGED <<timerVars, chatTimer>>
  /\ ReaderGoes("ended")
  /\ UNCHANGED <<stdin, queueVars, shutdown, timerPtr, callbacks, callback, raced>>
  /\ Reading

Reader ==
  \/ ReaderStarts \/ ReaderRegisters \/ ReaderCrashes \/ ReaderStores \/ ReaderGuards \/ ReaderAsks
  \/ ReaderPolls \/ ReaderGets \/ ReaderGetsNone \/ ReaderPushes \/ ReaderCounts \/ ReaderExits

-----------------------------------------------------------------------------
(* The program's loop: pop_next_input, and what a line starts.              *)

Looping == UNCHANGED <<chat, stdin, reader, shutdown, timerVars, timingVars, askerVars, launched>>
LoopGoes(pc) == loop' = [loop EXCEPT !.pc = pc]
LoopEnds(why) == loop' = [loop EXCEPT !.pc = "save", !.why = why]

MainLooks ==
  /\ LoopAt("top")
  /\ IF signalled THEN LoopEnds("signal") ELSE LoopGoes(IF pending > 0 THEN "fast" ELSE "wait")
  /\ UNCHANGED <<queueVars, cancelVars, signalled, done, seen>>
  /\ UNCHANGED storeVars /\ Looping

\* try_pop_input, before the wait and after it: each queue under its own lock.
PopsFrom(queue, steers) ==
  /\ queue # <<>> /\ ~Locked(steers)
  /\ pending' = pending - 1
  /\ loop' = [loop EXCEPT !.pc = "handle", !.line = Head(queue)]

PopSteering ==
  /\ LoopAt("fast") \/ LoopAt("woken")
  /\ \/ PopsFrom(steering, TRUE) /\ steering' = Tail(steering)
     \/ /\ steering = <<>> /\ ~Locked(TRUE)
        /\ LoopGoes(IF loop.pc = "fast" THEN "fastText" ELSE "wokenText")
        /\ UNCHANGED <<steering, pending>>
  /\ UNCHANGED <<followUp, dropped, cancelVars, signalled, done, seen>>
  /\ UNCHANGED storeVars /\ Looping

PopFollowUp ==
  /\ LoopAt("fastText") \/ LoopAt("wokenText")
  /\ \/ PopsFrom(followUp, FALSE) /\ followUp' = Tail(followUp)
     \/ /\ followUp = <<>> /\ ~Locked(FALSE)
        /\ LoopGoes(IF loop.pc = "fastText" THEN "wait" ELSE "none")
        /\ UNCHANGED <<followUp, pending>>
  /\ UNCHANGED <<steering, dropped, cancelVars, signalled, done, seen>>
  /\ UNCHANGED storeVars /\ Looping

\* The last line that is, or was, in a queue and counted.
LastIn == IF reader.pc \in {"line", "count"} THEN reader.line - 1 ELSE stdin.read

\* wait_for with its predicate: a timeout finds it false.
WaitForInput ==
  /\ LoopAt("wait")
  /\ IF shutdown \/ pending > 0
       THEN LoopGoes("ready") /\ UNCHANGED seen
       ELSE LoopGoes("none") /\ seen' = LastIn
  /\ UNCHANGED <<queueVars, cancelVars, signalled, done>>
  /\ UNCHANGED storeVars /\ Looping

\* Mutant of OverAfterWait: the end of input is enough.
OverAtOnce == shutdown

\* shutdown, and nothing queued.
OverAfterWait == shutdown /\ pending = 0

AfterWait ==
  /\ LoopAt("ready")
  /\ IF OverAfterWait THEN LoopGoes("none") /\ seen' = LastIn
                      ELSE LoopGoes("woken") /\ UNCHANGED seen
  /\ UNCHANGED <<queueVars, cancelVars, signalled, done>>
  /\ UNCHANGED storeVars /\ Looping

\* Nothing came: main looks whether input is over, and ends, whatever came since.
NothingCame ==
  /\ LoopAt("none")
  /\ IF shutdown THEN LoopEnds("eof") ELSE LoopGoes("top")
  /\ UNCHANGED <<queueVars, cancelVars, signalled, done, seen>>
  /\ UNCHANGED storeVars /\ Looping

\* What a command does to the records: the fork may be refused, and an exception is told and no more.
RecordsCommand ==
  \/ KindOf(loop.line) = "compact" /\ Compacts(loop.turn)
  \/ KindOf(loop.line) = "fork" /\ \E whole \in {TRUE, ~chat.disk} : ForksBranch(whole)
  \/ (KindOf(loop.line) = "compact" => chat.disk) /\ UNCHANGED storeVars

\* A command; /cancel calls request_stop from here, where no turn is under way.
HandleSteering ==
  /\ LoopAt("handle") /\ Steers(loop.line)
  /\ done' = done \cup {loop.line}
  /\ IF KindOf(loop.line) = "exit" THEN LoopEnds("exit") ELSE LoopGoes("top")
  /\ toldToStop' = IF KindOf(loop.line) = "cancel" /\ currentId \in DOMAIN sources
                  THEN toldToStop \cup {sources[currentId]} ELSE toldToStop
  /\ RecordsCommand
  /\ UNCHANGED <<queueVars, sources, currentId, signalled, seen>>
  /\ Looping

\* Mutant of FreshId: the id of a source that is gone is used again.
FreshIdReused == Cardinality(DOMAIN sources) + 1

\* The time and a counter.
FreshId == loop.turn + 1

\* chat(): a source is registered, then its id published ...
TurnBegins ==
  /\ LoopAt("handle") /\ KindOf(loop.line) = "text"
  /\ LET id == FreshId IN
     /\ sources' = [i \in DOMAIN sources \cup {id} |-> IF i = id THEN loop.turn + 1 ELSE sources[i]]
     /\ loop' = [loop EXCEPT !.pc = "publish", !.turn = @ + 1, !.id = id, !.answered = FALSE]
  /\ UNCHANGED <<queueVars, currentId, toldToStop, signalled, done, seen>>
  /\ UNCHANGED storeVars /\ Looping

\* ... and what the user says is in the history, whatever comes of it.
TurnPublishes ==
  /\ LoopAt("publish")
  /\ currentId' = loop.id
  /\ LoopGoes("turn")
  /\ UNCHANGED <<queueVars, sources, toldToStop, signalled, done, seen>>
  /\ Says(loop.turn, "user") /\ Looping

TurnGoes(pc, answered) == loop' = [loop EXCEPT !.pc = pc, !.answered = answered]
Calling == UNCHANGED <<queueVars, cancelVars, signalled, done, seen, storeVars>> /\ Looping

\* loop/run: without the agent there is no such tool; without a model it answers all the same, and
\* looks at no token ...
AgentAnswersItself ==
  /\ LoopAt("turn") /\ chat.agent # "real"
  /\ TurnGoes("unregister", chat.agent = "mock")
  /\ Calling

\* ... with one it looks at its token first, and runs a child engine: an exception is a failure.
AgentLooks ==
  /\ LoopAt("turn") /\ chat.agent = "real"
  /\ LoopGoes(IF loop.turn \in toldToStop THEN "unregister" ELSE "run")
  /\ Calling

\* The model's reply to the think node, and what comes of the act node: only the tools of the child
\* engine can be called, a text is taken for the answer.
Outcomes == [error |-> {FALSE}, blank |-> {FALSE}, text |-> {TRUE}, ownTool |-> BOOLEAN,
             otherTool |-> {FALSE}]
Reply == DOMAIN Outcomes

AgentRuns ==
  /\ LoopAt("run")
  /\ \E reply \in Reply : \E answered \in Outcomes[reply] : TurnGoes("unregister", answered)
  /\ Calling

\* The tool throws past what cleans up.
ToolThrows ==
  /\ LoopAt("turn") \/ LoopAt("run")
  /\ chat.throws
  /\ LoopGoes("record")
  /\ Calling

\* The source goes, then the id.
TurnUnregisters ==
  /\ LoopAt("unregister")
  /\ sources' = Restrict(sources, DOMAIN sources \ {loop.id})
  /\ LoopGoes("clear")
  /\ UNCHANGED <<queueVars, currentId, toldToStop, signalled, done, seen>>
  /\ UNCHANGED storeVars /\ Looping

\* Only an answer is added to the history, and saved.
TurnClears ==
  /\ LoopAt("clear")
  /\ currentId' = 0
  /\ IF loop.answered THEN LoopGoes("save") /\ Says(loop.turn, "assistant")
                     ELSE LoopGoes("record") /\ UNCHANGED storeVars
  /\ UNCHANGED <<queueVars, sources, toldToStop, signalled, done, seen>>
  /\ Looping

\* save_to_disk, after an answer and after the loop.  No one is told that it failed.
Saving == UNCHANGED <<queueVars, cancelVars, signalled, done, seen>> /\ Looping
Saved == LoopGoes(IF loop.why = "none" THEN "record" ELSE "cancel")

SaveWrites ==
  /\ LoopAt("save")
  /\ \/ \E whole \in {TRUE, ~chat.disk} : WritesTmp(whole) /\ LoopGoes("rename")
     \/ chat.disk /\ Saved /\ UNCHANGED storeVars
  /\ Saving

SaveRenames ==
  /\ LoopAt("rename")
  /\ RenamesTmp \/ (chat.disk /\ UNCHANGED storeVars)
  /\ Saved
  /\ Saving

\* persist_turn appends two records, whether the turn was answered or not; an exception leaves
\* chat(), and main does not catch it.
TurnRecords(role, next) ==
  \/ Records(loop.turn, role) /\ LoopGoes(next)
  \/ chat.disk /\ RecordsShort /\ LoopGoes("crashed")

RecordUser ==
  /\ LoopAt("record")
  /\ TurnRecords("user", "answer")
  /\ UNCHANGED <<queueVars, cancelVars, signalled, done, seen>>
  /\ Looping

RecordAnswer ==
  /\ LoopAt("answer")
  /\ TurnRecords("assistant", "top")
  /\ done' = done \cup {loop.line}
  /\ UNCHANGED <<queueVars, cancelVars, signalled, seen>>
  /\ Looping

Turn ==
  \/ TurnBegins \/ TurnPublishes \/ AgentAnswersItself \/ AgentLooks \/ AgentRuns \/ ToolThrows
  \/ TurnUnregisters \/ TurnClears \/ SaveWrites \/ SaveRenames \/ RecordUser \/ RecordAnswer

Main ==
  \/ MainLooks \/ PopSteering \/ PopFollowUp \/ WaitForInput \/ AfterWait \/ NothingCame
  \/ HandleSteering \/ Turn

-----------------------------------------------------------------------------
(* request_stop from another thread, and a signal.                          *)

Asking == UNCHANGED <<chat, stdin, reader, queueVars, shutdown, timerVars, timingVars, loop,
                      sources, currentId, signalled, done, seen, storeVars, launched>>
Exists == loop.pc \notin {"cancel", "barrier", "blocking", "asleep", "unset", "close", "join", "gone"}

\* It copies the current id ...
AskStop ==
  /\ Alive /\ Exists /\ asker.pc = "idle" /\ asked < chat.stops
  /\ asked' = asked + 1
  /\ asker' = IF currentId = 0 THEN asker
                ELSE [pc |-> "resolve", id |-> currentId, source |-> 0, turn |-> loop.turn]
  /\ UNCHANGED toldToStop
  /\ Asking

\* ... looks for its source ...
ResolveSource ==
  /\ Alive /\ asker.pc = "resolve"
  /\ asker' = IF asker.id \in DOMAIN sources
                  THEN [asker EXCEPT !.pc = "found", !.source = sources[asker.id]]
                  ELSE [asker EXCEPT !.pc = "missed"]
  /\ UNCHANGED <<asked, toldToStop>>
  /\ Asking

\* ... and asks that one to stop, if there is one.
StopSource ==
  /\ Alive /\ asker.pc \in {"found", "missed"}
  /\ asker' = [asker EXCEPT !.pc = "idle"]
  /\ toldToStop' = IF asker.pc = "found" THEN toldToStop \cup {asker.source} ELSE toldToStop
  /\ UNCHANGED asked
  /\ Asking

Signal ==
  /\ Alive /\ chat.signal /\ ~signalled
  /\ signalled' = TRUE
  /\ UNCHANGED <<chat, stdin, reader, queueVars, shutdown, timerVars, timingVars, loop, cancelVars,
                 askerVars, done, seen, storeVars, launched>>

-----------------------------------------------------------------------------
(* The end of the program by a kill, and its next launch.                   *)

Kill ==
  /\ Alive /\ loop.pc # "gone" /\ mishaps < chat.kills
  /\ Dies
  /\ LoopGoes("crashed")
  /\ UNCHANGED <<chat, stdin, reader, queueVars, shutdown, timerVars, timingVars, cancelVars,
                 askerVars, signalled, done, seen, launched>>

\* With the id of its session, and no timer, so that there is none to forget.
Relaunch ==
  /\ chat.on /\ ~chat.timer /\ loop.pc \in {"crashed", "gone"} /\ launched < chat.launches
  /\ launched' = launched + 1
  /\ \E stale \in BOOLEAN : Reopens(stale, loop.turn)
  /\ stdin' = [sent |-> 0, fetched |-> 0, read |-> 0, begun |-> "no", closed |-> FALSE,
               eof |-> FALSE, down |-> FALSE]
  /\ reader' = [pc |-> "start", line |-> 0, id |-> 0, guard |-> FALSE]
  /\ steering' = <<>> /\ followUp' = <<>> /\ pending' = 0 /\ dropped' = {} /\ shutdown' = FALSE
  /\ loop' = [loop EXCEPT !.pc = "top", !.line = 0, !.id = 0, !.answered = FALSE, !.why = "none"]
  /\ sources' = <<>> /\ currentId' = 0 /\ toldToStop' = {} /\ signalled' = FALSE
  /\ asker' = [pc |-> "idle", id |-> 0, source |-> 0, turn |-> 0]
  /\ done' = {} /\ seen' = 0
  /\ UNCHANGED <<chat, timerVars, timingVars, asked>>

-----------------------------------------------------------------------------
(* The destructor, and the callback of the timer that it waits for.         *)

Ending == UNCHANGED <<chat, queueVars, cancelVars, askerVars, signalled, done, seen, storeVars, launched>>

\* No other thread is in a call of the session: its callers see to that.
DestroyCancels ==
  /\ LoopAt("cancel") /\ asker.pc = "idle"
  /\ IF chatTimer # 0 THEN CancelTimer(chatTimer) ELSE UNCHANGED timerVars
  /\ chatTimer' = 0
  /\ raced' = (reader.pc \in {"start", "register", "store"})
  /\ LoopGoes("barrier")
  /\ UNCHANGED <<stdin, reader, shutdown, timerPtr, callbacks, callback>>
  /\ Ending

\* Mutant of CallbacksOver: the callback in progress is not waited for.
CallbacksOverAlways == TRUE

CallbacksOver == callbacks = 0

DestroyChecks ==
  /\ LoopAt("barrier")
  /\ LoopGoes(IF CallbacksOver THEN "unset" ELSE "blocking")
  /\ UNCHANGED <<stdin, reader, shutdown, timerVars, timingVars>>
  /\ Ending

DestroyBlocks ==
  /\ LoopAt("blocking")
  /\ LoopGoes("asleep")
  /\ UNCHANGED <<stdin, reader, shutdown, timerVars, timingVars>>
  /\ Ending

DestroyUnsets ==
  /\ LoopAt("unset")
  /\ timerPtr' = FALSE
  /\ LoopGoes("close")
  /\ UNCHANGED <<stdin, reader, shutdown, timerVars, chatTimer, callbacks, callback, raced>>
  /\ Ending

\* Mutant of Closed: stop_input_thread_ is left for the reader to set.
ClosedQuietly == shutdown

Closed == TRUE

DestroyCloses ==
  /\ LoopAt("close")
  /\ shutdown' = Closed
  /\ stdin' = [stdin EXCEPT !.down = TRUE]
  /\ LoopGoes("join")
  /\ UNCHANGED <<reader, timerVars, timingVars>>
  /\ Ending

DestroyJoins ==
  /\ LoopAt("join") /\ reader.pc = "ended"
  /\ LoopGoes("gone")
  /\ UNCHANGED <<stdin, reader, shutdown, timerVars, timingVars>>
  /\ Ending

Destructor ==
  \/ DestroyCancels \/ DestroyChecks \/ DestroyBlocks \/ DestroyUnsets \/ DestroyCloses
  \/ DestroyJoins

\* The callback counts itself, wakes the reader, and when it is done notifies without the mutex: a
\* destructor that has not blocked yet misses it.
CallbackEnters ==
  /\ Alive /\ Firing("chat") /\ callback = "no"
  /\ callbacks' = callbacks + 1
  /\ callback' = IF loop.pc \in {"unset", "close", "join", "gone"} THEN "late" ELSE "timely"
  /\ UNCHANGED <<stdin, reader, shutdown, timerVars, chatTimer, timerPtr, raced, loop>>
  /\ Ending

CallbackLeaves ==
  /\ Alive /\ Firing("chat") /\ callback # "no"
  /\ Fired
  /\ callbacks' = callbacks - 1 /\ callback' = "no"
  /\ loop' = IF loop.pc = "asleep" THEN [loop EXCEPT !.pc = "barrier"] ELSE loop
  /\ UNCHANGED <<stdin, reader, shutdown, chatTimer, timerPtr, raced>>
  /\ Ending

ChatCallback == CallbackEnters \/ CallbackLeaves

\* The period of the timer passes.
ChatElapses == Alive /\ Elapse("chat") /\ UNCHANGED chatVars

ChatThreads == Reader \/ Main \/ ResolveSource \/ StopSource \/ Destructor \/ ChatCallback
ChatNext ==
  \/ BeginLine \/ EndLine \/ CloseStdin
  \/ ChatThreads
  \/ AskStop \/ Signal \/ ChatElapses
  \/ Kill \/ Relaunch

-----------------------------------------------------------------------------
(* Properties.                                                              *)

(* When the loop ends because input is over, every line that was queued    *)
(* when it last looked has been handled: only what came after that look,   *)
(* and what a full queue refused, is left.  And a text is handled in its   *)
(* turn: none that was queued after it has been.                           *)
NothingOverlooked ==
  /\ loop.why = "eof" => \A line \in 1..seen : KindOf(line) = "blank" \/ line \in done \cup dropped
  /\ \A line \in done : \A earlier \in 1..(line - 1) :
       KindOf(earlier) = KindOf(line) => earlier \in done \cup dropped

(* request_stop reaches no turn that began after it was called, though it  *)
(* reads the id, finds the source and stops it in three steps; and when it *)
(* finds none, the turn that was under way is past its tool.               *)
StopsItsTurn ==
  /\ asker.pc = "found" => asker.source <= asker.turn
  /\ asker.pc = "missed" => ~(loop.pc \in {"turn", "run"} /\ loop.turn = asker.turn)

(* Once the session is gone its timer is gone, the callback that was being *)
(* called when the destructor looked is over, and one call at most is to   *)
(* come: but only when the reader had stored its timer's id before the     *)
(* destructor took it.                                                     *)
GoneIsQuiet ==
  loop.pc = "gone" /\ ~raced =>
    /\ callback # "timely"
    /\ \A t \in timers : t.owner # "chat"
    /\ Cardinality({i \in DOMAIN toFire : toFire[i].owner = "chat"}) <= 1

(* Of the program while it lives, the file is a beginning of the history;  *)
(* and while there is a file that can be read, every answer of which a save*)
(* ever reported that it is kept is in it, whenever the program is killed, *)
(* whatever later save fails and however often it is launched again: the   *)
(* file is lost to a full disk, or to its age at a launch, and to nothing  *)
(* else.  The turns it answers are in the records too, but a mishap, which *)
(* may tear a line, can cost two turns, and the turn under way is not yet  *)
(* there when its answer is saved; and /compact keeps those of its own     *)
(* launch, but none of an earlier one, whose records it has not loaded, and*)
(* none at all after a /fork, for it keeps the new branch only.            *)
Unrecorded ==
  {t \in AnsweredTurns(file.history) :
     t > cut /\ ~({Of(t, "user"), Of(t, "assistant")} \subseteq records)}
AnswersSurvive ==
  /\ loop.pc # "crashed" /\ ours /\ file.whole => IsPrefix(file.history, messages)
  /\ file.whole => reported \subseteq AnsweredTurns(file.history)
  /\ ~file.whole => chat.disk \/ launched > 0
  /\ Cardinality(Unrecorded) <= 2 * mishaps + (IF loop.pc \in {"record", "answer"} THEN 1 ELSE 0)

(* Once stdin is closed the loop comes to its end and the session goes:    *)
(* but for a destructor that blocks just after the last callback notified  *)
(* it, and a reader that meets the null pointer.                           *)
Missed == loop.pc = "asleep" /\ callbacks = 0
ChatGoes == chat.on /\ stdin.closed ~> loop.pc \in {"gone", "crashed"} \/ Missed
=============================================================================
