------------------------------ MODULE ChatProofs ------------------------------
(***************************************************************************)
(* What holds of the chat session, for any lines, and beside any skills.   *)
(***************************************************************************)
EXTENDS SkillProofs, SequenceLemmas

LoopFields == {"pc", "line", "turn", "id", "answered", "why"}
ReaderFields == {"pc", "line", "id", "guard"}
AskerFields == {"pc", "id", "source", "turn"}
StdinFields == {"sent", "fetched", "read", "begun", "closed", "eof", "down"}

\* Where the loop is between turns, in a turn, and at its end.
OfLoop == {"top", "fast", "fastText", "wait", "ready", "woken", "wokenText", "none", "handle"}
OfTool == {"turn", "run"}
OfTurn == {"publish", "turn", "run", "unregister", "clear", "record", "answer"}
OfSave == {"save", "rename"}
Ended == {"barrier", "blocking", "asleep", "unset", "close", "join", "gone"}

FieldsKept ==
  /\ DOMAIN loop = LoopFields /\ DOMAIN reader = ReaderFields
  /\ DOMAIN asker = AskerFields /\ DOMAIN stdin = StdinFields
  /\ loop.turn \in Nat /\ chat \in ChatSetups
  /\ loop.pc \in OfLoop \cup OfTurn => loop.why = "none"

-----------------------------------------------------------------------------
(* The steps by what they leave alone.                                     *)

\* Steps of other threads than the program's.
Aside ==
  \/ BeginLine \/ EndLine \/ CloseStdin
  \/ ReaderStarts \/ ReaderRegisters \/ ReaderStores \/ ReaderGuards \/ ReaderAsks
  \/ ReaderPolls \/ ReaderGets \/ ReaderGetsNone \/ ReaderPushes \/ ReaderCounts \/ ReaderExits
  \/ Signal \/ CallbackEnters \/ ChatElapses

LEMMA AsideLeaves ==
  ASSUME Aside
  PROVE  /\ UNCHANGED <<chat, loop, sources, currentId, toldToStop, askerVars, seen, storeVars,
                        launched>>
         /\ UNCHANGED done
<1>1. CASE BeginLine \/ EndLine \/ CloseStdin \/ Signal \/ CallbackEnters \/ ChatElapses
  BY <1>1 DEF BeginLine, EndLine, CloseStdin, Typing, Signal, CallbackEnters, Ending, ChatElapses,
              chatVars,
              cancelVars, askerVars, storeVars, diskVars, recordVars
<1>2. CASE \/ ReaderStarts \/ ReaderRegisters \/ ReaderStores \/ ReaderGuards \/ ReaderAsks
           \/ ReaderPolls \/ ReaderGets \/ ReaderGetsNone \/ ReaderPushes \/ ReaderCounts \/ ReaderExits
  <2>1. Reading
    BY <1>2 DEF ReaderStarts, ReaderRegisters, ReaderStores, ReaderGuards, ReaderAsks, ReaderPolls,
                ReaderGets,
       ReaderGetsNone, ReaderPushes, ReaderCounts, ReaderExits
  <2> QED
    BY <2>1 DEF Reading, cancelVars
<1> QED
  BY <1>1, <1>2 DEF Aside

\* What takes the loop on between turns.
Between ==
  MainLooks \/ PopSteering \/ PopFollowUp \/ WaitForInput \/ AfterWait \/ NothingCame \/ HandleSteering

LEMMA BetweenMoves ==
  ASSUME FieldsKept, Between
  PROVE  /\ loop.pc \in OfLoop /\ loop'.pc \in OfLoop \cup {"save"}
         /\ loop'.pc \in OfLoop <=> loop'.why = "none"
         /\ DOMAIN loop' = LoopFields
         /\ loop'.turn = loop.turn /\ loop'.id = loop.id /\ loop'.answered = loop.answered
         /\ UNCHANGED <<chat, stdin, reader, shutdown, timerVars, timingVars, askerVars, launched,
                        sources,
                        currentId>>
         /\ UNCHANGED storeVars \/ (RecordsCommand /\ loop'.pc # "save")
<1> USE DEF FieldsKept, LoopFields, OfLoop, LoopAt
<1>1. CASE MainLooks
  BY <1>1 DEF MainLooks, LoopGoes, LoopEnds, Looping, cancelVars
<1>2. CASE PopSteering
  BY <1>2 DEF PopSteering, PopsFrom, LoopGoes, LoopEnds, Looping, cancelVars
<1>3. CASE PopFollowUp
  BY <1>3 DEF PopFollowUp, PopsFrom, LoopGoes, LoopEnds, Looping, cancelVars
<1>4. CASE WaitForInput
  BY <1>4 DEF WaitForInput, LoopGoes, Looping, cancelVars
<1>5. CASE AfterWait
  BY <1>5 DEF AfterWait, LoopGoes, Looping, cancelVars
<1>6. CASE NothingCame
  BY <1>6 DEF NothingCame, LoopGoes, LoopEnds, Looping, cancelVars
<1>7. CASE HandleSteering
  <2>1. loop'.pc \in {"top", "save"}
    BY <1>7 DEF HandleSteering, LoopGoes, LoopEnds
  <2>2. loop'.pc = "save" => KindOf(loop.line) = "exit"
    BY <1>7 DEF HandleSteering, LoopGoes, LoopEnds
  <2>3. RecordsCommand /\ (KindOf(loop.line) = "exit" => UNCHANGED storeVars)
    BY <1>7 DEF HandleSteering, RecordsCommand
  <2> QED
    BY <1>7, <2>1, <2>2, <2>3 DEF HandleSteering, LoopGoes, LoopEnds, Looping, cancelVars
<1> QED
  BY <1>1, <1>2, <1>3, <1>4, <1>5, <1>6, <1>7 DEF Between

LEMMA ToolMoves ==
  ASSUME FieldsKept, AgentAnswersItself \/ AgentLooks \/ AgentRuns \/ ToolThrows
  PROVE  /\ loop.pc \in OfTool /\ loop'.pc \in {"run", "unregister", "record"}
         /\ DOMAIN loop' = LoopFields
         /\ loop'.turn = loop.turn /\ loop'.id = loop.id /\ loop'.line = loop.line /\ loop'.why = loop.why
         /\ UNCHANGED <<chat, stdin, reader, queueVars, shutdown, timerVars, timingVars, askerVars,
                        launched,
                        cancelVars, done, seen, storeVars>>
<1> USE DEF FieldsKept, LoopFields, OfTool, LoopAt
<1>1. CASE AgentAnswersItself
  BY <1>1 DEF AgentAnswersItself, TurnGoes, Calling, Looping
<1>2. CASE AgentLooks
  BY <1>2 DEF AgentLooks, LoopGoes, Calling, Looping
<1>3. CASE AgentRuns
  BY <1>3 DEF AgentRuns, TurnGoes, Calling, Looping
<1>4. CASE ToolThrows
  BY <1>4 DEF ToolThrows, LoopGoes, Calling, Looping
<1> QED
  BY <1>1, <1>2, <1>3, <1>4

\* What the loop does with the store.
Keeping == SaveWrites \/ SaveRenames \/ RecordUser \/ RecordAnswer

LEMMA KeepingMoves ==
  ASSUME FieldsKept, Keeping
  PROVE  /\ loop.pc \in {"save", "rename", "record", "answer"}
         /\ loop'.pc \in {"rename", "record", "answer", "cancel", "top", "crashed"}
         /\ DOMAIN loop' = LoopFields
         /\ loop'.turn = loop.turn /\ loop'.id = loop.id /\ loop'.line = loop.line /\ loop'.why = loop.why
         /\ loop.pc \in {"save", "rename"} =>
              loop'.pc \in {"rename", IF loop.why = "none" THEN "record" ELSE "cancel"}
         /\ UNCHANGED <<chat, stdin, reader, queueVars, shutdown, timerVars, timingVars, askerVars,
                        launched,
                        cancelVars, seen>>
<1> USE DEF FieldsKept, LoopFields, LoopAt
<1>1. CASE SaveWrites
  BY <1>1 DEF SaveWrites, Saved, LoopGoes, Saving, Looping
<1>2. CASE SaveRenames
  BY <1>2 DEF SaveRenames, Saved, LoopGoes, Saving, Looping
<1>3. CASE RecordUser
  BY <1>3 DEF RecordUser, TurnRecords, LoopGoes, Looping
<1>4. CASE RecordAnswer
  BY <1>4 DEF RecordAnswer, TurnRecords, LoopGoes, Looping
<1> QED
  BY <1>1, <1>2, <1>3, <1>4 DEF Keeping

LEMMA EndingMoves ==
  ASSUME FieldsKept, Destructor \/ CallbackLeaves
  PROVE  /\ CallbackLeaves \/ loop.pc \in {"cancel"} \cup Ended
         /\ loop' = loop \/ (loop.pc \in {"cancel"} \cup Ended /\ loop'.pc \in Ended)
         /\ DOMAIN loop' = LoopFields
         /\ loop'.turn = loop.turn /\ loop'.id = loop.id /\ loop'.line = loop.line /\ loop'.why = loop.why
         /\ UNCHANGED <<chat, reader, queueVars, cancelVars, askerVars, signalled, done, seen,
                        storeVars, launched>>
<1> USE DEF FieldsKept, LoopFields, LoopAt, Ended
<1>1. CASE DestroyCancels
  BY <1>1 DEF DestroyCancels, LoopGoes, Ending
<1>2. CASE DestroyChecks \/ DestroyBlocks
  BY <1>2 DEF DestroyChecks, DestroyBlocks, LoopGoes, Ending
<1>3. CASE DestroyUnsets \/ DestroyCloses \/ DestroyJoins
  BY <1>3 DEF DestroyUnsets, DestroyCloses, DestroyJoins, LoopGoes, Ending
<1>4. CASE CallbackLeaves
  BY <1>4 DEF CallbackLeaves, Ending
<1> QED
  BY <1>1, <1>2, <1>3, <1>4 DEF Destructor

\* A kill, and the null pointer.
LEMMA CrashMoves ==
  ASSUME FieldsKept, Kill \/ ReaderCrashes
  PROVE  /\ loop.pc # "crashed" /\ loop'.pc = "crashed"
         /\ DOMAIN loop' = LoopFields
         /\ loop'.turn = loop.turn /\ loop'.id = loop.id /\ loop'.line = loop.line /\ loop'.why = loop.why
         /\ UNCHANGED <<chat, stdin, reader, queueVars, shutdown, timerVars, timingVars, askerVars,
                        launched,
                        cancelVars, done, seen, messages, diskVars, recordVars>>
<1> USE DEF FieldsKept, LoopFields, Alive
<1>1. CASE Kill
  BY <1>1 DEF Kill, LoopGoes, Dies
<1>2. CASE ReaderCrashes
  BY <1>2 DEF ReaderCrashes, ReaderAt, storeVars
<1> QED
  BY <1>1, <1>2

LEMMA ChatStep ==
  ASSUME ChatNext
  PROVE  \/ Aside \/ Between \/ Keeping
         \/ AgentAnswersItself \/ AgentLooks \/ AgentRuns \/ ToolThrows
         \/ TurnBegins \/ TurnPublishes \/ TurnUnregisters \/ TurnClears
         \/ AskStop \/ ResolveSource \/ StopSource
         \/ Destructor \/ CallbackLeaves
         \/ Kill \/ ReaderCrashes
         \/ Relaunch
BY DEF ChatNext, ChatThreads, Reader, Main, Turn, ChatCallback, Aside, Between, Keeping

LEMMA TurnMoves ==
  ASSUME FieldsKept, TurnBegins \/ TurnPublishes \/ TurnUnregisters \/ TurnClears
  PROVE  /\ loop.pc \in {"handle", "publish", "unregister", "clear"}
         /\ loop.pc = "handle" => /\ loop'.pc = "publish" /\ loop'.turn = loop.turn + 1
                                  /\ loop'.id = loop.turn + 1
                                  /\ KindOf(loop.line) = "text" /\ UNCHANGED <<currentId, storeVars>>
                                  /\ sources' = [i \in DOMAIN sources \cup {loop.turn + 1} |->
                                                   IF i = loop.turn + 1 THEN loop.turn + 1 ELSE sources[i]]
         /\ loop.pc # "handle" => loop'.turn = loop.turn /\ loop'.id = loop.id
         /\ loop.pc = "publish" => /\ loop'.pc = "turn" /\ currentId' = loop.id
                                   /\ sources' = sources /\ Says(loop.turn, "user")
         /\ loop.pc = "unregister" => /\ loop'.pc = "clear" /\ UNCHANGED <<currentId, storeVars>>
                                      /\ sources' = Restrict(sources, DOMAIN sources \ {loop.id})
         /\ loop.pc = "clear" => /\ currentId' = 0 /\ sources' = sources
                                 /\ \/ loop'.pc = "save" /\ Says(loop.turn, "assistant")
                                    \/ loop'.pc = "record" /\ UNCHANGED storeVars
         /\ DOMAIN loop' = LoopFields
         /\ loop'.line = loop.line /\ loop'.why = loop.why
         /\ UNCHANGED <<chat, stdin, reader, queueVars, shutdown, timerVars, timingVars, askerVars,
                        launched,
                        toldToStop, done, seen>>
<1> USE DEF FieldsKept, LoopFields, LoopAt
<1>1. CASE TurnBegins
  BY <1>1 DEF TurnBegins, TurnPublishes, TurnUnregisters, TurnClears, FreshId, Looping
<1>2. CASE TurnPublishes
  BY <1>2 DEF TurnBegins, TurnPublishes, TurnUnregisters, TurnClears, LoopGoes, Looping
<1>3. CASE TurnUnregisters
  BY <1>3 DEF TurnBegins, TurnPublishes, TurnUnregisters, TurnClears, LoopGoes, Looping
<1>4. CASE TurnClears
  BY <1>4 DEF TurnBegins, TurnPublishes, TurnUnregisters, TurnClears, LoopGoes, Looping
<1> QED
  BY <1>1, <1>2, <1>3, <1>4

LEMMA AskerMoves ==
  ASSUME FieldsKept, AskStop \/ ResolveSource \/ StopSource
  PROVE  /\ loop.pc # "crashed"
         /\ \/ asker' = asker
            \/ /\ asker' = [pc |-> "resolve", id |-> currentId, source |-> 0, turn |-> loop.turn]
               /\ currentId # 0
            \/ /\ asker.pc = "resolve" /\ asker'.turn = asker.turn /\ asker'.id = asker.id
               /\ \/ /\ asker.id \in DOMAIN sources /\ asker'.pc = "found"
                     /\ asker'.source = sources[asker.id]
                  \/ asker.id \notin DOMAIN sources /\ asker'.pc = "missed"
            \/ asker.pc \in {"found", "missed"} /\ asker'.pc = "idle"
         /\ DOMAIN asker' = AskerFields
         /\ UNCHANGED <<chat, stdin, reader, queueVars, shutdown, timerVars, timingVars, loop,
                        sources, currentId,
                        signalled, done, seen, storeVars, launched>>
<1> USE DEF FieldsKept, AskerFields, Alive
<1>1. CASE AskStop
  BY <1>1 DEF AskStop, Asking
<1>2. CASE ResolveSource
  BY <1>2 DEF ResolveSource, Asking
<1>3. CASE StopSource
  BY <1>3 DEF StopSource, Asking
<1> QED
  BY <1>1, <1>2, <1>3

LEMMA RelaunchMoves ==
  ASSUME FieldsKept, Relaunch
  PROVE  /\ ~chat.timer /\ loop.pc \in {"crashed", "gone"} /\ loop'.pc = "top" /\ loop'.why = "none"
         /\ loop'.turn = loop.turn /\ DOMAIN loop' = LoopFields
         /\ asker' = [pc |-> "idle", id |-> 0, source |-> 0, turn |-> 0]
         /\ reader' = [pc |-> "start", line |-> 0, id |-> 0, guard |-> FALSE]
         /\ stdin' = [sent |-> 0, fetched |-> 0, read |-> 0, begun |-> "no", closed |-> FALSE,
                      eof |-> FALSE, down |-> FALSE]
         /\ sources' = <<>> /\ currentId' = 0 /\ toldToStop' = {}
         /\ \E stale \in BOOLEAN : Reopens(stale, loop.turn)
         /\ steering' = <<>> /\ followUp' = <<>> /\ pending' = 0 /\ dropped' = {} /\ done' = {} /\ seen' = 0
         /\ launched' = launched + 1
         /\ UNCHANGED <<chat, timerVars, timingVars>>
BY DEF FieldsKept, LoopFields, Relaunch

\* What the steps that have no part in the timers do to the reader and to stdin.
LEMMA FieldsKeep ==
  ASSUME FieldsKept, ChatNext \/ UNCHANGED chatVars
  PROVE  FieldsKept'
<1> USE DEF FieldsKept, OfLoop, OfTurn, OfTool, Ended
<1>1. CASE UNCHANGED chatVars
  BY <1>1 DEF chatVars, askerVars
<1>2. CASE Aside
  <2>1. UNCHANGED <<chat, loop, askerVars>>
    BY <1>2, AsideLeaves
  <2>2. DOMAIN reader' = DOMAIN reader /\ DOMAIN stdin' = DOMAIN stdin
    <3>1. CASE BeginLine \/ EndLine \/ CloseStdin \/ Signal \/ CallbackEnters \/ ChatElapses
      BY <3>1 DEF BeginLine, EndLine, CloseStdin, Typing, Signal, CallbackEnters, Ending, ChatElapses,
                  chatVars
    <3>2. CASE ReaderStarts \/ ReaderRegisters \/ ReaderStores \/ ReaderGuards \/ ReaderAsks \/ ReaderPolls
      BY <3>2 DEF ReaderStarts, ReaderRegisters, ReaderStores, ReaderGuards, ReaderAsks, ReaderPolls,
                  ReaderGoes
    <3>3. CASE ReaderGets
      BY <3>3 DEF ReaderGets, ReaderGoes, Fetched
    <3>4. CASE ReaderGetsNone \/ ReaderPushes \/ ReaderCounts \/ ReaderExits
      BY <3>4 DEF ReaderGetsNone, ReaderPushes, ReaderCounts, ReaderExits, ReaderGoes
    <3> QED
      BY <1>2, <3>1, <3>2, <3>3, <3>4 DEF Aside
  <2> QED
    BY <2>1, <2>2 DEF askerVars
<1>3. CASE Between
  BY <1>3, BetweenMoves DEF askerVars
<1>4. CASE AgentAnswersItself \/ AgentLooks \/ AgentRuns \/ ToolThrows
  BY <1>4, ToolMoves DEF askerVars
<1>5. CASE Keeping
  BY <1>5, KeepingMoves DEF askerVars
<1>6. CASE TurnBegins \/ TurnPublishes \/ TurnUnregisters \/ TurnClears
  BY <1>6, TurnMoves DEF askerVars
<1>7. CASE AskStop \/ ResolveSource \/ StopSource
  BY <1>7, AskerMoves
<1>8. CASE Destructor \/ CallbackLeaves
  <2>1. DOMAIN stdin' = DOMAIN stdin
    BY <1>8 DEF Destructor, DestroyCancels, DestroyChecks, DestroyBlocks, DestroyUnsets, DestroyCloses,
       DestroyJoins, CallbackLeaves
  <2> QED
    BY <1>8, <2>1, EndingMoves DEF askerVars
<1>9. CASE Kill \/ ReaderCrashes
  BY <1>9, CrashMoves DEF askerVars
<1>10. CASE Relaunch
  BY <1>10, RelaunchMoves DEF ReaderFields, AskerFields, StdinFields
<1> QED
  BY <1>1, <1>2, <1>3, <1>4, <1>5, <1>6, <1>7, <1>8, <1>9, <1>10, ChatStep

-----------------------------------------------------------------------------
(* request_stop.                                                           *)

SourcesNamed ==
  /\ DOMAIN sources \subseteq 1..loop.turn /\ \A i \in DOMAIN sources : sources[i] = i
  /\ loop.pc \in {"publish", "turn", "run", "unregister"} =>
       loop.id = loop.turn /\ loop.turn \in DOMAIN sources
  /\ currentId \in 0..loop.turn
  /\ loop.pc \in OfTool => currentId = loop.turn
  /\ currentId # 0 /\ loop.pc \notin {"clear", "crashed"} => currentId \in DOMAIN sources

AskerKnows ==
  /\ asker.pc \in {"idle", "resolve", "found", "missed"}
  /\ asker.pc # "idle" => asker.turn \in 0..loop.turn /\ asker.id \in 1..asker.turn
  /\ asker.pc = "resolve" => \/ asker.id \in DOMAIN sources \/ asker.turn < loop.turn
                             \/ loop.pc \notin {"publish", "turn", "run"}
  /\ asker.pc = "missed" => asker.turn < loop.turn \/ loop.pc \notin {"publish", "turn", "run"}
  /\ asker.pc = "found" => asker.source <= asker.turn

LEMMA StopKeeps ==
  ASSUME FieldsKept, SourcesNamed, AskerKnows, ChatNext \/ UNCHANGED chatVars
  PROVE  SourcesNamed' /\ AskerKnows'
<1> USE DEF FieldsKept, SourcesNamed, AskerKnows, OfTool
<1>1. CASE UNCHANGED <<loop, sources, currentId, asker>>
  BY <1>1
<1>2. CASE Between
  BY <1>2, BetweenMoves DEF OfLoop, askerVars
<1>3. CASE AgentAnswersItself \/ AgentLooks \/ AgentRuns \/ ToolThrows
  BY <1>3, ToolMoves DEF askerVars, cancelVars
<1>4. CASE Keeping
  BY <1>4, KeepingMoves DEF askerVars, cancelVars
<1>5. CASE TurnBegins \/ TurnPublishes \/ TurnUnregisters \/ TurnClears
  BY <1>5, TurnMoves DEF askerVars, Restrict
<1>6. CASE AskStop \/ ResolveSource \/ StopSource
  BY <1>6, AskerMoves
<1>7. CASE Destructor \/ CallbackLeaves
  BY <1>7, EndingMoves DEF askerVars, cancelVars, Ended
<1>8. CASE Kill \/ ReaderCrashes
  BY <1>8, CrashMoves DEF askerVars, cancelVars
<1>9. CASE Relaunch
  BY <1>9, RelaunchMoves
<1> QED
  BY <1>1, <1>2, <1>3, <1>4, <1>5, <1>6, <1>7, <1>8, <1>9, ChatStep, AsideLeaves DEF chatVars,
     askerVars, cancelVars

-----------------------------------------------------------------------------
(* The timer of the chat.                                                  *)

\* Its only timer is the one its reader registered, and a copy of its call is of that timer.
ItsCalls ==
  /\ \A t \in timers : t.owner = "chat" => t.id = reader.id
  /\ \A i \in 1..Len(toFire) : toFire[i].owner = "chat" => toFire[i].id = reader.id
  /\ \A i, j \in 1..Len(toFire) : toFire[i].owner = "chat" /\ toFire[j].owner = "chat" => i = j
  /\ callback # "no" => Firing("chat")

\* Who holds its id, and what the destructor has seen of it.
ItsTimer ==
  /\ timerPtr => chat.timer
  /\ ~chat.timer => reader.pc \notin {"register", "store"} /\ reader.id = 0
  /\ chat.timer /\ ~timerPtr => loop.pc \in {"close", "join", "gone", "crashed"}
  /\ reader.pc \in {"start", "register"} => reader.id = 0
  /\ chatTimer \in {0, reader.id}
  /\ reader.pc # "store" /\ loop.pc \notin Ended \cup {"crashed"} =>
       \A t \in timers : t.owner = "chat" => chatTimer = t.id
  /\ ~raced /\ loop.pc \in Ended =>
       /\ \A t \in timers : t.owner # "chat"
       /\ reader.pc \notin {"start", "register", "store"}

\* One call at a time, and the destructor waits for one that began before it looked.
ItsCallback ==
  /\ callback \in {"no", "timely", "late"}
  /\ callbacks = IF callback = "no" THEN 0 ELSE 1
  /\ loop.pc \in {"unset", "close", "join", "gone"} => callback # "timely"

\* What happens to the timers when the chat neither registers nor returns from its call.
NotItsSteps ==
  \/ UNCHANGED timerVars
  \/ \E owner \in Owner \ {"chat"}, periodic \in BOOLEAN : Register(owner, periodic)
  \/ \E id : CancelTimer(id)
  \/ \E owner \in Owner : Elapse(owner)
  \/ Collect
  \/ toFire # <<>> /\ Head(toFire).owner # "chat" /\ Fired

LEMMA SkillsAreNot ==
  ASSUME SkillNext
  PROVE  NotItsSteps
<1> USE DEF NotItsSteps
<1>1. CASE Spawn \/ SpawnFails \/ PollFails \/ Destroy
  <2>1. Register("skill", FALSE) =>
          \E owner \in Owner \ {"chat"}, periodic \in BOOLEAN : Register(owner, periodic)
    BY SkillAssumption
  <2> QED
    BY <1>1, <2>1 DEF Spawn, SpawnFails, PollFails, Destroy, Still
<1>2. CASE LoopTop \/ Poll \/ LookReaps \/ LookLeaves \/ LookReads \/ WriteSkipped \/ WriteFails
           \/ Write \/ Finish \/ Reap \/ Leaves \/ Destroyed
  <2>1. CASE Leaves
    BY <2>1 DEF Leaves
  <2>2. CASE LoopTop \/ Poll \/ LookReaps \/ LookLeaves \/ LookReads \/ WriteSkipped
    BY <2>2 DEF LoopTop, Poll, LookReaps, LookLeaves, LookReads, WriteSkipped, Still
  <2>3. CASE WriteFails \/ Write \/ Reap \/ Destroyed
    BY <2>3 DEF WriteFails, Write, Reap, Destroyed, Still
  <2>4. CASE Finish
    BY <2>4 DEF Finish, Still
  <2> QED
    BY <1>2, <2>1, <2>2, <2>3, <2>4
<1>3. CASE Serve
  BY <1>3 DEF Serve, ServeTool, ServeEvent, ServeBudget, ServeReturn, ServeLlm, LlmAnswers,
              LlmTimesOut, Calm
<1>4. CASE ChildRuns \/ ChildEnds \/ OutsideKill \/ Expire \/ Cancel \/ CallSteps
  BY <1>4 DEF ChildRuns, ChildEnds, OutsideKill, Others, Expire, Cancel, CallSteps
<1>5. CASE SkillFires
  BY <1>5 DEF SkillFires, Firing
<1>6. CASE TimeOfTimers
  BY <1>6, SkillAssumption DEF TimeOfTimers
<1>7. CASE ChannelSteps
  BY <1>7, SkillAssumption DEF ChannelSteps, Channel, Tick, StartPolling, StopPolling, BarrierCheck,
     BarrierBlocks, TickEnters, TickLeaves, Firing
<1> QED
  BY <1>1, <1>2, <1>3, <1>4, <1>5, <1>6, <1>7 DEF SkillNext, HostSteps

LEMMA OthersCall ==
  ASSUME ChannelInv, ItsCalls, NotItsSteps, UNCHANGED <<reader, callback>>
  PROVE  /\ ItsCalls'
         /\ \A t \in timers' : t.owner = "chat" => \E u \in timers : u.owner = "chat" /\ u.id = t.id
<1> USE TimersBasics
<1> DEFINE Goal == \A t \in timers' : t.owner = "chat" => \E u \in timers : u.owner = "chat" /\ u.id = t.id
<1>2. CASE UNCHANGED timerVars
  BY <1>2 DEF ItsCalls, timerVars, Firing
<1>3. ASSUME NEW owner \in Owner \ {"chat"}, NEW periodic \in BOOLEAN, Register(owner, periodic)
      PROVE  ItsCalls' /\ Goal
  <2>1. PICK t : t = [id |-> nextId, owner |-> owner, periodic |-> periodic, due |-> FALSE]
    OBVIOUS
  <2>2. timers' = timers \cup {t} /\ toFire' = toFire
    BY <1>3, <2>1 DEF Register
  <2>3. t.owner # "chat"
    BY <2>1
  <2> QED
    BY <2>2, <2>3 DEF ItsCalls, Firing
<1>4. CASE \E id : CancelTimer(id)
  <2>1. timers' \subseteq timers /\ UNCHANGED toFire
    BY <1>4 DEF CancelTimer, Cancelled
  <2> QED
    BY <2>1 DEF ItsCalls, Firing
<1>5. ASSUME NEW owner \in Owner, Elapse(owner)
      PROVE  ItsCalls' /\ Goal
  <2>1. PICK t \in timers : t.owner = owner /\ timers' = (timers \ {t}) \cup {[t EXCEPT !.due = TRUE]}
    BY <1>5 DEF Elapse
  <2>2. PICK u : u = [t EXCEPT !.due = TRUE]
    OBVIOUS
  <2>3. u.id = t.id /\ u.owner = t.owner
    BY <2>2 DEF Timer
  <2>4. timers' = (timers \ {t}) \cup {u} /\ toFire' = toFire
    BY <1>5, <2>1, <2>2 DEF Elapse
  <2> QED
    BY <2>3, <2>4 DEF ItsCalls, Firing
<1>6. CASE Collect
  <2> DEFINE due == {t \in timers : t.due}
             next == {[t EXCEPT !.due = FALSE] : t \in {u \in due : u.periodic}}
  <2>1. PICK inOrder \in [1..Cardinality(due) -> due] :
          /\ \A i, j \in DOMAIN inOrder : i < j => inOrder[i].id < inOrder[j].id
          /\ toFire' = [i \in DOMAIN inOrder |-> [id |-> inOrder[i].id, owner |-> inOrder[i].owner]]
    BY <1>6 DEF Collect
  <2>2. timers' = (timers \ due) \cup next /\ callback = "no"
    BY <1>6 DEF Collect, ItsCalls, Firing
  <2>3. IsFiniteSet(due) /\ Cardinality(due) \in Nat
    BY FS_Subset, FS_CardinalityType DEF ChannelInv, TimersTyped
  <2>4. ASSUME NEW t \in next PROVE \E u \in due : t.id = u.id /\ t.owner = u.owner
    <3>1. PICK u \in due : t = [u EXCEPT !.due = FALSE]
      OBVIOUS
    <3>2. t.id = u.id /\ t.owner = u.owner
      BY ONLY <3>1
    <3> QED
      BY <3>2
  <2>5. /\ Len(toFire') = Cardinality(due)
        /\ \A i \in 1..Len(toFire') : \E t \in timers : toFire'[i].id = t.id /\ toFire'[i].owner = t.owner
        /\ \A i, j \in 1..Len(toFire') : i < j => toFire'[i].id < toFire'[j].id
    <3>1. Len(toFire') = Cardinality(due) /\ DOMAIN inOrder = 1..Cardinality(due)
      <4> HIDE DEF due
      <4> QED
        BY <2>1, <2>3
    <3>2. \A i \in 1..Cardinality(due) :
            inOrder[i] \in due /\ toFire'[i].id = inOrder[i].id /\ toFire'[i].owner = inOrder[i].owner
      BY <2>1, <3>1
    <3> QED
      BY <2>1, <3>1, <3>2
  <2>6. \A t \in timers' : \E u \in timers : t.id = u.id /\ t.owner = u.owner
    <3>1. due \subseteq timers
      OBVIOUS
    <3> HIDE DEF due, next
    <3> QED
      BY <2>2, <2>4, <3>1
  <2>7. \A i \in 1..Len(toFire') : toFire'[i].owner = "chat" => toFire'[i].id = reader.id
    BY <2>5 DEF ItsCalls
  <2>8. \A i, j \in 1..Len(toFire') : toFire'[i].owner = "chat" /\ toFire'[j].owner = "chat" => i = j
    <3> SUFFICES ASSUME NEW i \in 1..Len(toFire'), NEW j \in 1..Len(toFire'), i < j,
                        toFire'[i].owner = "chat", toFire'[j].owner = "chat"
                 PROVE  FALSE
      BY <2>3, <2>5
    <3>1. toFire'[i].id = toFire'[j].id /\ toFire'[i].id < toFire'[j].id
      BY <2>5, <2>7
    <3>2. toFire'[i].id \in Nat
      BY <2>5
    <3> QED
      BY <3>1, <3>2
  <2> HIDE DEF due, next
  <2> QED
    BY <2>2, <2>6, <2>7, <2>8 DEF ItsCalls
<1>7. CASE toFire # <<>> /\ Head(toFire).owner # "chat" /\ Fired
  <2>1. toFire' = Tail(toFire) /\ UNCHANGED timers /\ callback = "no"
    BY <1>7 DEF Fired, ItsCalls, Firing
  <2>2. \A i \in 1..Len(toFire') : i + 1 \in 1..Len(toFire) /\ toFire'[i] = toFire[i+1]
    BY <1>7, <2>1, HeadTailProperties
  <2>3. Len(toFire') \in Nat
    BY <1>7, <2>1, HeadTailProperties
  <2>4. \A i \in 1..Len(toFire') : toFire'[i].owner = "chat" => toFire'[i].id = reader.id
    BY <2>2 DEF ItsCalls
  <2>5. \A i, j \in 1..Len(toFire') : toFire'[i].owner = "chat" /\ toFire'[j].owner = "chat" => i = j
    <3> SUFFICES ASSUME NEW i \in 1..Len(toFire'), NEW j \in 1..Len(toFire'),
                        toFire'[i].owner = "chat", toFire'[j].owner = "chat"
                 PROVE  i = j
      OBVIOUS
    <3>1. i + 1 = j + 1
      BY <2>2 DEF ItsCalls
    <3> QED
      BY <2>3, <3>1
  <2> QED
    BY <2>1, <2>4, <2>5 DEF ItsCalls
<1> QED
  BY <1>2, <1>3, <1>4, <1>5, <1>6, <1>7 DEF NotItsSteps

ChatTimed == ItsCalls /\ ItsTimer /\ ItsCallback

\* A step that is not the chat's, and those of the chat that leave the timer alone.
LEMMA TimedAside ==
  ASSUME ChannelInv, ChatTimed, NotItsSteps,
         UNCHANGED <<chat, reader, timerPtr, chatTimer, raced, callback, callbacks>>,
         \/ loop'.pc = loop.pc \/ loop'.pc = "crashed"
         \/ loop.pc \notin Ended \cup {"crashed"} /\ loop'.pc \notin Ended
  PROVE  ChatTimed'
<1>1. /\ ItsCalls'
      /\ \A t \in timers' : t.owner = "chat" => \E u \in timers : u.owner = "chat" /\ u.id = t.id
  BY OthersCall DEF ChatTimed
<1>2. ItsTimer'
  BY <1>1 DEF ChatTimed, ItsTimer, Ended
<1>3. ItsCallback'
  BY DEF ChatTimed, ItsCallback, Ended
<1> QED
  BY <1>1, <1>2, <1>3 DEF ChatTimed

\* The reader.
LEMMA TimedReader ==
  ASSUME ChannelInv, FieldsKept, ChatTimed, UNCHANGED <<chat, loop>>,
         ReaderStarts \/ ReaderRegisters \/ ReaderStores \/ ReaderGuards \/ ReaderExits
  PROVE  ChatTimed'
<1> USE TimersBasics
<1>1. DOMAIN reader = {"pc", "line", "id", "guard"}
  BY DEF FieldsKept, ReaderFields
<1>2. CASE ReaderStarts
  <2>1. /\ reader.pc = "start" /\ reader'.id = reader.id
        /\ reader'.pc = IF timerPtr THEN "register" ELSE "guard"
        /\ UNCHANGED <<timers, toFire, chatTimer, timerPtr, callbacks, callback, raced>>
    BY <1>1, <1>2 DEF ReaderStarts, ReaderAt, ReaderGoes, timerVars, timingVars
  <2>2. ItsCalls'
    BY <2>1 DEF ChatTimed, ItsCalls, Firing
  <2>3. ItsTimer'
    BY <2>1 DEF ChatTimed, ItsTimer, ItsCalls
  <2>4. ItsCallback'
    BY <2>1 DEF ChatTimed, ItsCallback
  <2> QED
    BY <2>2, <2>3, <2>4 DEF ChatTimed
<1>3. CASE ReaderRegisters
  <2>1. PICK t : t = [id |-> nextId, owner |-> "chat", periodic |-> TRUE, due |-> FALSE]
    OBVIOUS
  <2>2. /\ reader.pc = "register" /\ reader'.pc = "store" /\ reader'.id = nextId
        /\ timers' = timers \cup {t} /\ toFire' = toFire
        /\ UNCHANGED <<chatTimer, timerPtr, callbacks, callback, raced>>
    BY <1>1, <1>3, <2>1 DEF ReaderRegisters, Register, ReaderAt, ReaderGoes, timingVars
  <2>3. t.id = nextId /\ reader.id = 0
    BY <2>1, <2>2 DEF ChatTimed, ItsTimer
  <2>4. ItsCalls'
    BY <2>2, <2>3 DEF ChatTimed, ItsCalls, Firing
  <2>5. ItsTimer'
    BY <2>2, <2>3 DEF ChatTimed, ItsTimer
  <2>6. ItsCallback'
    BY <2>2 DEF ChatTimed, ItsCallback
  <2> QED
    BY <2>4, <2>5, <2>6 DEF ChatTimed
<1>4. CASE ReaderStores
  <2>1. /\ reader.pc = "store" /\ reader'.id = reader.id /\ reader'.pc = "guard" /\ chatTimer' = reader.id
        /\ UNCHANGED <<timers, toFire, timerPtr, callbacks, callback, raced>>
    BY <1>1, <1>4 DEF ReaderStores, ReaderAt, ReaderGoes, timerVars
  <2>2. ItsCalls'
    BY <2>1 DEF ChatTimed, ItsCalls, Firing
  <2>3. ItsTimer'
    BY <2>1 DEF ChatTimed, ItsTimer, ItsCalls
  <2>4. ItsCallback'
    BY <2>1 DEF ChatTimed, ItsCallback
  <2> QED
    BY <2>2, <2>3, <2>4 DEF ChatTimed
<1>5. CASE ReaderGuards
  <2>1. /\ reader.pc = "guard" /\ reader'.id = reader.id /\ reader'.pc = "top"
        /\ UNCHANGED <<timers, toFire, chatTimer, timerPtr, callbacks, callback, raced>>
    BY <1>1, <1>5 DEF ReaderGuards, ReaderAt, timerVars, timingVars
  <2>2. ItsCalls'
    BY <2>1 DEF ChatTimed, ItsCalls, Firing
  <2>3. ItsTimer'
    BY <2>1 DEF ChatTimed, ItsTimer, ItsCalls
  <2>4. ItsCallback'
    BY <2>1 DEF ChatTimed, ItsCallback
  <2> QED
    BY <2>2, <2>3, <2>4 DEF ChatTimed
<1>6. CASE ReaderExits
  <2>1. /\ reader.pc = "exit" /\ reader'.id = reader.id /\ reader'.pc = "ended"
        /\ toFire' = toFire /\ UNCHANGED <<timerPtr, callbacks, callback, raced>>
        /\ \/ chatTimer' = chatTimer /\ timers' = timers
           \/ chatTimer' = 0 /\ timers' = {t \in timers : t.id # chatTimer}
    BY <1>1, <1>6 DEF ReaderExits, ReaderAt, ReaderGoes, CancelTimer, Cancelled, timerVars
  <2>2. ItsCalls'
    BY <2>1 DEF ChatTimed, ItsCalls, Firing
  <2>3. ItsTimer'
    BY <2>1 DEF ChatTimed, ItsTimer, ItsCalls
  <2>4. ItsCallback'
    BY <2>1 DEF ChatTimed, ItsCallback
  <2> QED
    BY <2>2, <2>3, <2>4 DEF ChatTimed
<1> QED
  BY <1>2, <1>3, <1>4, <1>5, <1>6

\* The reader while it reads lines.
LineSteps == ReaderAsks \/ ReaderPolls \/ ReaderGets \/ ReaderGetsNone \/ ReaderPushes \/ ReaderCounts

LEMMA TimedLines ==
  ASSUME FieldsKept, ChatTimed, LineSteps
  PROVE  ChatTimed'
<1>1. DOMAIN reader = {"pc", "line", "id", "guard"}
  BY DEF FieldsKept, ReaderFields
<1>2. /\ reader.pc \notin {"start", "register", "store"} /\ reader'.pc \notin {"start", "register", "store"}
      /\ reader'.id = reader.id
  <2>1. CASE ReaderAsks \/ ReaderPolls \/ ReaderGetsNone
    BY <1>1, <2>1 DEF ReaderAsks, ReaderPolls, ReaderGetsNone, ReaderAt, ReaderGoes
  <2>2. CASE ReaderGets
    BY <1>1, <2>2 DEF ReaderGets, ReaderAt, ReaderGoes
  <2>3. CASE ReaderPushes
    BY <1>1, <2>3 DEF ReaderPushes, ReaderAt, ReaderGoes
  <2>4. CASE ReaderCounts
    BY <1>1, <2>4 DEF ReaderCounts, ReaderAt, ReaderGoes
  <2> QED
    BY <2>1, <2>2, <2>3, <2>4 DEF LineSteps
<1>3. UNCHANGED <<chat, loop, timerVars, timingVars>>
  BY DEF LineSteps, ReaderAsks, ReaderPolls, ReaderGets, ReaderGetsNone, ReaderPushes, ReaderCounts,
         Reading
<1> QED
  BY <1>2, <1>3 DEF ChatTimed, ItsCalls, ItsTimer, ItsCallback, timerVars, timingVars, Firing

LEMMA TimedEnd ==
  ASSUME ChannelInv, FieldsKept, ChatTimed, Destructor \/ CallbackEnters \/ CallbackLeaves
  PROVE  ChatTimed'
<1> USE TimersBasics
<1>1. DOMAIN loop = LoopFields /\ UNCHANGED <<chat, reader>>
  BY EndingMoves DEF FieldsKept, CallbackEnters, Ending
<1>2. CASE DestroyCancels
  <2>1. /\ loop.pc = "cancel" /\ loop'.pc = "barrier" /\ chatTimer' = 0 /\ toFire' = toFire
        /\ raced' = (reader.pc \in {"start", "register", "store"})
        /\ timers' = IF chatTimer # 0 THEN {t \in timers : t.id # chatTimer} ELSE timers
        /\ UNCHANGED <<timerPtr, callbacks, callback>>
    BY <1>1, <1>2 DEF DestroyCancels, LoopAt, LoopGoes, CancelTimer, Cancelled, timerVars, LoopFields
  <2>2. ItsCalls'
    BY <1>1, <2>1 DEF ChatTimed, ItsCalls, Firing
  <2>3. ASSUME reader.pc \notin {"start", "register", "store"}, NEW t \in timers', t.owner = "chat"
        PROVE  FALSE
    <3>1. t \in timers /\ chatTimer = t.id
      BY <2>1, <2>3 DEF ChatTimed, ItsTimer, Ended
    <3> QED
      BY <2>1, <3>1
  <2>4. ItsTimer'
    BY <1>1, <2>1, <2>3 DEF ChatTimed, ItsTimer, Ended
  <2>5. ItsCallback'
    BY <2>1 DEF ChatTimed, ItsCallback
  <2> QED
    BY <2>2, <2>4, <2>5 DEF ChatTimed
<1>3. CASE DestroyChecks
  <2>1. /\ loop.pc = "barrier" /\ loop'.pc = IF callbacks = 0 THEN "unset" ELSE "blocking"
        /\ UNCHANGED <<timers, toFire, chatTimer, timerPtr, callbacks, callback, raced>>
    BY <1>1, <1>3 DEF DestroyChecks, LoopAt, LoopGoes, timerVars, timingVars, LoopFields, CallbacksOver
  <2> QED
    BY <1>1, <2>1 DEF ChatTimed, ItsCalls, ItsTimer, ItsCallback, Firing, Ended
<1>4. CASE DestroyBlocks
  <2>1. /\ loop.pc = "blocking" /\ loop'.pc = "asleep"
        /\ UNCHANGED <<timers, toFire, chatTimer, timerPtr, callbacks, callback, raced>>
    BY <1>1, <1>4 DEF DestroyBlocks, LoopAt, LoopGoes, timerVars, timingVars, LoopFields
  <2> QED
    BY <1>1, <2>1 DEF ChatTimed, ItsCalls, ItsTimer, ItsCallback, Firing, Ended
<1>5. CASE DestroyUnsets
  <2>1. /\ loop.pc = "unset" /\ loop'.pc = "close" /\ timerPtr' = FALSE
        /\ UNCHANGED <<timers, toFire, chatTimer, callbacks, callback, raced>>
    BY <1>1, <1>5 DEF DestroyUnsets, LoopAt, LoopGoes, timerVars, timingVars, LoopFields
  <2> QED
    BY <1>1, <2>1 DEF ChatTimed, ItsCalls, ItsTimer, ItsCallback, Firing, Ended
<1>6. CASE DestroyCloses \/ DestroyJoins
  <2>1. /\ loop.pc \in {"close", "join"} /\ loop'.pc \in {"join", "gone"}
        /\ UNCHANGED <<timers, toFire, chatTimer, timerPtr, callbacks, callback, raced>>
    BY <1>1, <1>6 DEF DestroyCloses, DestroyJoins, LoopAt, LoopGoes, timerVars, timingVars, LoopFields
  <2> QED
    BY <1>1, <2>1 DEF ChatTimed, ItsCalls, ItsTimer, ItsCallback, Firing, Ended
<1>7. CASE CallbackEnters
  <2>1. /\ loop' = loop /\ Firing("chat") /\ callback = "no" /\ callbacks' = callbacks + 1
        /\ callback' = IF loop.pc \in {"unset", "close", "join", "gone"} THEN "late" ELSE "timely"
        /\ UNCHANGED <<timers, toFire, chatTimer, timerPtr, raced>>
    BY <1>7 DEF CallbackEnters, timerVars
  <2> QED
    BY <1>1, <2>1 DEF ChatTimed, ItsCalls, ItsTimer, ItsCallback, Firing, Ended
<1>8. CASE CallbackLeaves
  <2>1. /\ loop' = IF loop.pc = "asleep" THEN [loop EXCEPT !.pc = "barrier"] ELSE loop
        /\ toFire # <<>> /\ Head(toFire).owner = "chat" /\ callback # "no"
        /\ callbacks' = callbacks - 1 /\ callback' = "no"
        /\ toFire' = Tail(toFire)
        /\ UNCHANGED <<timers, chatTimer, timerPtr, raced>>
    BY <1>8 DEF CallbackLeaves, Firing, Fired
  <2>2. loop'.pc = loop.pc \/ (loop.pc = "asleep" /\ loop'.pc = "barrier")
    BY <1>1, <2>1 DEF LoopFields
  <2>3. /\ \A i \in 1..Len(toFire') : i + 1 \in 1..Len(toFire) /\ toFire'[i] = toFire[i+1]
        /\ Len(toFire') \in Nat
    BY <2>1, HeadTailProperties
  <2>4. ItsCalls'
    <3>1. \A i \in 1..Len(toFire') : toFire'[i].owner = "chat" => toFire'[i].id = reader.id
      BY <2>3 DEF ChatTimed, ItsCalls
    <3>2. ASSUME NEW i \in 1..Len(toFire'), NEW j \in 1..Len(toFire'),
                 toFire'[i].owner = "chat", toFire'[j].owner = "chat"
          PROVE  i = j
      <4>1. i + 1 = j + 1
        BY <2>3, <3>2 DEF ChatTimed, ItsCalls
      <4> QED
        BY <2>3, <4>1
    <3> QED
      BY <1>1, <2>1, <3>1, <3>2 DEF ChatTimed, ItsCalls
  <2>5. ItsTimer'
    BY <1>1, <2>1, <2>2 DEF ChatTimed, ItsTimer, Ended
  <2>6. ItsCallback'
    BY <2>1, <2>2 DEF ChatTimed, ItsCallback
  <2> QED
    BY <2>4, <2>5, <2>6 DEF ChatTimed
<1> QED
  BY <1>2, <1>3, <1>4, <1>5, <1>6, <1>7, <1>8 DEF Destructor

LEMMA TimedKeeps ==
  ASSUME ChannelInv, FieldsKept, ChatTimed, [Next]_programVars
  PROVE  ChatTimed'
<1>1. CASE UNCHANGED programVars
  BY <1>1, TimedAside DEF programVars, vars, chatVars, timingVars, NotItsSteps
<1>2. CASE SkillNext /\ UNCHANGED chatVars
  BY <1>2, SkillsAreNot, TimedAside DEF chatVars, timingVars
<1>3. CASE Aside
  <2>1. UNCHANGED <<chat, loop>>
    BY <1>3, AsideLeaves
  <2>2. CASE BeginLine \/ EndLine \/ CloseStdin \/ Signal
    BY <2>1, <2>2, TimedAside DEF BeginLine, EndLine, CloseStdin, Typing, Signal, timingVars,
                                  NotItsSteps
  <2>3. CASE ChatElapses
    BY <2>1, <2>3, TimedAside, ChatAssumption DEF ChatElapses, chatVars, timingVars, NotItsSteps
  <2>4. CASE CallbackEnters
    BY <2>4, TimedEnd
  <2>5. CASE LineSteps
    BY <2>5, TimedLines
  <2> QED
    BY <1>3, <2>1, <2>2, <2>3, <2>4, <2>5, TimedReader DEF Aside, LineSteps
<1>4. CASE Between
  BY <1>4, BetweenMoves, TimedAside DEF OfLoop, Ended, timingVars, NotItsSteps
<1>5. CASE AgentAnswersItself \/ AgentLooks \/ AgentRuns \/ ToolThrows
  BY <1>5, ToolMoves, TimedAside DEF OfTool, Ended, timingVars, NotItsSteps
<1>6. CASE Keeping
  BY <1>6, KeepingMoves, TimedAside DEF Ended, timingVars, NotItsSteps
<1>7. CASE TurnBegins \/ TurnPublishes \/ TurnUnregisters \/ TurnClears
  BY <1>7, TurnMoves, TimedAside DEF Ended, timingVars, NotItsSteps
<1>8. CASE AskStop \/ ResolveSource \/ StopSource
  BY <1>8, AskerMoves, TimedAside DEF timingVars, NotItsSteps
<1>9. CASE Destructor \/ CallbackLeaves
  BY <1>9, TimedEnd
<1>10. CASE Kill \/ ReaderCrashes
  BY <1>10, CrashMoves, TimedAside DEF timingVars, NotItsSteps
<1>11. CASE Relaunch
  <2>1. /\ ~chat.timer /\ loop'.pc = "top" /\ reader'.id = 0 /\ reader'.pc = "start"
        /\ UNCHANGED <<chat, timers, toFire, chatTimer, timerPtr, callbacks, callback, raced>>
    BY <1>11, RelaunchMoves DEF timerVars, timingVars
  <2>2. \A t \in timers : t.owner # "chat"
    BY <2>1, TimersBasics DEF ChatTimed, ItsCalls, ItsTimer
  <2> QED
    BY <2>1, <2>2 DEF ChatTimed, ItsCalls, ItsTimer, ItsCallback, Firing, Ended
<1> QED
  BY <1>1, <1>2, <1>3, <1>4, <1>5, <1>6, <1>7, <1>8, <1>9, <1>10, <1>11, ChatStep DEF Next

LEMMA GoneQuiet ==
  ASSUME ChannelInv, ChatTimed
  PROVE  GoneIsQuiet
<1> DEFINE L == {i \in DOMAIN toFire : toFire[i].owner = "chat"}
<1>1. DOMAIN toFire = 1..Len(toFire)
  BY TimersBasics
<1>2. \A i, j \in L : i = j
  BY <1>1 DEF ChatTimed, ItsCalls
<1>3. Cardinality(L) \in {0, 1}
  <2>1. CASE L = {}
    BY <2>1, FS_EmptySet
  <2>2. ASSUME NEW i, i \in L
        PROVE  Cardinality(L) \in {0, 1}
    <3>1. L = {i}
      BY <1>2, <2>2
    <3> QED
      BY <3>1, FS_Singleton
  <2> QED
    BY <2>1, <2>2
<1> QED
  BY <1>3 DEF ChatTimed, ItsTimer, ItsCallback, GoneIsQuiet, Ended

-----------------------------------------------------------------------------
(* The lines, from stdin to the turn they start.                           *)

\* The line that was taken from a queue is not handled yet.
InHand ==
  \/ loop.pc \in {"handle"} \cup OfTurn
  \/ loop.pc \in OfSave /\ loop.why = "none"

LinesTyped ==
  /\ stdin.sent \in Nat /\ stdin.fetched \in 0..stdin.sent /\ stdin.read \in 0..stdin.fetched
  /\ stdin.begun \in {"no", "sent", "fetched"}
  /\ (IF stdin.begun = "no" THEN stdin.sent ELSE stdin.sent + 1) <= Len(chat.lines)
  /\ reader.line \in Nat /\ (reader.pc \in {"line", "count"} => reader.line = stdin.read /\ stdin.read > 0)
  /\ steering \in Seq(Nat) /\ followUp \in Seq(Nat)

\* A queue holds lines of its kind, in the order they were read.
Ordered(queue, steers) ==
  /\ \A i \in DOMAIN queue : /\ queue[i] \in 1..stdin.read
                             /\ reader.pc = "line" => queue[i] < stdin.read
                             /\ KindOf(queue[i]) # "blank" /\ (Steers(queue[i]) <=> steers)
  /\ \A i, j \in DOMAIN queue : i < j => queue[i] < queue[j]

\* No line that was read is nowhere.
Somewhere ==
  loop.pc # "crashed" =>
    \A line \in 1..stdin.read :
      \/ KindOf(line) = "blank" \/ line \in done \cup dropped
      \/ \E i \in DOMAIN steering : steering[i] = line
      \/ \E i \in DOMAIN followUp : followUp[i] = line
      \/ reader.pc = "line" /\ line = reader.line
      \/ InHand /\ line = loop.line

\* The lines of its kind, steering or text, before a line.
Before(line) == {e \in 1..(line - 1) : KindOf(e) # "blank" /\ (Steers(e) <=> Steers(line))}

InTurn ==
  /\ \A line \in done : KindOf(line) # "blank" /\ Before(line) \subseteq done \cup dropped
  /\ InHand => /\ loop.line \in 1..stdin.read /\ KindOf(loop.line) # "blank"
               /\ Before(loop.line) \subseteq done \cup dropped

\* The count is that of the queues, but for a line just put there.
LinesCounted ==
  /\ pending = Len(steering) + Len(followUp) - (IF reader.pc = "count" THEN 1 ELSE 0)
  /\ reader.pc = "count" =>
       /\ Steers(reader.line) => steering # <<>> /\ steering[Len(steering)] = reader.line
       /\ ~Steers(reader.line) => followUp # <<>> /\ followUp[Len(followUp)] = reader.line

SeenDone == \A line \in 1..seen : KindOf(line) = "blank" \/ line \in done \cup dropped

QueueInv == /\ LinesTyped /\ Ordered(steering, TRUE) /\ Ordered(followUp, FALSE)
            /\ Somewhere /\ InTurn /\ LinesCounted /\ SeenDone

\* Steps in which no line goes anywhere.
LEMMA LinesStay ==
  ASSUME QueueInv, UNCHANGED <<chat, queueVars, done>>, LinesTyped', seen' = seen \/ SeenDone',
         stdin'.read = stdin.read, reader'.line = reader.line, loop'.line = loop.line,
         reader'.pc = "line" <=> reader.pc = "line", reader'.pc = "count" <=> reader.pc = "count",
         InHand' => InHand,
         loop'.pc # "crashed" => loop.pc # "crashed" /\ (InHand => InHand')
  PROVE  QueueInv'
<1> USE DEF QueueInv, queueVars
<1>1. \A line : KindOf(line)' = KindOf(line) /\ (Steers(line)' <=> Steers(line))
  BY DEF KindOf, Steers
<1>2. Ordered(steering, TRUE)' /\ Ordered(followUp, FALSE)'
  BY <1>1 DEF Ordered
<1>3. Somewhere'
  BY <1>1 DEF Somewhere
<1>4. InTurn'
  BY <1>1 DEF InTurn, Before
<1>5. LinesCounted'
  BY <1>1 DEF LinesCounted
<1>6. SeenDone'
  BY <1>1 DEF SeenDone
<1> QED
  BY <1>2, <1>3, <1>4, <1>5, <1>6

LEMMA LinesTypedIn ==
  ASSUME FieldsKept, QueueInv, BeginLine \/ EndLine \/ CloseStdin
  PROVE  QueueInv'
<1>1. UNCHANGED <<chat, reader, queueVars, loop, done, seen>>
  BY DEF BeginLine, EndLine, CloseStdin, Typing
<1>2. LinesTyped'
  <2>1. DOMAIN stdin = StdinFields
    BY DEF FieldsKept
  <2>2. Len(chat.lines) \in Nat
    BY ChatAssumption, LenProperties DEF FieldsKept, ChatSetup
  <2>3. CASE BeginLine
    <3>1. /\ stdin'.sent = stdin.sent /\ stdin'.fetched = stdin.fetched /\ stdin'.read = stdin.read
          /\ stdin'.begun = "sent" /\ stdin.sent < Len(chat.lines)
      BY <2>1, <2>3 DEF BeginLine, StdinFields
    <3> QED
      BY <1>1, <2>2, <3>1 DEF QueueInv, LinesTyped, queueVars
  <2>4. CASE EndLine
    <3>1. /\ stdin'.sent = stdin.sent + 1 /\ stdin'.fetched = stdin.fetched /\ stdin'.read = stdin.read
          /\ stdin'.begun = "no" /\ stdin.begun # "no"
      BY <2>1, <2>4 DEF EndLine, StdinFields
    <3> QED
      BY <1>1, <2>2, <3>1 DEF QueueInv, LinesTyped, queueVars
  <2>5. CASE CloseStdin
    <3>1. /\ stdin'.sent = (IF stdin.begun = "no" THEN stdin.sent ELSE stdin.sent + 1)
          /\ stdin'.fetched = stdin.fetched /\ stdin'.read = stdin.read /\ stdin'.begun = "no"
      BY <2>1, <2>5 DEF CloseStdin, StdinFields
    <3> QED
      BY <1>1, <2>2, <3>1 DEF QueueInv, LinesTyped, queueVars
  <2> QED
    BY <2>3, <2>4, <2>5
<1>3. stdin'.read = stdin.read
  BY DEF FieldsKept, StdinFields, BeginLine, EndLine, CloseStdin
<1> QED
  BY <1>1, <1>2, <1>3, LinesStay DEF InHand

LEMMA LinesAwait ==
  ASSUME FieldsKept, QueueInv,
         \/ ReaderStarts \/ ReaderRegisters \/ ReaderStores \/ ReaderGuards \/ ReaderAsks \/ ReaderPolls
         \/ ReaderGetsNone \/ ReaderExits
  PROVE  QueueInv'
<1>1. UNCHANGED <<chat, stdin, queueVars, loop, done, seen>>
  BY DEF ReaderStarts, ReaderRegisters, ReaderStores, ReaderGuards, ReaderAsks, ReaderPolls,
         ReaderGetsNone,
         ReaderExits, Reading
<1>2. /\ reader'.line = reader.line
      /\ reader.pc \notin {"line", "count"} /\ reader'.pc \notin {"line", "count"}
  <2> USE DEF FieldsKept, ReaderFields, ReaderAt, ReaderGoes
  <2>1. CASE ReaderStarts \/ ReaderRegisters \/ ReaderStores \/ ReaderGuards
    BY <2>1 DEF ReaderStarts, ReaderRegisters, ReaderStores, ReaderGuards
  <2>2. CASE ReaderAsks \/ ReaderPolls \/ ReaderGetsNone \/ ReaderExits
    BY <2>2 DEF ReaderAsks, ReaderPolls, ReaderGetsNone, ReaderExits
  <2> QED
    BY <2>1, <2>2
<1>3. LinesTyped'
  BY <1>1, <1>2 DEF QueueInv, LinesTyped, queueVars
<1> QED
  BY <1>1, <1>2, <1>3, LinesStay DEF InHand

LEMMA LineGot ==
  ASSUME FieldsKept, QueueInv, ReaderGets
  PROVE  QueueInv'
<1>1. UNCHANGED <<chat, queueVars, loop, done, seen>> /\ reader.pc = "getline"
  BY DEF ReaderGets, Reading, ReaderAt
<1>2. CASE stdin'.read = stdin.read /\ reader'.pc = "noline"
  <2>1. /\ stdin'.sent = stdin.sent /\ stdin'.fetched = stdin.fetched /\ stdin'.begun = stdin.begun
        /\ reader'.line = reader.line
    BY <1>2 DEF ReaderGets, ReaderGoes, FieldsKept, StdinFields, ReaderFields
  <2>2. LinesTyped'
    BY <1>1, <1>2, <2>1 DEF QueueInv, LinesTyped, queueVars
  <2> QED
    BY <1>1, <1>2, <2>1, <2>2, LinesStay DEF InHand
<1>3. CASE stdin'.read = stdin.read + 1
  <2>1. /\ reader'.pc = "line" /\ reader'.line = stdin.read + 1
        /\ stdin'.sent = stdin.sent /\ stdin'.fetched \in stdin.read + 1 .. stdin.sent
        /\ stdin'.begun \in {"no", "sent", "fetched"} /\ (stdin'.begun = "no" <=> stdin.begun = "no")
    <3>0. stdin.read \in Nat /\ DOMAIN stdin = StdinFields /\ DOMAIN reader = ReaderFields
      BY DEF QueueInv, LinesTyped, FieldsKept
    <3>5. ~ (stdin' = [stdin EXCEPT !.eof = TRUE])
      BY <1>3, <3>0 DEF StdinFields
    <3>1. reader'.pc = "line" /\ reader'.line = stdin.read + 1
      BY <3>0, <3>5 DEF ReaderGets, ReaderFields
    <3>2. CASE stdin.fetched > stdin.read /\ stdin' = [stdin EXCEPT !.read = @ + 1]
      BY <3>1, <3>2 DEF FieldsKept, StdinFields, QueueInv, LinesTyped
    <3>3. CASE stdin.fetched = stdin.read /\ stdin.sent > stdin.fetched /\ stdin' = Fetched
      BY <3>1, <3>3 DEF Fetched, FieldsKept, StdinFields, QueueInv, LinesTyped
    <3> QED
      BY <3>2, <3>3, <3>5 DEF ReaderGets
  <2>0. stdin.read \in Nat /\ stdin'.read = stdin.read + 1
    BY <1>3 DEF QueueInv, LinesTyped
  <2>2. LinesTyped'
    <3>2. stdin'.fetched \in 0..stdin'.sent /\ stdin'.read \in 0..stdin'.fetched /\ stdin'.sent \in Nat
      <4>1. stdin.sent \in Nat /\ stdin.fetched \in Nat
        BY DEF QueueInv, LinesTyped
      <4> QED
        BY <2>0, <2>1, <4>1
    <3>3. (IF stdin'.begun = "no" THEN stdin'.sent ELSE stdin'.sent + 1) <= Len(chat'.lines)
      BY <1>1, <2>1 DEF QueueInv, LinesTyped
    <3>4. reader'.line \in Nat /\ reader'.line = stdin'.read /\ stdin'.read > 0
      BY <2>0, <2>1
    <3>5. steering' \in Seq(Nat) /\ followUp' \in Seq(Nat)
      BY <1>1 DEF QueueInv, LinesTyped, queueVars
    <3> QED
      BY <2>1, <3>2, <3>3, <3>4, <3>5 DEF LinesTyped
  <2>3. \A line : KindOf(line)' = KindOf(line) /\ (Steers(line)' <=> Steers(line))
    BY <1>1 DEF KindOf, Steers
  <2>4. Ordered(steering, TRUE)' /\ Ordered(followUp, FALSE)'
    BY <1>1, <2>0, <2>1, <2>3 DEF QueueInv, Ordered, queueVars
  <2>5. Somewhere'
    BY <1>1, <2>0, <2>1, <2>3 DEF QueueInv, Somewhere, queueVars, InHand
  <2>6. InTurn'
    BY <1>1, <2>0, <2>3 DEF QueueInv, InTurn, Before, InHand, queueVars
  <2>7. LinesCounted'
    BY <1>1, <2>1, <2>3 DEF QueueInv, LinesCounted, queueVars
  <2>8. SeenDone'
    BY <1>1, <2>3 DEF QueueInv, SeenDone, queueVars
  <2> QED
    BY <2>2, <2>4, <2>5, <2>6, <2>7, <2>8 DEF QueueInv
<1>4. \/ stdin'.read = stdin.read /\ reader'.pc = "noline"
      \/ stdin'.read = stdin.read + 1
  BY DEF ReaderGets, ReaderGoes, Fetched, FieldsKept, StdinFields, ReaderFields
<1> QED
  BY <1>2, <1>3, <1>4

\* A queue that gets the line that was just read.
LEMMA AppendedLast ==
  ASSUME NEW s \in Seq(Nat), NEW e \in Nat
  PROVE  /\ Append(s, e) \in Seq(Nat) /\ Len(Append(s, e)) = Len(s) + 1 /\ Len(s) \in Nat
         /\ DOMAIN s = 1..Len(s) /\ DOMAIN Append(s, e) = 1..Len(s)+1
         /\ \A i \in 1..Len(s) : Append(s, e)[i] = s[i]
         /\ Append(s, e)[Len(s) + 1] = e
BY AppendProperties, LenProperties

LEMMA LinePushed ==
  ASSUME FieldsKept, QueueInv, ReaderPushes
  PROVE  QueueInv'
<1>1. /\ UNCHANGED <<chat, stdin, loop, done, seen>> /\ reader.pc = "line" /\ reader'.line = reader.line
      /\ reader'.pc \in {"top", "count"}
  BY DEF ReaderPushes, Reading, ReaderAt, ReaderGoes, FieldsKept, ReaderFields
<1>2. reader.line = stdin.read /\ stdin.read \in Nat /\ stdin.read > 0
  BY <1>1 DEF QueueInv, LinesTyped
<1>3. \A line : KindOf(line)' = KindOf(line) /\ (Steers(line)' <=> Steers(line))
  BY <1>1 DEF KindOf, Steers
<1>4. SeenDone' /\ InTurn'
  <2>1. dropped \subseteq dropped' 
    BY DEF ReaderPushes, queueVars
  <2> QED
    BY <1>1, <1>3, <2>1 DEF QueueInv, SeenDone, InTurn, Before, InHand
<1>5. steering \in Seq(Nat) /\ followUp \in Seq(Nat) /\ Len(steering) \in Nat /\ Len(followUp) \in Nat
      /\ DOMAIN steering = 1..Len(steering) /\ DOMAIN followUp = 1..Len(followUp)
  BY LenProperties DEF QueueInv, LinesTyped
<1>6. CASE reader'.pc = "top" /\ UNCHANGED <<steering, followUp, pending>> /\ dropped \subseteq dropped'
           /\ (KindOf(reader.line) = "blank" \/ reader.line \in dropped')
  <2>1. LinesTyped'
    BY <1>1, <1>6 DEF QueueInv, LinesTyped
  <2>2. Ordered(steering, TRUE)' /\ Ordered(followUp, FALSE)'
    BY <1>1, <1>3, <1>6 DEF QueueInv, Ordered
  <2>3. Somewhere'
    BY <1>1, <1>3, <1>6 DEF QueueInv, Somewhere, InHand
  <2>4. LinesCounted'
    BY <1>1, <1>6 DEF QueueInv, LinesCounted
  <2> QED
    BY <1>4, <2>1, <2>2, <2>3, <2>4 DEF QueueInv
<1>7. CASE /\ reader'.pc = "count" /\ Steers(reader.line) /\ steering' = Append(steering, reader.line)
           /\ UNCHANGED <<followUp, pending, dropped>>
  <2>1. /\ steering' \in Seq(Nat) /\ Len(steering') = Len(steering) + 1
        /\ DOMAIN steering' = 1..Len(steering)+1
        /\ \A i \in 1..Len(steering) : steering'[i] = steering[i]
        /\ steering'[Len(steering) + 1] = reader.line
    BY <1>2, <1>5, <1>7, AppendedLast
  <2>2. LinesTyped'
    BY <1>1, <1>2, <1>7, <2>1 DEF QueueInv, LinesTyped
  <2>3. Ordered(steering, TRUE)'
    <3>1. \A i \in 1..Len(steering) : steering'[i] \in 1..stdin.read /\ steering'[i] < stdin.read
      BY <1>1, <1>5, <2>1 DEF QueueInv, Ordered
    <3>2. \A i \in 1..Len(steering) : KindOf(steering'[i]) # "blank" /\ Steers(steering'[i])
      BY <1>5, <2>1 DEF QueueInv, Ordered
    <3>3. KindOf(reader.line) # "blank"
      BY <1>7 DEF Steers
    <3>4. \A i \in DOMAIN steering' : /\ steering'[i] \in 1..stdin.read
                                      /\ KindOf(steering'[i]) # "blank" /\ Steers(steering'[i])
      BY <1>2, <1>5, <1>7, <2>1, <3>1, <3>2, <3>3
    <3>5. ASSUME NEW i \in DOMAIN steering', NEW j \in DOMAIN steering', i < j
          PROVE  steering'[i] < steering'[j]
      <4>1. i \in 1..Len(steering)
        BY <1>5, <2>1, <3>5
      <4>2. CASE j = Len(steering) + 1
        BY <1>2, <2>1, <3>1, <4>1, <4>2
      <4>3. CASE j \in 1..Len(steering)
        BY <1>5, <2>1, <3>5, <4>1, <4>3 DEF QueueInv, Ordered
      <4> QED
        BY <1>5, <2>1, <4>2, <4>3
    <3> QED
      BY <1>1, <1>3, <1>7, <3>4, <3>5 DEF Ordered
  <2>4. Ordered(followUp, FALSE)'
    BY <1>1, <1>3, <1>7 DEF QueueInv, Ordered
  <2>5. Somewhere'
    <3> SUFFICES ASSUME loop.pc # "crashed", NEW line \in 1..stdin.read
                 PROVE  \/ KindOf(line) = "blank" \/ line \in done \cup dropped
                        \/ \E i \in DOMAIN steering' : steering'[i] = line
                        \/ \E i \in DOMAIN followUp : followUp[i] = line
                        \/ InHand /\ line = loop.line
      BY <1>1, <1>3, <1>7 DEF Somewhere, InHand
    <3>1. Len(steering) + 1 \in DOMAIN steering' /\ DOMAIN steering \subseteq DOMAIN steering'
      BY <1>5, <2>1
    <3>2. CASE line = reader.line
      BY <2>1, <3>1, <3>2
    <3>3. CASE \E i \in DOMAIN steering : steering[i] = line
      BY <1>5, <2>1, <3>1, <3>3
    <3> QED
      BY <3>2, <3>3 DEF QueueInv, Somewhere
  <2>6. LinesCounted'
    <3>1. steering' # <<>> /\ steering'[Len(steering')] = reader.line
      BY <1>5, <2>1
    <3>0. pending = Len(steering) + Len(followUp)
      BY <1>1, <1>5 DEF QueueInv, LinesCounted
    <3>2. pending' = Len(steering') + Len(followUp') - 1
      BY <1>5, <1>7, <2>1, <3>0
    <3> QED
      BY <1>1, <1>3, <1>7, <3>1, <3>2 DEF LinesCounted
  <2> QED
    BY <1>4, <2>2, <2>3, <2>4, <2>5, <2>6 DEF QueueInv
<1>8. CASE /\ reader'.pc = "count" /\ KindOf(reader.line) = "text" /\ followUp' = Append(followUp, reader.line)
           /\ UNCHANGED <<steering, pending, dropped>>
  <2>1. /\ followUp' \in Seq(Nat) /\ Len(followUp') = Len(followUp) + 1
        /\ DOMAIN followUp' = 1..Len(followUp)+1
        /\ \A i \in 1..Len(followUp) : followUp'[i] = followUp[i]
        /\ followUp'[Len(followUp) + 1] = reader.line
    BY <1>2, <1>5, <1>8, AppendedLast
  <2>2. LinesTyped'
    BY <1>1, <1>2, <1>8, <2>1 DEF QueueInv, LinesTyped
  <2>3. Ordered(followUp, FALSE)'
    <3>1. \A i \in 1..Len(followUp) : followUp'[i] \in 1..stdin.read /\ followUp'[i] < stdin.read
      BY <1>1, <1>5, <2>1 DEF QueueInv, Ordered
    <3>2. \A i \in 1..Len(followUp) : KindOf(followUp'[i]) # "blank" /\ ~Steers(followUp'[i])
      BY <1>5, <2>1 DEF QueueInv, Ordered
    <3>3. KindOf(reader.line) # "blank" /\ ~Steers(reader.line)
      BY <1>8 DEF Steers
    <3>4. \A i \in DOMAIN followUp' : /\ followUp'[i] \in 1..stdin.read
                                      /\ KindOf(followUp'[i]) # "blank" /\ ~Steers(followUp'[i])
      BY <1>2, <1>5, <1>8, <2>1, <3>1, <3>2, <3>3
    <3>5. ASSUME NEW i \in DOMAIN followUp', NEW j \in DOMAIN followUp', i < j
          PROVE  followUp'[i] < followUp'[j]
      <4>1. i \in 1..Len(followUp)
        BY <1>5, <2>1, <3>5
      <4>2. CASE j = Len(followUp) + 1
        BY <1>2, <2>1, <3>1, <4>1, <4>2
      <4>3. CASE j \in 1..Len(followUp)
        BY <1>5, <2>1, <3>5, <4>1, <4>3 DEF QueueInv, Ordered
      <4> QED
        BY <1>5, <2>1, <4>2, <4>3
    <3> QED
      BY <1>1, <1>3, <1>8, <3>4, <3>5 DEF Ordered
  <2>4. Ordered(steering, TRUE)'
    BY <1>1, <1>3, <1>8 DEF QueueInv, Ordered
  <2>5. Somewhere'
    <3> SUFFICES ASSUME loop.pc # "crashed", NEW line \in 1..stdin.read
                 PROVE  \/ KindOf(line) = "blank" \/ line \in done \cup dropped
                        \/ \E i \in DOMAIN followUp' : followUp'[i] = line
                        \/ \E i \in DOMAIN steering : steering[i] = line
                        \/ InHand /\ line = loop.line
      BY <1>1, <1>3, <1>8 DEF Somewhere, InHand
    <3>1. Len(followUp) + 1 \in DOMAIN followUp' /\ DOMAIN followUp \subseteq DOMAIN followUp'
      BY <1>5, <2>1
    <3>2. CASE line = reader.line
      BY <2>1, <3>1, <3>2
    <3>3. CASE \E i \in DOMAIN followUp : followUp[i] = line
      BY <1>5, <2>1, <3>1, <3>3
    <3> QED
      BY <3>2, <3>3 DEF QueueInv, Somewhere
  <2>6. LinesCounted'
    <3>1. followUp' # <<>> /\ followUp'[Len(followUp')] = reader.line /\ ~Steers(reader.line)
      BY <1>5, <1>8, <2>1 DEF Steers
    <3>0. pending = Len(steering) + Len(followUp)
      BY <1>1, <1>5 DEF QueueInv, LinesCounted
    <3>2. pending' = Len(steering') + Len(followUp') - 1
      BY <1>5, <1>8, <2>1, <3>0
    <3> QED
      BY <1>1, <1>3, <1>8, <3>1, <3>2 DEF LinesCounted
  <2> QED
    BY <1>4, <2>2, <2>3, <2>4, <2>5, <2>6 DEF QueueInv
<1>9. \/ /\ reader'.pc = "top" /\ UNCHANGED <<steering, followUp,
                                              pending>> /\ dropped \subseteq dropped'
         /\ (KindOf(reader.line) = "blank" \/ reader.line \in dropped')
      \/ /\ reader'.pc = "count" /\ Steers(reader.line) /\ steering' = Append(steering, reader.line)
         /\ UNCHANGED <<followUp, pending, dropped>>
      \/ /\ reader'.pc = "count" /\ KindOf(reader.line) = "text" /\ followUp' = Append(followUp, reader.line)
         /\ UNCHANGED <<steering, pending, dropped>>
  BY DEF ReaderPushes, ReaderGoes, FieldsKept, ReaderFields, queueVars
<1> QED
  BY <1>6, <1>7, <1>8, <1>9

LEMMA LineCounted ==
  ASSUME FieldsKept, QueueInv, ReaderCounts
  PROVE  QueueInv'
<1>1. /\ UNCHANGED <<chat, stdin, steering, followUp, dropped, loop, done, seen>>
      /\ reader.pc = "count" /\ reader'.pc = "top" /\ reader'.line = reader.line /\ pending' = pending + 1
  BY DEF ReaderCounts, Reading, ReaderAt, ReaderGoes, FieldsKept, ReaderFields, OneMore
<1>3. \A line : KindOf(line)' = KindOf(line) /\ (Steers(line)' <=> Steers(line))
  BY <1>1 DEF KindOf, Steers
<1>4. LinesTyped'
  BY <1>1 DEF QueueInv, LinesTyped
<1>5. Ordered(steering, TRUE)' /\ Ordered(followUp, FALSE)'
  BY <1>1, <1>3 DEF QueueInv, Ordered
<1>6. Somewhere' /\ InTurn' /\ SeenDone'
  BY <1>1, <1>3 DEF QueueInv, Somewhere, InTurn, SeenDone, Before, InHand
<1>7. LinesCounted'
  <2>1. Len(steering) \in Nat /\ Len(followUp) \in Nat
    BY LenProperties DEF QueueInv, LinesTyped
  <2> QED
    BY <1>1, <2>1 DEF QueueInv, LinesCounted
<1> QED
  BY <1>4, <1>5, <1>6, <1>7 DEF QueueInv

\* What the loop takes out is the oldest line of its kind that is left.
LEMMA SteeringTaken ==
  ASSUME FieldsKept, QueueInv, PopSteering
  PROVE  QueueInv'
<1>1. /\ UNCHANGED <<chat, stdin, reader, followUp, dropped, done, seen>>
      /\ loop.pc \in {"fast", "woken"} /\ ~InHand
  BY DEF PopSteering, Looping, LoopAt, InHand, OfTurn, OfSave
<1>2. \A line : KindOf(line)' = KindOf(line) /\ (Steers(line)' <=> Steers(line))
  BY <1>1 DEF KindOf, Steers
<1>3. CASE UNCHANGED <<steering, pending>> /\ LoopGoes(IF loop.pc = "fast" THEN "fastText" ELSE "wokenText")
  <2>1. loop'.pc \in {"fastText", "wokenText"} /\ loop'.line = loop.line
    BY <1>3 DEF LoopGoes, FieldsKept, LoopFields
  <2>2. LinesTyped'
    BY <1>1, <1>3 DEF QueueInv, LinesTyped
  <2> QED
    BY <1>1, <1>3, <2>1, <2>2, LinesStay DEF InHand, OfTurn, OfSave, queueVars
<1>4. CASE PopsFrom(steering, TRUE) /\ steering' = Tail(steering)
  <2>1. /\ steering # <<>> /\ (reader.pc = "count" => ~Steers(reader.line)) /\ pending' = pending - 1
        /\ loop'.pc = "handle" /\ loop'.line = Head(steering)
    BY <1>4 DEF PopsFrom, Locked, FieldsKept, LoopFields, Steers
  <2>2. steering \in Seq(Nat) /\ followUp \in Seq(Nat) /\ stdin.read \in Nat
    BY DEF QueueInv, LinesTyped
  <2>3. /\ Head(steering) = steering[1] /\ Len(steering) \in Nat \ {0} /\ Len(followUp) \in Nat
        /\ DOMAIN steering = 1..Len(steering)
        /\ steering' \in Seq(Nat) /\ Len(steering') = Len(steering) - 1
        /\ DOMAIN steering' = 1..Len(steering)-1
        /\ \A i \in 1..Len(steering)-1 : steering'[i] = steering[i+1]
    BY <1>4, <2>1, <2>2, HeadTailProperties, LenProperties
  <2> DEFINE first == steering[1]
  <2>4. /\ first \in 1..stdin.read /\ (reader.pc = "line" => first < stdin.read)
        /\ KindOf(first) # "blank" /\ Steers(first)
        /\ \A i \in DOMAIN steering : i # 1 => first < steering[i]
    BY <2>3 DEF QueueInv, Ordered
  <2>5. loop'.line = first
    BY <2>1, <2>3
  <2>6. InHand'
    BY <2>1 DEF InHand
  <2> HIDE DEF first
  <2>7. LinesTyped'
    BY <1>1, <2>3 DEF QueueInv, LinesTyped
  <2>8. Ordered(steering, TRUE)'
    <3>1. \A i \in DOMAIN steering' : i + 1 \in DOMAIN steering
      BY <2>3
    <3>2. \A i \in DOMAIN steering' : /\ steering'[i] \in 1..stdin.read
                                      /\ reader.pc = "line" => steering'[i] < stdin.read
                                      /\ KindOf(steering'[i]) # "blank" /\ Steers(steering'[i])
      BY <2>3, <3>1 DEF QueueInv, Ordered
    <3>3. \A i, j \in DOMAIN steering' : i < j => steering'[i] < steering'[j]
      <4> SUFFICES ASSUME NEW i \in DOMAIN steering', NEW j \in DOMAIN steering', i < j
                   PROVE  steering'[i] < steering'[j]
        OBVIOUS
      <4>1. i + 1 < j + 1
        BY <2>3
      <4> QED
        BY <2>3, <3>1, <4>1 DEF QueueInv, Ordered
    <3> QED
      BY <1>1, <1>2, <3>2, <3>3 DEF Ordered
  <2>9. Ordered(followUp, FALSE)'
    BY <1>1, <1>2 DEF QueueInv, Ordered
  <2>10. Somewhere'
    <3> SUFFICES ASSUME NEW line \in 1..stdin.read
                 PROVE  \/ KindOf(line) = "blank" \/ line \in done \cup dropped
                        \/ \E i \in DOMAIN steering' : steering'[i] = line
                        \/ \E i \in DOMAIN followUp : followUp[i] = line
                        \/ reader.pc = "line" /\ line = reader.line
                        \/ line = first
      BY <1>1, <1>2, <2>5, <2>6 DEF Somewhere
    <3>1. CASE \E i \in DOMAIN steering : steering[i] = line
      <4>1. PICK i \in DOMAIN steering : steering[i] = line
        BY <3>1
      <4>2. CASE i = 1
        BY <4>1, <4>2 DEF first
      <4>3. CASE i # 1
        <5>1. i - 1 \in DOMAIN steering' /\ steering'[i - 1] = steering[i]
          BY <2>3, <4>3
        <5> QED
          BY <4>1, <5>1
      <4> QED
        BY <4>2, <4>3
    <3> QED
      BY <1>1, <3>1 DEF QueueInv, Somewhere
  <2>11. Before(first) \subseteq done \cup dropped
    <3> SUFFICES ASSUME NEW e \in Before(first)
                 PROVE  e \in done \cup dropped
      OBVIOUS
    <3>1. e \in 1..stdin.read /\ e < first /\ KindOf(e) # "blank" /\ Steers(e)
      BY <2>2, <2>4 DEF Before
    <3>2. ASSUME NEW i \in DOMAIN steering
          PROVE  steering[i] # e
      <4>1. CASE i = 1
        BY <2>4, <3>1, <4>1 DEF first
      <4>2. CASE i # 1
        <5>1. first < steering[i]
          BY <2>4, <4>2
        <5> QED
          BY <2>4, <3>1, <5>1
      <4> QED
        BY <4>1, <4>2
    <3>3. ~ \E i \in DOMAIN followUp : followUp[i] = e
      BY <3>1 DEF QueueInv, Ordered
    <3>4. ~(reader.pc = "line" /\ e = reader.line)
      BY <2>2, <2>4, <3>1 DEF QueueInv, LinesTyped
    <3> QED
      BY <1>1, <3>1, <3>2, <3>3, <3>4 DEF QueueInv, Somewhere
  <2>12. InTurn'
    BY <1>1, <1>2, <2>4, <2>5, <2>11 DEF QueueInv, InTurn, Before
  <2>13. LinesCounted'
    <3>1. reader.pc = "count" => followUp # <<>> /\ followUp[Len(followUp)] = reader.line
      BY <2>1 DEF QueueInv, LinesCounted
    <3>2. pending' = Len(steering') + Len(followUp) - (IF reader.pc = "count" THEN 1 ELSE 0)
      BY <2>1, <2>3 DEF QueueInv, LinesCounted
    <3> QED
      BY <1>1, <1>2, <2>1, <3>1, <3>2 DEF LinesCounted
  <2>14. SeenDone'
    BY <1>1, <1>2 DEF QueueInv, SeenDone
  <2> QED
    BY <2>7, <2>8, <2>9, <2>10, <2>12, <2>13, <2>14 DEF QueueInv
<1> QED
  BY <1>3, <1>4 DEF PopSteering

LEMMA FollowUpTaken ==
  ASSUME FieldsKept, QueueInv, PopFollowUp
  PROVE  QueueInv'
<1>1. /\ UNCHANGED <<chat, stdin, reader, steering, dropped, done, seen>>
      /\ loop.pc \in {"fastText", "wokenText"} /\ ~InHand
  BY DEF PopFollowUp, Looping, LoopAt, InHand, OfTurn, OfSave
<1>2. \A line : KindOf(line)' = KindOf(line) /\ (Steers(line)' <=> Steers(line))
  BY <1>1 DEF KindOf, Steers
<1>3. CASE UNCHANGED <<followUp, pending>> /\ LoopGoes(IF loop.pc = "fastText" THEN "wait" ELSE "none")
  <2>1. loop'.pc \in {"wait", "none"} /\ loop'.line = loop.line
    BY <1>3 DEF LoopGoes, FieldsKept, LoopFields
  <2>2. LinesTyped'
    BY <1>1, <1>3 DEF QueueInv, LinesTyped
  <2> QED
    BY <1>1, <1>3, <2>1, <2>2, LinesStay DEF InHand, OfTurn, OfSave, queueVars
<1>4. CASE PopsFrom(followUp, FALSE) /\ followUp' = Tail(followUp)
  <2>1. /\ followUp # <<>> /\ (reader.pc = "count" => Steers(reader.line)) /\ pending' = pending - 1
        /\ loop'.pc = "handle" /\ loop'.line = Head(followUp)
    BY <1>4 DEF PopsFrom, Locked, FieldsKept, LoopFields, Steers
  <2>2. followUp \in Seq(Nat) /\ steering \in Seq(Nat) /\ stdin.read \in Nat
    BY DEF QueueInv, LinesTyped
  <2>3. /\ Head(followUp) = followUp[1] /\ Len(followUp) \in Nat \ {0} /\ Len(steering) \in Nat
        /\ DOMAIN followUp = 1..Len(followUp)
        /\ followUp' \in Seq(Nat) /\ Len(followUp') = Len(followUp) - 1
        /\ DOMAIN followUp' = 1..Len(followUp)-1
        /\ \A i \in 1..Len(followUp)-1 : followUp'[i] = followUp[i+1]
    BY <1>4, <2>1, <2>2, HeadTailProperties, LenProperties
  <2> DEFINE first == followUp[1]
  <2>4. /\ first \in 1..stdin.read /\ (reader.pc = "line" => first < stdin.read)
        /\ KindOf(first) # "blank" /\ ~Steers(first)
        /\ \A i \in DOMAIN followUp : i # 1 => first < followUp[i]
    BY <2>3 DEF QueueInv, Ordered
  <2>5. loop'.line = first
    BY <2>1, <2>3
  <2>6. InHand'
    BY <2>1 DEF InHand
  <2> HIDE DEF first
  <2>7. LinesTyped'
    BY <1>1, <2>3 DEF QueueInv, LinesTyped
  <2>8. Ordered(followUp, FALSE)'
    <3>1. \A i \in DOMAIN followUp' : i + 1 \in DOMAIN followUp
      BY <2>3
    <3>2. \A i \in DOMAIN followUp' : /\ followUp'[i] \in 1..stdin.read
                                      /\ reader.pc = "line" => followUp'[i] < stdin.read
                                      /\ KindOf(followUp'[i]) # "blank" /\ ~Steers(followUp'[i])
      BY <2>3, <3>1 DEF QueueInv, Ordered
    <3>3. \A i, j \in DOMAIN followUp' : i < j => followUp'[i] < followUp'[j]
      <4> SUFFICES ASSUME NEW i \in DOMAIN followUp', NEW j \in DOMAIN followUp', i < j
                   PROVE  followUp'[i] < followUp'[j]
        OBVIOUS
      <4>1. i + 1 < j + 1
        BY <2>3
      <4> QED
        BY <2>3, <3>1, <4>1 DEF QueueInv, Ordered
    <3> QED
      BY <1>1, <1>2, <3>2, <3>3 DEF Ordered
  <2>9. Ordered(steering, TRUE)'
    BY <1>1, <1>2 DEF QueueInv, Ordered
  <2>10. Somewhere'
    <3> SUFFICES ASSUME NEW line \in 1..stdin.read
                 PROVE  \/ KindOf(line) = "blank" \/ line \in done \cup dropped
                        \/ \E i \in DOMAIN followUp' : followUp'[i] = line
                        \/ \E i \in DOMAIN steering : steering[i] = line
                        \/ reader.pc = "line" /\ line = reader.line
                        \/ line = first
      BY <1>1, <1>2, <2>5, <2>6 DEF Somewhere
    <3>1. CASE \E i \in DOMAIN followUp : followUp[i] = line
      <4>1. PICK i \in DOMAIN followUp : followUp[i] = line
        BY <3>1
      <4>2. CASE i = 1
        BY <4>1, <4>2 DEF first
      <4>3. CASE i # 1
        <5>1. i - 1 \in DOMAIN followUp' /\ followUp'[i - 1] = followUp[i]
          BY <2>3, <4>3
        <5> QED
          BY <4>1, <5>1
      <4> QED
        BY <4>2, <4>3
    <3> QED
      BY <1>1, <3>1 DEF QueueInv, Somewhere
  <2>11. Before(first) \subseteq done \cup dropped
    <3> SUFFICES ASSUME NEW e \in Before(first)
                 PROVE  e \in done \cup dropped
      OBVIOUS
    <3>1. e \in 1..stdin.read /\ e < first /\ KindOf(e) # "blank" /\ ~Steers(e)
      BY <2>2, <2>4 DEF Before
    <3>2. ASSUME NEW i \in DOMAIN followUp
          PROVE  followUp[i] # e
      <4>1. CASE i = 1
        BY <2>4, <3>1, <4>1 DEF first
      <4>2. CASE i # 1
        <5>1. first < followUp[i]
          BY <2>4, <4>2
        <5> QED
          BY <2>4, <3>1, <5>1
      <4> QED
        BY <4>1, <4>2
    <3>3. ~ \E i \in DOMAIN steering : steering[i] = e
      BY <3>1 DEF QueueInv, Ordered
    <3>4. ~(reader.pc = "line" /\ e = reader.line)
      BY <2>2, <2>4, <3>1 DEF QueueInv, LinesTyped
    <3> QED
      BY <1>1, <3>1, <3>2, <3>3, <3>4 DEF QueueInv, Somewhere
  <2>12. InTurn'
    BY <1>1, <1>2, <2>4, <2>5, <2>11 DEF QueueInv, InTurn, Before
  <2>13. LinesCounted'
    <3>1. reader.pc = "count" => steering # <<>> /\ steering[Len(steering)] = reader.line
      BY <2>1 DEF QueueInv, LinesCounted
    <3>2. pending' = Len(followUp') + Len(steering) - (IF reader.pc = "count" THEN 1 ELSE 0)
      BY <2>1, <2>3 DEF QueueInv, LinesCounted
    <3> QED
      BY <1>1, <1>2, <2>1, <3>1, <3>2 DEF LinesCounted
  <2>14. SeenDone'
    BY <1>1, <1>2 DEF QueueInv, SeenDone
  <2> QED
    BY <2>7, <2>8, <2>9, <2>10, <2>12, <2>13, <2>14 DEF QueueInv
<1> QED
  BY <1>3, <1>4 DEF PopFollowUp

\* When the loop finds nothing counted, all it could have seen is handled.
LEMMA NothingWaits ==
  ASSUME FieldsKept, QueueInv, loop.pc \in {"wait", "ready"}, pending = 0,
         UNCHANGED <<chat, done, dropped>>, seen' = LastIn
  PROVE  SeenDone'
<1>1. \A line : KindOf(line)' = KindOf(line) /\ (Steers(line)' <=> Steers(line))
  BY DEF KindOf, Steers
<1>2. /\ steering \in Seq(Nat) /\ followUp \in Seq(Nat) /\ stdin.read \in Nat
      /\ Len(steering) \in Nat /\ Len(followUp) \in Nat
      /\ DOMAIN steering = 1..Len(steering) /\ DOMAIN followUp = 1..Len(followUp)
      /\ (reader.pc \in {"line", "count"} => reader.line = stdin.read)
  BY LenProperties DEF QueueInv, LinesTyped
<1>3. ~InHand /\ loop.pc # "crashed"
  BY DEF InHand, OfTurn, OfSave
<1>4. LastIn = IF reader.pc \in {"line", "count"} THEN stdin.read - 1 ELSE stdin.read
  BY <1>2 DEF LastIn
<1>5. ASSUME NEW line \in 1..LastIn, KindOf(line) # "blank"
      PROVE  line \in done \cup dropped
  <2>1. line \in 1..stdin.read /\ (reader.pc \in {"line", "count"} => line < stdin.read)
    BY <1>2, <1>4, <1>5
  <2>2. ~ \E i \in DOMAIN steering : steering[i] = line
    <3>1. CASE reader.pc = "count" /\ Steers(reader.line)
      <4>1. Len(steering) + Len(followUp) - 1 = 0
        BY <3>1 DEF QueueInv, LinesCounted
      <4>2. steering # <<>> /\ steering[Len(steering)] = reader.line
        BY <3>1 DEF QueueInv, LinesCounted
      <4>3. Len(steering) # 0
        BY <1>2, <4>2, EmptySeq
      <4>4. Len(steering) = 1
        BY <1>2, <4>1, <4>3
      <4> QED
        BY <1>2, <2>1, <3>1, <4>2, <4>4
    <3>2. CASE reader.pc = "count" /\ ~Steers(reader.line)
      <4>1. Len(steering) + Len(followUp) - 1 = 0
        BY <3>2 DEF QueueInv, LinesCounted
      <4>2. followUp # <<>>
        BY <3>2 DEF QueueInv, LinesCounted
      <4>3. Len(followUp) # 0
        BY <1>2, <4>2, EmptySeq
      <4>4. Len(steering) = 0
        BY <1>2, <4>1, <4>3
      <4> QED
        BY <1>2, <4>4
    <3>3. CASE reader.pc # "count"
      <4>1. Len(steering) + Len(followUp) - 0 = 0
        BY <3>3 DEF QueueInv, LinesCounted
      <4> QED
        BY <1>2, <4>1
    <3> QED
      BY <3>1, <3>2, <3>3
  <2>3. ~ \E i \in DOMAIN followUp : followUp[i] = line
    <3>1. CASE reader.pc = "count" /\ ~Steers(reader.line)
      <4>1. Len(steering) + Len(followUp) - 1 = 0
        BY <3>1 DEF QueueInv, LinesCounted
      <4>2. followUp # <<>> /\ followUp[Len(followUp)] = reader.line
        BY <3>1 DEF QueueInv, LinesCounted
      <4>3. Len(followUp) # 0
        BY <1>2, <4>2, EmptySeq
      <4>4. Len(followUp) = 1
        BY <1>2, <4>1, <4>3
      <4> QED
        BY <1>2, <2>1, <3>1, <4>2, <4>4
    <3>2. CASE reader.pc = "count" /\ Steers(reader.line)
      <4>1. Len(steering) + Len(followUp) - 1 = 0
        BY <3>2 DEF QueueInv, LinesCounted
      <4>2. steering # <<>>
        BY <3>2 DEF QueueInv, LinesCounted
      <4>3. Len(steering) # 0
        BY <1>2, <4>2, EmptySeq
      <4>4. Len(followUp) = 0
        BY <1>2, <4>1, <4>3
      <4> QED
        BY <1>2, <4>4
    <3>3. CASE reader.pc # "count"
      <4>1. Len(steering) + Len(followUp) - 0 = 0
        BY <3>3 DEF QueueInv, LinesCounted
      <4> QED
        BY <1>2, <4>1
    <3> QED
      BY <3>1, <3>2, <3>3
  <2>4. ~(reader.pc = "line" /\ line = reader.line)
    BY <1>2, <2>1
  <2> QED
    BY <1>3, <1>5, <2>1, <2>2, <2>3, <2>4 DEF QueueInv, Somewhere
<1> QED
  BY <1>1, <1>5 DEF SeenDone

\* The line in hand is done.
LEMMA LineDone ==
  ASSUME FieldsKept, QueueInv, InHand, done' = done \cup {loop.line}, ~InHand',
         UNCHANGED <<chat, stdin, reader, queueVars, seen>>, loop.pc # "crashed"
  PROVE  QueueInv'
<1>1. \A line : KindOf(line)' = KindOf(line) /\ (Steers(line)' <=> Steers(line))
  BY DEF KindOf, Steers
<1>2. LinesTyped'
  BY DEF QueueInv, LinesTyped, queueVars
<1>3. Ordered(steering, TRUE)' /\ Ordered(followUp, FALSE)'
  BY <1>1 DEF QueueInv, Ordered, queueVars
<1>4. Somewhere'
  BY <1>1 DEF QueueInv, Somewhere, queueVars
<1>5. InTurn'
  BY <1>1 DEF QueueInv, InTurn, Before, queueVars
<1>6. LinesCounted' /\ SeenDone'
  BY <1>1 DEF QueueInv, LinesCounted, SeenDone, queueVars
<1> QED
  BY <1>2, <1>3, <1>4, <1>5, <1>6 DEF QueueInv

LEMMA BetweenLines ==
  ASSUME FieldsKept, QueueInv, Between
  PROVE  QueueInv'
<1>1. /\ UNCHANGED <<chat, stdin, reader>> /\ loop.pc \in OfLoop /\ loop'.pc \in OfLoop \cup {"save"}
      /\ DOMAIN loop = LoopFields
  BY BetweenMoves DEF FieldsKept
<1>2. CASE MainLooks \/ NothingCame
  <2>1. UNCHANGED <<queueVars, done, seen>>
    BY <1>2 DEF MainLooks, NothingCame
  <2>2. ~InHand /\ ~InHand' /\ loop'.line = loop.line
    BY <1>1, <1>2 DEF MainLooks, NothingCame, LoopAt, LoopGoes, LoopEnds, LoopFields, InHand, OfTurn,
                      OfSave
  <2>3. LinesTyped'
    BY <1>1, <2>1 DEF QueueInv, LinesTyped, queueVars
  <2> QED
    BY <1>1, <2>1, <2>2, <2>3, LinesStay DEF OfLoop
<1>3. CASE WaitForInput \/ AfterWait
  <2>1. UNCHANGED <<queueVars, done>> /\ loop.pc \in {"wait", "ready"}
    BY <1>3 DEF WaitForInput, AfterWait, LoopAt
  <2>2. ~InHand /\ ~InHand' /\ loop'.line = loop.line
    BY <1>1, <1>3 DEF WaitForInput, AfterWait, LoopAt, LoopGoes, LoopFields, InHand, OfTurn, OfSave
  <2>3. LinesTyped'
    BY <1>1, <2>1 DEF QueueInv, LinesTyped, queueVars
  <2>4. seen' = seen \/ (pending = 0 /\ seen' = LastIn)
    <3>1. pending \in Int
      <4>1. Len(steering) \in Nat /\ Len(followUp) \in Nat
        BY LenProperties DEF QueueInv, LinesTyped
      <4> QED
        BY <4>1 DEF QueueInv, LinesCounted
    <3>2. pending >= 0
      <4>1. /\ Len(steering) \in Nat /\ Len(followUp) \in Nat
            /\ (Len(steering) = 0 => steering = <<>>) /\ (Len(followUp) = 0 => followUp = <<>>)
        BY LenProperties, EmptySeq DEF QueueInv, LinesTyped
      <4>2. reader.pc = "count" => Len(steering) + Len(followUp) >= 1
        BY <4>1 DEF QueueInv, LinesCounted
      <4> QED
        BY <4>1, <4>2 DEF QueueInv, LinesCounted
    <3> QED
      BY <1>3, <3>1, <3>2 DEF WaitForInput, AfterWait, OverAfterWait
  <2>5. seen' = seen \/ SeenDone'
    BY <1>1, <2>1, <2>4, NothingWaits DEF queueVars
  <2> QED
    BY <1>1, <2>1, <2>2, <2>3, <2>5, LinesStay DEF OfLoop
<1>4. CASE HandleSteering
  <2>1. /\ UNCHANGED <<queueVars, seen>> /\ loop.pc = "handle" /\ done' = done \cup {loop.line}
        /\ loop'.pc = "top" \/ (loop'.pc = "save" /\ loop'.why = "exit")
    BY <1>1, <1>4 DEF HandleSteering, LoopAt, LoopGoes, LoopEnds, LoopFields
  <2>2. InHand /\ ~InHand'
    BY <2>1 DEF InHand, OfTurn, OfSave
  <2> QED
    BY <1>1, <2>1, <2>2, LineDone
<1> QED
  BY <1>2, <1>3, <1>4, SteeringTaken, FollowUpTaken DEF Between

LEMMA LinesKeep ==
  ASSUME FieldsKept, QueueInv, ChatNext
  PROVE  QueueInv'
<1>0. SUFFICES ASSUME ~Between, ~(BeginLine \/ EndLine \/ CloseStdin),
               ~(\/ ReaderStarts \/ ReaderRegisters \/ ReaderStores \/ ReaderGuards \/ ReaderAsks
                 \/ ReaderPolls \/ ReaderGetsNone \/ ReaderExits),
               ~ReaderGets, ~ReaderPushes, ~ReaderCounts
               PROVE  QueueInv'
  BY BetweenLines, LinesTypedIn, LinesAwait, LineGot, LinePushed, LineCounted
<1>T. UNCHANGED <<chat, reader, queueVars>> /\ stdin'.sent = stdin.sent /\ stdin'.fetched = stdin.fetched
      /\ stdin'.read = stdin.read /\ stdin'.begun = stdin.begun => LinesTyped'
  BY DEF QueueInv, LinesTyped, queueVars
<1>1. CASE Signal \/ CallbackEnters \/ ChatElapses
  <2>1. UNCHANGED <<chat, stdin, reader, queueVars, loop, done, seen>>
    BY <1>1 DEF Signal, CallbackEnters, Ending, ChatElapses, chatVars
  <2> QED
    BY <1>T, <2>1, LinesStay DEF InHand
<1>2. CASE AgentAnswersItself \/ AgentLooks \/ AgentRuns \/ ToolThrows
  <2>1. InHand /\ InHand'
    BY <1>2, ToolMoves DEF InHand, OfTool, OfTurn
  <2> QED
    BY <1>T, <1>2, <2>1, ToolMoves, LinesStay DEF OfTool
<1>3. CASE SaveWrites \/ SaveRenames
  <2>1. loop.pc \in OfSave /\ UNCHANGED done /\ loop'.pc # "crashed"
    BY <1>3, KeepingMoves DEF SaveWrites, SaveRenames, Saving, LoopAt, OfSave, Keeping
  <2>2. InHand' <=> InHand
    BY <1>3, <2>1, KeepingMoves DEF InHand, OfSave, OfTurn, Keeping
  <2> QED
    BY <1>T, <1>3, <2>1, <2>2, KeepingMoves, LinesStay DEF Keeping, OfSave
<1>4. CASE RecordUser
  <2>1. loop.pc = "record" /\ loop'.pc \in {"answer", "crashed"} /\ UNCHANGED done
    BY <1>4 DEF RecordUser, TurnRecords, LoopAt, LoopGoes, FieldsKept, LoopFields
  <2> QED
    BY <1>T, <1>4, <2>1, KeepingMoves, LinesStay DEF Keeping, InHand, OfTurn, OfSave
<1>5. CASE RecordAnswer
  <2>1. /\ loop.pc = "answer" /\ loop'.pc \in {"top", "crashed"}
        /\ done' = done \cup {loop.line}
    BY <1>5 DEF RecordAnswer, TurnRecords, LoopAt, LoopGoes, FieldsKept, LoopFields
  <2>2. InHand /\ ~InHand'
    BY <2>1 DEF InHand, OfTurn, OfSave
  <2> QED
    BY <1>5, <2>1, <2>2, KeepingMoves, LineDone DEF Keeping
<1>6. CASE TurnBegins \/ TurnPublishes \/ TurnUnregisters \/ TurnClears
  <2>1. InHand
    BY <1>6, TurnMoves DEF InHand, OfTurn
  <2>2. InHand'
    <3>1. loop.pc \in OfLoop \cup OfTurn
      BY <1>6, TurnMoves DEF OfLoop, OfTurn
    <3>2. loop'.why = "none"
      BY <1>6, <3>1, TurnMoves DEF FieldsKept
    <3> QED
      BY <1>6, <3>2, TurnMoves DEF InHand, OfTurn, OfSave
  <2> QED
    BY <1>T, <1>6, <2>1, <2>2, TurnMoves, LinesStay
<1>7. CASE AskStop \/ ResolveSource \/ StopSource
  BY <1>T, <1>7, AskerMoves, LinesStay DEF InHand
<1>8. CASE Destructor \/ CallbackLeaves
  <2>1. /\ stdin'.sent = stdin.sent /\ stdin'.fetched = stdin.fetched /\ stdin'.read = stdin.read
        /\ stdin'.begun = stdin.begun
    BY <1>8 DEF Destructor, DestroyCancels, DestroyChecks, DestroyBlocks, DestroyUnsets, DestroyCloses,
       DestroyJoins, CallbackLeaves, FieldsKept, StdinFields
  <2>2. InHand' <=> InHand
    BY <1>8, EndingMoves DEF InHand, Ended, OfTurn, OfSave
  <2>3. loop'.pc # "crashed" => loop.pc # "crashed"
    BY <1>8, EndingMoves DEF Ended
  <2> QED
    BY <1>T, <1>8, <2>1, <2>2, <2>3, EndingMoves, LinesStay
<1>9. CASE Kill \/ ReaderCrashes
  <2>1. ~InHand'
    BY <1>9, CrashMoves DEF InHand, OfTurn, OfSave
  <2> QED
    BY <1>T, <1>9, <2>1, CrashMoves, LinesStay
<1>10. CASE Relaunch
  <2>1. Len(chat.lines) \in Nat
    BY ChatAssumption, LenProperties DEF FieldsKept, ChatSetup
  <2>2. LinesTyped'
    BY <1>10, <2>1, RelaunchMoves DEF LinesTyped
  <2>3. ~InHand'
    BY <1>10, RelaunchMoves DEF InHand, OfTurn, OfSave
  <2>4. Ordered(steering, TRUE)' /\ Ordered(followUp, FALSE)'
    BY <1>10, RelaunchMoves DEF Ordered
  <2>5. LinesCounted'
    <3>1. Len(<<>>) = 0
      OBVIOUS
    <3> QED
      BY <1>10, <3>1, RelaunchMoves DEF LinesCounted
  <2>6. Somewhere' /\ InTurn' /\ SeenDone'
    BY <1>10, <2>3, RelaunchMoves DEF Somewhere, InTurn, SeenDone
  <2> QED
    BY <2>2, <2>4, <2>5, <2>6 DEF QueueInv
<1> QED
  BY <1>0, <1>1, <1>2, <1>3, <1>4, <1>5, <1>6, <1>7, <1>8, <1>9, <1>10, ChatStep DEF Aside, Keeping

LEMMA InOrderOfKind ==
  ASSUME QueueInv
  PROVE  NothingOverlooked
<1>1. ASSUME NEW line \in done, NEW earlier \in 1..(line - 1), KindOf(earlier) = KindOf(line)
      PROVE  earlier \in done \cup dropped
  <2>1. earlier \in Before(line)
    BY <1>1 DEF QueueInv, InTurn, Before, Steers
  <2> QED
    BY <2>1 DEF QueueInv, InTurn
<1> QED
  BY <1>1 DEF NothingOverlooked, QueueInv, SeenDone

-----------------------------------------------------------------------------
(* What the session keeps.                                                 *)

Message == [turn : Nat, role : {"user", "assistant"}]

\* The answered turns of a history that are not in the records, or not wholly.
MissingFrom(history, lines, from) ==
  {t \in AnsweredTurns(history) : t > from /\ ~({Of(t, "user"), Of(t, "assistant")} \subseteq lines)}

\* A turn that is answered, and whose records are still to be written.
UnderWay ==
  IF loop.pc \in {"record", "answer"} \/ (loop.pc \in OfSave /\ loop.why = "none") THEN {loop.turn} ELSE {}

\* The turns that mishaps may have cost, and n more.
Afford(history, n) == Cardinality(MissingFrom(history, records, cut) \ UnderWay) + n <= 2 * mishaps

StoreTyped ==
  /\ mishaps \in Nat /\ launched \in Nat /\ since \in Nat /\ cut \in Nat
  /\ torn \in BOOLEAN /\ onMain \in BOOLEAN
  /\ messages \in Seq(Message) /\ tmp.history \in Seq(Message) /\ file.history \in Seq(Message)
  /\ records \subseteq Message /\ indexed \subseteq Message

NoLater(history, turn) == \A i \in DOMAIN history : history[i].turn <= turn

\* The turn under way is not in the file before it is saved.
Unsaved ==
  \/ loop.pc \in {"publish", "turn", "run", "unregister", "clear"}
  \/ loop.pc \in OfSave /\ loop.why = "none"

Timely ==
  /\ NoLater(messages, loop.turn) /\ NoLater(file.history, loop.turn)
  /\ Unsaved => loop.turn \notin AnsweredTurns(file.history)

Torn == IF torn THEN 1 ELSE 0
Affordable == Afford(messages, Torn) /\ Afford(file.history, Torn)

Filed ==
  /\ ours /\ file.whole /\ loop.pc # "crashed" => IsPrefix(file.history, messages)
  /\ loop.pc = "rename" => tmp.history = messages /\ (tmp.whole \/ chat.disk)
  /\ file.whole => reported \subseteq AnsweredTurns(file.history)
  /\ ours /\ loop.pc # "crashed" => reported \subseteq AnsweredTurns(messages)
  /\ ~file.whole => chat.disk \/ launched > 0

\* The user's record is written, or is torn in with what a crash left.
HalfRecorded ==
  loop.pc = "answer" =>
    /\ ~torn
    /\ \/ Of(loop.turn, "user") \in records
       \/ Afford(messages, 1) /\ Afford(file.history, 1)

\* The index has the records of this launch, which a compaction on the main branch keeps.
IndexKnows ==
  /\ since <= loop.turn /\ cut <= loop.turn
  /\ onMain => cut <= since
  /\ \A m \in records \cup indexed : m.turn <= loop.turn
  /\ \A m \in records : m.turn > since => m \in indexed

StoreInv == StoreTyped /\ Timely /\ Affordable /\ Filed /\ HalfRecorded /\ IndexKnows

LEMMA AnsweredWithin ==
  ASSUME NEW history \in Seq(Message), NEW n \in Nat, NoLater(history, n)
  PROVE  AnsweredTurns(history) \subseteq 0..n /\ IsFiniteSet(AnsweredTurns(history))
<1>1. AnsweredTurns(history) \subseteq 0..n
  <2> SUFFICES ASSUME NEW t \in AnsweredTurns(history)
               PROVE  t \in 0..n
    OBVIOUS
  <2>1. PICK i \in DOMAIN history : t = history[i].turn
    BY DEF AnsweredTurns
  <2>2. history[i] \in Message
    BY <2>1, ElementOfSeq, LenProperties
  <2> QED
    BY <2>1, <2>2 DEF NoLater, Message
<1>2. IsFiniteSet(0..n)
  BY FS_Interval
<1> QED
  BY <1>1, <1>2, FS_Subset

LEMMA AnsweredAfter ==
  ASSUME NEW history \in Seq(Message), NEW t \in Nat, NEW role \in {"user", "assistant"}
  PROVE  /\ Append(history, Of(t, role)) \in Seq(Message)
         /\ AnsweredTurns(Append(history, Of(t, role)))
              \subseteq AnsweredTurns(history) \cup (IF role = "assistant" THEN {t} ELSE {})
         /\ AnsweredTurns(history) \subseteq AnsweredTurns(Append(history, Of(t, role)))
         /\ \A n \in Nat : t <= n /\ NoLater(history, n) => NoLater(Append(history, Of(t, role)), n)
<1>1. PICK m : m = Of(t, role)
  OBVIOUS
<1>2. m \in Message /\ m.turn = t /\ m.role = role
  BY <1>1 DEF Of, Message
<1>3. PICK g : g = Append(history, m)
  OBVIOUS
<1>4. /\ g \in Seq(Message) /\ Len(history) \in Nat /\ DOMAIN history = 1..Len(history)
      /\ DOMAIN g = 1..Len(history)+1
      /\ \A i \in 1..Len(history) : g[i] = history[i]
      /\ g[Len(history)+1] = m
  BY <1>2, <1>3, AppendProperties, LenProperties
<1>5. ASSUME NEW x \in AnsweredTurns(g)
      PROVE  x \in AnsweredTurns(history) \/ (role = "assistant" /\ x = t)
  <2>1. PICK i \in DOMAIN g : /\ g[i].role = "assistant" /\ x = g[i].turn
                             /\ \E k \in 1..(i - 1) : g[k] = Of(g[i].turn, "user")
    BY DEF AnsweredTurns
  <2>2. CASE i = Len(history) + 1
    BY <1>2, <1>4, <2>1, <2>2
  <2>3. CASE i \in 1..Len(history)
    <3>1. g[i] = history[i] /\ \E k \in 1..(i - 1) : history[k] = Of(history[i].turn, "user")
      <4>1. \A k \in 1..(i - 1) : g[k] = history[k]
        BY <1>4, <2>3
      <4> QED
        BY <1>4, <2>1, <2>3, <4>1
    <3> QED
      BY <1>4, <2>1, <2>3, <3>1 DEF AnsweredTurns
  <2> QED
    BY <1>4, <2>2, <2>3
<1>6. \A n \in Nat : t <= n /\ NoLater(history, n) => NoLater(g, n)
  BY <1>2, <1>4 DEF NoLater
<1>7. ASSUME NEW x \in AnsweredTurns(history)
      PROVE  x \in AnsweredTurns(g)
  <2>1. PICK i \in DOMAIN history : /\ history[i].role = "assistant" /\ x = history[i].turn
                                   /\ \E k \in 1..(i - 1) : history[k] = Of(history[i].turn, "user")
    BY <1>7 DEF AnsweredTurns
  <2>2. /\ i \in DOMAIN g /\ g[i] = history[i]
        /\ \E k \in 1..(i - 1) : g[k] = Of(g[i].turn, "user")
    BY <1>4, <2>1
  <2> QED
    BY <2>1, <2>2 DEF AnsweredTurns
<1> QED
  BY <1>1, <1>3, <1>4, <1>5, <1>6, <1>7

LEMMA PrefixOfAppend ==
  ASSUME NEW S, NEW s \in Seq(S), NEW t \in Seq(S), NEW e \in S, IsPrefix(s, t)
  PROVE  IsPrefix(s, Append(t, e))
<1>1. /\ Len(s) \in Nat /\ Len(t) \in Nat /\ Len(Append(t, e)) = Len(t) + 1 /\ Len(s) <= Len(t)
      /\ \A i \in 1..Len(t) : Append(t, e)[i] = t[i]
      /\ \A i \in 1..Len(t) : t[i] \in S
  BY AppendProperties, LenProperties, ElementOfSeq DEF IsPrefix
<1>2. \A i \in 1..Len(s) : Append(t, e)[i] = t[i] /\ t[i] \in S
  BY <1>1
<1>3. SubSeq(Append(t, e), 1, Len(s)) = SubSeq(t, 1, Len(s))
  <2>1. PICK a : a = SubSeq(Append(t, e), 1, Len(s))
    OBVIOUS
  <2>2. PICK b : b = SubSeq(t, 1, Len(s))
    OBVIOUS
  <2>3. /\ a \in Seq(S) /\ Len(a) = Len(s) /\ b \in Seq(S) /\ Len(b) = Len(s)
        /\ \A i \in 1..Len(s) : a[i] = Append(t, e)[i] /\ b[i] = t[i]
    <3>1. /\ a \in Seq(S) /\ Len(a) = (IF 1 <= Len(s) THEN Len(s) - 1 + 1 ELSE 0)
          /\ \A i \in 1..Len(s)-1+1 : a[i] = Append(t, e)[1+i-1]
      BY <1>1, <1>2, <2>1, SubSeqProperties
    <3>2. /\ b \in Seq(S) /\ Len(b) = (IF 1 <= Len(s) THEN Len(s) - 1 + 1 ELSE 0)
          /\ \A i \in 1..Len(s)-1+1 : b[i] = t[1+i-1]
      BY <1>1, <1>2, <2>2, SubSeqProperties
    <3>3. Len(s) - 1 + 1 = Len(s) /\ \A i \in 1..Len(s) : 1+i-1 = i
      BY <1>1
    <3> QED
      BY <1>1, <3>1, <3>2, <3>3
  <2>4. Len(a) = Len(b) /\ \A i \in 1..Len(a) : a[i] = b[i]
    BY <1>2, <2>3
  <2>5. a = b
    BY <2>3, <2>4, SeqEqual
  <2> QED
    BY <2>1, <2>2, <2>5
<1> QED
  BY <1>1, <1>3 DEF IsPrefix

LEMMA Fewer ==
  ASSUME NEW S, IsFiniteSet(S), NEW T, T \subseteq S
  PROVE  Cardinality(T) \in Nat /\ Cardinality(S) \in Nat /\ Cardinality(T) <= Cardinality(S) /\ IsFiniteSet(T)
BY FS_Subset, FS_CardinalityType

LEMMA OneMoreAtMost ==
  ASSUME NEW S, IsFiniteSet(S), NEW x, NEW T, T \subseteq S \cup {x}
  PROVE  Cardinality(T) \in Nat /\ Cardinality(S) \in Nat /\ Cardinality(T) <= Cardinality(S) + 1
<1>1. IsFiniteSet(S \cup {x}) /\ Cardinality(S \cup {x}) <= Cardinality(S) + 1 /\ Cardinality(S) \in Nat
  BY FS_AddElement, FS_CardinalityType
<1> QED
  BY <1>1, Fewer

\* What is missing from the records is finite.
LEMMA MissingFinite ==
  ASSUME StoreTyped, Timely, FieldsKept
  PROVE  /\ IsFiniteSet(MissingFrom(messages, records, cut) \ UnderWay)
         /\ IsFiniteSet(MissingFrom(file.history, records, cut) \ UnderWay)
<1>1. IsFiniteSet(AnsweredTurns(messages)) /\ IsFiniteSet(AnsweredTurns(file.history))
  BY AnsweredWithin DEF StoreTyped, Timely, FieldsKept
<1> QED
  BY <1>1, FS_Subset DEF MissingFrom

\* Steps that leave the store as it is.
LEMMA StoreStays ==
  ASSUME FieldsKept, StoreInv, UNCHANGED <<storeVars, chat, launched>>, loop'.turn = loop.turn,
         UnderWay \subseteq UnderWay', Unsaved' => Unsaved,
         loop'.pc = "rename" => loop.pc = "rename", loop'.pc = "answer" => loop.pc = "answer",
         loop'.pc # "crashed" => loop.pc # "crashed"
  PROVE  StoreInv'
<1> USE DEF storeVars, diskVars, recordVars
<1>1. StoreTyped' /\ Timely' /\ Filed' /\ IndexKnows'
  <2>1. StoreTyped' /\ Timely'
    BY DEF StoreInv, StoreTyped, Timely
  <2>2. Filed' /\ IndexKnows'
    BY DEF StoreInv, Filed, IndexKnows
  <2> QED
    BY <2>1, <2>2
<1>2. Affordable' /\ HalfRecorded'
  <2>1. /\ MissingFrom(messages', records', cut') \ UnderWay' \subseteq MissingFrom(messages, records, cut) \ UnderWay
        /\ MissingFrom(file'.history, records', cut') \ UnderWay' \subseteq MissingFrom(file.history, records, cut) \ UnderWay
    OBVIOUS
  <2>2. /\ Cardinality(MissingFrom(messages', records', cut') \ UnderWay')
             <= Cardinality(MissingFrom(messages, records, cut) \ UnderWay)
        /\ Cardinality(MissingFrom(file'.history, records', cut') \ UnderWay')
             <= Cardinality(MissingFrom(file.history, records, cut) \ UnderWay)
        /\ Cardinality(MissingFrom(messages', records', cut') \ UnderWay') \in Nat
        /\ Cardinality(MissingFrom(messages, records, cut) \ UnderWay) \in Nat
        /\ Cardinality(MissingFrom(file'.history, records', cut') \ UnderWay') \in Nat
        /\ Cardinality(MissingFrom(file.history, records, cut) \ UnderWay) \in Nat
    BY <2>1, MissingFinite, Fewer DEF StoreInv
  <2>3. /\ Afford(messages, Torn) => Afford(messages, Torn)'
        /\ Afford(file.history, Torn) => Afford(file.history, Torn)'
    BY <2>2 DEF Afford, StoreInv, StoreTyped, Torn
  <2>4. /\ Afford(messages, 1) => Afford(messages, 1)'
        /\ Afford(file.history, 1) => Afford(file.history, 1)'
    BY <2>2 DEF Afford, StoreInv, StoreTyped
  <2> QED
    BY <2>3, <2>4 DEF StoreInv, Affordable, HalfRecorded
<1> QED
  BY <1>1, <1>2 DEF StoreInv

\* Steps of the records that a crash cuts short, and kills.
LEMMA StoreCrashes ==
  ASSUME FieldsKept, StoreInv, loop'.pc = "crashed", loop'.turn = loop.turn, loop'.why = loop.why,
         mishaps' = mishaps + 1, torn' \in {torn, TRUE},
         UNCHANGED <<messages, diskVars, records, indexed, onMain, since, cut, chat, launched>>
  PROVE  StoreInv'
<1> USE DEF diskVars
<1>1. StoreTyped' /\ Timely' /\ Filed' /\ HalfRecorded' /\ IndexKnows'
  <2>1. StoreTyped'
    <3>1. torn' \in BOOLEAN
      BY Zenon DEF StoreInv, StoreTyped
    <3> QED
      BY <3>1 DEF StoreInv, StoreTyped
  <2>2. Timely'
    BY DEF StoreInv, Timely, Unsaved, OfSave
  <2>3. Filed' /\ HalfRecorded' /\ IndexKnows'
    BY DEF StoreInv, Filed, HalfRecorded, IndexKnows
  <2> QED
    BY <2>1, <2>2, <2>3
<1>2. ASSUME NEW h \in {messages, file.history}, Afford(h, Torn)
      PROVE  Cardinality(MissingFrom(h, records, cut) \ UnderWay') + Torn' <= 2 * mishaps'
  <2>1. UnderWay' = {} /\ (UnderWay = {} \/ UnderWay = {loop.turn})
    BY DEF UnderWay, OfSave
  <2>2. MissingFrom(h, records, cut) \ UnderWay' \subseteq (MissingFrom(h, records, cut) \ UnderWay) \cup {loop.turn}
    BY <2>1
  <2>3. IsFiniteSet(MissingFrom(h, records, cut) \ UnderWay)
    BY <1>2, MissingFinite DEF StoreInv
  <2>4. PICK a : a = Cardinality(MissingFrom(h, records, cut) \ UnderWay')
    OBVIOUS
  <2>5. PICK b : b = Cardinality(MissingFrom(h, records, cut) \ UnderWay)
    OBVIOUS
  <2>6. a \in Nat /\ b \in Nat /\ a <= b + 1
    BY <2>2, <2>3, <2>4, <2>5, OneMoreAtMost
  <2>7. b + Torn <= 2 * mishaps
    BY <1>2, <2>5 DEF Afford
  <2>8. Torn \in {0, 1} /\ Torn' \in {0, 1} /\ mishaps \in Nat
    BY DEF Torn, StoreInv, StoreTyped
  <2>9. a + Torn' <= 2 * (mishaps + 1)
    <3>1. PICK u : u = Torn
      OBVIOUS
    <3>2. PICK v : v = Torn'
      OBVIOUS
    <3>3. u \in {0, 1} /\ v \in {0, 1} /\ b + u <= 2 * mishaps
      BY <2>7, <2>8, <3>1, <3>2
    <3>4. a + v <= 2 * (mishaps + 1)
      BY <2>6, <2>8, <3>3
    <3> QED
      BY <3>2, <3>4
  <2> QED
    BY <2>4, <2>9
<1>3. Affordable'
  BY <1>2 DEF Affordable, Afford, StoreInv
<1> QED
  BY <1>1, <1>3 DEF StoreInv

\* What is said, and is in the history.
LEMMA StoreSays ==
  ASSUME FieldsKept, StoreInv, TurnPublishes \/ (TurnClears /\ loop'.pc = "save")
  PROVE  StoreInv'
<1>1. /\ loop.turn \in Nat /\ loop'.turn = loop.turn /\ loop'.why = loop.why
      /\ UNCHANGED <<diskVars, recordVars, mishaps, chat, launched>>
      /\ \/ loop.pc = "publish" /\ loop'.pc = "turn" /\ messages' = Append(messages, Of(loop.turn, "user"))
         \/ loop.pc = "clear" /\ loop'.pc = "save" /\ messages' = Append(messages, Of(loop.turn, "assistant"))
            /\ loop'.why = "none"
  <2>1. loop.turn \in Nat /\ (loop.pc \in OfTurn => loop.why = "none")
    BY DEF FieldsKept
  <2>2. CASE TurnPublishes
    <3>1. loop.pc = "publish"
      BY <2>2 DEF TurnPublishes, LoopAt
    <3>2. loop'.pc = "turn" /\ Says(loop.turn, "user") /\ loop'.turn = loop.turn /\ loop'.why = loop.why
      BY <2>2, <3>1, TurnMoves
    <3>3. UNCHANGED <<chat, launched>>
      BY <2>2, TurnMoves
    <3> QED
      BY <2>1, <3>1, <3>2, <3>3 DEF Says
  <2>3. CASE TurnClears /\ loop'.pc = "save"
    <3>1. loop.pc = "clear"
      BY <2>3 DEF TurnClears, LoopAt
    <3>2. Says(loop.turn, "assistant") /\ loop'.turn = loop.turn /\ loop'.why = loop.why
      BY <2>3, <3>1, TurnMoves
    <3>3. UNCHANGED <<chat, launched>>
      BY <2>3, TurnMoves
    <3> QED
      BY <2>1, <2>3, <3>1, <3>2, <3>3 DEF Says, OfTurn
  <2> QED
    BY <2>2, <2>3
<1>2. PICK role \in {"user", "assistant"} : /\ messages' = Append(messages, Of(loop.turn, role))
                                            /\ role = "assistant" => UnderWay' = {loop.turn}
  BY <1>1 DEF UnderWay, OfSave
<1>3. Of(loop.turn, role) \in Message /\ messages \in Seq(Message)
  BY <1>1 DEF StoreInv, StoreTyped, Of, Message
<1>4. /\ messages' \in Seq(Message) /\ NoLater(messages', loop.turn)
      /\ AnsweredTurns(messages')
           \subseteq AnsweredTurns(messages) \cup (IF role = "assistant" THEN {loop.turn} ELSE {})
      /\ AnsweredTurns(messages) \subseteq AnsweredTurns(messages')
  <2>1. NoLater(messages, loop.turn) /\ loop.turn <= loop.turn
    BY <1>1 DEF StoreInv, Timely
  <2>2. /\ Append(messages, Of(loop.turn, role)) \in Seq(Message)
        /\ AnsweredTurns(Append(messages, Of(loop.turn, role)))
             \subseteq AnsweredTurns(messages) \cup (IF role = "assistant" THEN {loop.turn} ELSE {})
        /\ AnsweredTurns(messages) \subseteq AnsweredTurns(Append(messages, Of(loop.turn, role)))
        /\ NoLater(Append(messages, Of(loop.turn, role)), loop.turn)
    BY <1>1, <1>3, <2>1, AnsweredAfter, Zenon
  <2> QED
    BY <1>2, <2>2
<1>5. StoreTyped'
  BY <1>1, <1>4 DEF StoreInv, StoreTyped, diskVars, recordVars
<1>6. Timely'
  BY <1>1, <1>4 DEF StoreInv, Timely, Unsaved, OfSave, diskVars
<1>7. Filed'
  <2>1. ASSUME IsPrefix(file.history, messages)
        PROVE  IsPrefix(file.history, messages')
    <3>1. file.history \in Seq(Message)
      BY DEF StoreInv, StoreTyped
    <3>2. IsPrefix(file.history, Append(messages, Of(loop.turn, role)))
      BY <1>3, <2>1, <3>1, PrefixOfAppend
    <3> QED
      BY <1>2, <3>2
  <2>2. reported \subseteq AnsweredTurns(messages) => reported \subseteq AnsweredTurns(messages')
    BY <1>4
  <2> QED
    BY <1>1, <2>1, <2>2 DEF StoreInv, Filed, diskVars
<1>8. Affordable'
  <2>1. UnderWay = {}
    BY <1>1 DEF UnderWay, OfSave
  <2>2. /\ MissingFrom(messages', records, cut) \ UnderWay' \subseteq MissingFrom(messages, records, cut) \ UnderWay
        /\ MissingFrom(file.history, records, cut) \ UnderWay' \subseteq MissingFrom(file.history, records, cut) \ UnderWay
    <3>1. AnsweredTurns(messages') \ UnderWay' \subseteq AnsweredTurns(messages)
      BY <1>2, <1>4
    <3> QED
      BY <2>1, <3>1 DEF MissingFrom
  <2>3. PICK a : a = Cardinality(MissingFrom(messages', records, cut) \ UnderWay')
    OBVIOUS
  <2>4. PICK b : b = Cardinality(MissingFrom(messages, records, cut) \ UnderWay)
    OBVIOUS
  <2>5. PICK c : c = Cardinality(MissingFrom(file.history, records, cut) \ UnderWay')
    OBVIOUS
  <2>6. PICK d : d = Cardinality(MissingFrom(file.history, records, cut) \ UnderWay)
    OBVIOUS
  <2>7. a \in Nat /\ b \in Nat /\ c \in Nat /\ d \in Nat /\ a <= b /\ c <= d
    BY <2>2, <2>3, <2>4, <2>5, <2>6, MissingFinite, Fewer DEF StoreInv
  <2>8. b + Torn <= 2 * mishaps /\ d + Torn <= 2 * mishaps /\ Torn \in {0, 1} /\ mishaps \in Nat
    BY <2>4, <2>6 DEF StoreInv, StoreTyped, Affordable, Afford, Torn
  <2>9. a + Torn <= 2 * mishaps /\ c + Torn <= 2 * mishaps
    BY <2>7, <2>8
  <2> QED
    BY <1>1, <2>3, <2>5, <2>9 DEF Affordable, Afford, Torn, diskVars, recordVars
<1>9. HalfRecorded' /\ IndexKnows'
  BY <1>1 DEF HalfRecorded, IndexKnows, StoreInv, recordVars
<1> QED
  BY <1>5, <1>6, <1>7, <1>8, <1>9 DEF StoreInv

LEMMA StoreSaves ==
  ASSUME FieldsKept, StoreInv, (SaveWrites /\ loop'.pc = "rename") \/ (SaveRenames /\ RenamesTmp)
  PROVE  StoreInv'
<1>1. /\ loop'.turn = loop.turn /\ loop'.why = loop.why /\ DOMAIN loop = LoopFields
      /\ UNCHANGED <<messages, recordVars, mishaps, ours, chat, launched>>
      /\ \/ /\ loop.pc = "save" /\ loop'.pc = "rename" /\ tmp'.history = messages
            /\ tmp'.whole \/ chat.disk
            /\ UNCHANGED <<file, reported>>
         \/ /\ loop.pc = "rename" /\ loop'.pc = (IF loop.why = "none" THEN "record" ELSE "cancel")
            /\ tmp' = tmp /\ file' = (IF ours THEN tmp ELSE file)
            /\ reported' = (IF ours THEN reported \cup AnsweredTurns(messages) ELSE reported)
  <2>0. DOMAIN loop = LoopFields
    BY DEF FieldsKept
  <2>1. CASE SaveWrites /\ loop'.pc = "rename"
    <3>1. ~Saved
      BY <2>0, <2>1 DEF Saved, LoopGoes, LoopFields
    <3>2. PICK whole \in {TRUE, ~chat.disk} : WritesTmp(whole) /\ LoopGoes("rename")
      BY <2>1, <3>1 DEF SaveWrites
    <3>3. loop.pc = "save" /\ UNCHANGED <<chat, launched>>
      BY <2>1 DEF SaveWrites, LoopAt, Saving, Looping
    <3>4. tmp'.whole = whole /\ tmp'.history = messages
      BY <3>2 DEF WritesTmp
    <3>5. tmp'.whole \/ chat.disk
      BY <3>2, <3>4
    <3> QED
      BY <2>0, <3>2, <3>3, <3>4, <3>5 DEF WritesTmp, LoopGoes, LoopFields
  <2>2. CASE SaveRenames /\ RenamesTmp
    BY <2>0, <2>2 DEF SaveRenames, LoopAt, RenamesTmp, Saved, LoopGoes, LoopFields, Saving, Looping
  <2> QED
    BY <2>1, <2>2
<1>2. UnderWay' = UnderWay
  BY <1>1 DEF UnderWay, OfSave
<1>3. IndexKnows'
  BY <1>1 DEF StoreInv, IndexKnows, recordVars
<1>4. CASE loop.pc = "save"
  <2>1. StoreTyped'
    BY <1>1, <1>4 DEF StoreInv, StoreTyped, recordVars
  <2>2. Timely'
    BY <1>1, <1>4 DEF StoreInv, Timely, Unsaved, OfSave
  <2>3. Filed' /\ HalfRecorded'
    BY <1>1, <1>4 DEF StoreInv, Filed, HalfRecorded
  <2>4. Affordable'
    BY <1>1, <1>2, <1>4 DEF StoreInv, Affordable, Afford, Torn, recordVars
  <2> QED
    BY <1>3, <2>1, <2>2, <2>3, <2>4 DEF StoreInv
<1>5. CASE loop.pc = "rename"
  <2>1. tmp.history = messages /\ (file'.history = messages \/ file' = file) /\ messages \in Seq(Message)
    BY <1>1, <1>5 DEF StoreInv, StoreTyped, Filed
  <2>2. StoreTyped'
    BY <1>1, <1>5, <2>1 DEF StoreInv, StoreTyped, recordVars
  <2>3. Timely'
    <3>1. ~Unsaved'
      BY <1>1, <1>5 DEF Unsaved, OfSave
    <3> QED
      BY <1>1, <2>1, <3>1 DEF StoreInv, Timely
  <2>4. Filed' /\ HalfRecorded'
    <3>1. IsPrefix(messages, messages)
      BY <2>1, LenProperties DEF IsPrefix
    <3>2. CASE ours
      <4>1. reported' \subseteq AnsweredTurns(messages)
        BY <1>1, <1>5, <3>2 DEF StoreInv, Filed
      <4>2. file' = tmp /\ tmp.history = messages /\ (tmp.whole \/ chat.disk)
        BY <1>1, <1>5, <3>2 DEF StoreInv, Filed
      <4> QED
        BY <1>1, <1>5, <3>1, <3>2, <4>1, <4>2 DEF Filed, HalfRecorded
    <3>3. CASE ~ours
      BY <1>1, <1>5, <3>3 DEF StoreInv, Filed, HalfRecorded
    <3> QED
      BY <3>2, <3>3
  <2>5. Affordable'
    <3>1. CASE file'.history = messages
      BY <1>1, <1>2, <3>1 DEF StoreInv, Affordable, Afford, Torn, recordVars
    <3>2. CASE file' = file
      BY <1>1, <1>2, <3>2 DEF StoreInv, Affordable, Afford, Torn, recordVars
    <3> QED
      BY <2>1, <3>1, <3>2
  <2> QED
    BY <1>3, <2>2, <2>3, <2>4, <2>5 DEF StoreInv
<1> QED
  BY <1>1, <1>4, <1>5

\* A turn is recorded in two steps, and a line without an end swallows the next.
LEMMA StoreRecords ==
  ASSUME FieldsKept, StoreInv, RecordUser \/ RecordAnswer, loop'.pc # "crashed"
  PROVE  StoreInv'
<1>1. /\ loop'.turn = loop.turn /\ loop.turn \in Nat /\ UNCHANGED <<messages, tmp, file, ours,
                                           reported, mishaps, onMain, since, cut, chat, launched>>
      /\ torn' = FALSE
      /\ \/ /\ loop.pc = "record" /\ loop'.pc = "answer"
            /\ records' = IF torn THEN records ELSE records \cup {Of(loop.turn, "user")}
            /\ indexed' = indexed \cup {Of(loop.turn, "user")}
         \/ /\ loop.pc = "answer" /\ loop'.pc = "top"
            /\ records' = IF torn THEN records ELSE records \cup {Of(loop.turn, "assistant")}
            /\ indexed' = indexed \cup {Of(loop.turn, "assistant")}
  <2> USE DEF FieldsKept, TurnRecords, LoopAt, LoopGoes, LoopFields, Records, diskVars, Looping
  <2>1. CASE RecordUser
    BY <2>1 DEF RecordUser
  <2>2. CASE RecordAnswer
    BY <2>2 DEF RecordAnswer
  <2> QED
    BY <2>1, <2>2
<1>2. /\ Of(loop.turn, "user") \in Message /\ Of(loop.turn, "assistant") \in Message
      /\ records \subseteq Message /\ indexed \subseteq Message
      /\ UnderWay = {loop.turn} /\ ~Unsaved'
  BY <1>1 DEF Of, Message, StoreInv, StoreTyped, UnderWay, Unsaved, OfSave
<1>3. records' \subseteq Message /\ indexed' \subseteq Message /\ records \subseteq records'
  BY <1>1, <1>2
<1>4. StoreTyped' /\ Timely' /\ Filed' /\ IndexKnows'
  <2>1. StoreTyped'
    BY <1>1, <1>3 DEF StoreInv, StoreTyped
  <2>2. Timely'
    BY <1>1, <1>2 DEF StoreInv, Timely
  <2>3. Filed'
    BY <1>1 DEF StoreInv, Filed
  <2>4. IndexKnows'
    <3>1. \A m \in {Of(loop.turn, "user"), Of(loop.turn, "assistant")} : m.turn = loop.turn
      BY DEF Of
    <3>2. PICK m \in {Of(loop.turn, "user"), Of(loop.turn, "assistant")} :
            /\ records' \in {records, records \cup {m}}
            /\ indexed' = indexed \cup {m}
      BY <1>1
    <3>3. m.turn <= loop.turn
      BY <1>1, <3>1
    <3> QED
      BY <1>1, <3>2, <3>3 DEF StoreInv, IndexKnows
  <2> QED
    BY <2>1, <2>2, <2>3, <2>4
<1>5. Torn' = 0 /\ Torn \in {0, 1} /\ mishaps \in Nat
  BY <1>1 DEF Torn, StoreInv, StoreTyped
<1>6. ASSUME NEW h \in {messages, file.history}, NEW n \in {0, 1}, Afford(h, n),
             NEW under, MissingFrom(h, records', cut) \ under \subseteq MissingFrom(h, records, cut) \ UnderWay
      PROVE  Cardinality(MissingFrom(h, records', cut) \ under) + n <= 2 * mishaps
  <2>1. IsFiniteSet(MissingFrom(h, records, cut) \ UnderWay)
    BY MissingFinite DEF StoreInv
  <2>2. PICK a : a = Cardinality(MissingFrom(h, records', cut) \ under)
    OBVIOUS
  <2>3. PICK b : b = Cardinality(MissingFrom(h, records, cut) \ UnderWay)
    OBVIOUS
  <2>4. a \in Nat /\ b \in Nat /\ a <= b
    BY <1>6, <2>1, <2>2, <2>3, Fewer
  <2>5. b + n <= 2 * mishaps
    BY <1>6, <2>3 DEF Afford
  <2>6. a + n <= 2 * mishaps
    BY <1>5, <2>4, <2>5
  <2> QED
    BY <2>2, <2>6
<1>7. \A h : MissingFrom(h, records', cut) \subseteq MissingFrom(h, records, cut)
  BY <1>3 DEF MissingFrom
<1>8. \A h \in {messages, file.history} : Afford(h, Torn) /\ Afford(h, 0)
  <2>1. /\ Afford(messages, Torn) => Afford(messages, 0)
        /\ Afford(file.history, Torn) => Afford(file.history, 0)
    <3>1. /\ Cardinality(MissingFrom(messages, records, cut) \ UnderWay) \in Nat
          /\ Cardinality(MissingFrom(file.history, records, cut) \ UnderWay) \in Nat
      BY MissingFinite, FS_CardinalityType DEF StoreInv
    <3> QED
      BY <1>5, <3>1 DEF Afford
  <2> QED
    BY <2>1 DEF StoreInv, Affordable
<1>9. CASE loop.pc = "record"
  <2>1. UnderWay' = {loop.turn} /\ loop'.pc = "answer"
    BY <1>1, <1>9 DEF UnderWay
  <2>2. \A h : MissingFrom(h, records', cut) \ UnderWay' \subseteq MissingFrom(h, records, cut) \ UnderWay
    BY <1>2, <1>7, <2>1
  <2>3. Affordable'
    <3>1. \A h \in {messages, file.history} : Cardinality(MissingFrom(h, records', cut) \ UnderWay') + 0 <= 2 * mishaps
      BY <1>6, <1>8, <2>2
    <3> QED
      BY <1>1, <1>5, <3>1 DEF Affordable, Afford
  <2>4. HalfRecorded'
    <3>1. CASE torn
      <4>1. Torn = 1
        BY <3>1 DEF Torn
      <4>2. \A h \in {messages, file.history} : Cardinality(MissingFrom(h, records', cut) \ UnderWay') + 1 <= 2 * mishaps
        BY <1>6, <1>8, <2>2, <4>1
      <4> QED
        BY <1>1, <4>2 DEF HalfRecorded, Afford
    <3>2. CASE ~torn
      <4>1. Of(loop.turn, "user") \in records'
        BY <1>1, <1>9, <3>2
      <4> QED
        BY <1>1, <4>1 DEF HalfRecorded
    <3> QED
      BY <3>1, <3>2
  <2> QED
    BY <1>4, <2>3, <2>4 DEF StoreInv
<1>10. CASE loop.pc = "answer"
  <2>1. UnderWay' = {} /\ loop'.pc = "top"
    BY <1>1, <1>10 DEF UnderWay, OfSave
  <2>2. ~torn /\ records' = records \cup {Of(loop.turn, "assistant")}
    BY <1>1, <1>10 DEF StoreInv, HalfRecorded
  <2>3. Affordable'
    <3>1. CASE Of(loop.turn, "user") \in records
      <4>1. \A h : MissingFrom(h, records', cut) \ {} \subseteq MissingFrom(h, records, cut) \ UnderWay
        BY <1>2, <1>7, <2>2, <3>1 DEF MissingFrom
      <4>2. \A h \in {messages, file.history} : Cardinality(MissingFrom(h, records', cut) \ {}) + 0 <= 2 * mishaps
        BY <1>6, <1>8, <4>1
      <4> QED
        BY <1>1, <1>5, <2>1, <4>2 DEF Affordable, Afford
    <3>2. CASE Of(loop.turn, "user") \notin records
      <4>1. Afford(messages, 1) /\ Afford(file.history, 1)
        BY <1>10, <3>2 DEF StoreInv, HalfRecorded
      <4>2. \A h : MissingFrom(h, records', cut) \ UnderWay \subseteq MissingFrom(h, records, cut) \ UnderWay
        BY <1>7
      <4>3. ASSUME NEW h \in {messages, file.history}
            PROVE  Cardinality(MissingFrom(h, records', cut) \ {}) + 0 <= 2 * mishaps
        <5>1. Afford(h, 1)
          BY <4>1
        <5>2. Cardinality(MissingFrom(h, records', cut) \ UnderWay) + 1 <= 2 * mishaps
          BY <1>6, <4>2, <5>1
        <5>3. IsFiniteSet(MissingFrom(h, records', cut) \ UnderWay)
          <6>1. IsFiniteSet(MissingFrom(h, records, cut) \ UnderWay)
            BY MissingFinite DEF StoreInv
          <6> QED
            BY <4>2, <6>1, FS_Subset
        <5>4. MissingFrom(h, records', cut) \ {} \subseteq (MissingFrom(h, records', cut) \ UnderWay) \cup {loop.turn}
          BY <1>2
        <5>5. PICK a : a = Cardinality(MissingFrom(h, records', cut) \ {})
          OBVIOUS
        <5>6. PICK b : b = Cardinality(MissingFrom(h, records', cut) \ UnderWay)
          OBVIOUS
        <5>7. a \in Nat /\ b \in Nat /\ a <= b + 1
          BY <5>3, <5>4, <5>5, <5>6, OneMoreAtMost
        <5>8. b + 1 <= 2 * mishaps
          BY <5>2, <5>6
        <5>9. a + 0 <= 2 * mishaps
          BY <1>5, <5>7, <5>8
        <5> QED
          BY <5>5, <5>9
      <4> QED
        BY <1>1, <1>5, <2>1, <4>3 DEF Affordable, Afford
    <3> QED
      BY <3>1, <3>2
  <2>4. HalfRecorded'
    BY <2>1 DEF HalfRecorded
  <2> QED
    BY <1>4, <2>3, <2>4 DEF StoreInv
<1> QED
  BY <1>1, <1>9, <1>10

LEMMA NothingAnswered ==
  AnsweredTurns(<<>>) = {} /\ (\A lines, from : MissingFrom(<<>>, lines, from) = {}) /\ <<>> \in Seq(Message)
BY DEF AnsweredTurns, MissingFrom

\* The next launch goes on from the file, or from nothing.
LEMMA StoreReopens ==
  ASSUME FieldsKept, StoreInv, Relaunch
  PROVE  StoreInv'
<1>1. PICK stale \in BOOLEAN : Reopens(stale, loop.turn)
  BY RelaunchMoves
<1>2. /\ loop'.pc = "top" /\ loop'.turn = loop.turn /\ loop.turn \in Nat /\ loop.pc \in {"crashed", "gone"}
      /\ UNCHANGED <<tmp, reported, records, torn, cut, mishaps, chat>> /\ launched' = launched + 1
      /\ indexed' = {} /\ onMain' = TRUE /\ since' = loop.turn /\ ours' = file'.whole
      /\ file' = (IF stale THEN [whole |-> FALSE, history |-> <<>>] ELSE file)
      /\ messages' = (IF stale THEN <<>> ELSE IF file.whole THEN file.history ELSE <<>>)
  BY <1>1, RelaunchMoves DEF Reopens, Loaded, FieldsKept
<1>3. /\ messages' = <<>> \/ messages' = file.history
      /\ file'.history = <<>> \/ file'.history = file.history
  BY <1>2
<1>4. UnderWay = {} /\ UnderWay' = {} /\ ~Unsaved'
  BY <1>2 DEF UnderWay, Unsaved, OfSave
<1>5. StoreTyped'
  BY <1>2, <1>3, NothingAnswered DEF StoreInv, StoreTyped
<1>6. Timely'
  <2>1. NoLater(<<>>, loop.turn)
    BY DEF NoLater
  <2> QED
    BY <1>2, <1>3, <1>4, <2>1 DEF StoreInv, Timely
<1>7. Filed' /\ HalfRecorded'
  <2>1. file.history \in Seq(Message)
    BY DEF StoreInv, StoreTyped
  <2>2. IsPrefix(file.history, file.history)
    BY <2>1, LenProperties DEF IsPrefix
  <2>3. launched' > 0
    BY <1>2 DEF StoreInv, StoreTyped
  <2>4. CASE stale
    BY <1>2, <2>3, <2>4 DEF Filed, HalfRecorded
  <2>5. CASE ~stale
    BY <1>2, <2>2, <2>3, <2>5 DEF StoreInv, Filed, HalfRecorded
  <2> QED
    BY <1>1, <2>4, <2>5
<1>8. IndexKnows'
  BY <1>2 DEF StoreInv, StoreTyped, IndexKnows, Message
<1>9. Affordable'
  <2>1. Torn <= 2 * mishaps /\ Torn \in {0, 1} /\ mishaps \in Nat
    <3>1. Cardinality(MissingFrom(messages, records, cut) \ UnderWay) \in Nat
      BY MissingFinite, FS_CardinalityType DEF StoreInv
    <3>2. Torn \in {0, 1} /\ mishaps \in Nat
      BY DEF StoreInv, StoreTyped, Torn
    <3> QED
      BY <3>1, <3>2 DEF StoreInv, Affordable, Afford
  <2>2. Cardinality(MissingFrom(<<>>, records, cut) \ {}) + Torn <= 2 * mishaps
    <3>1. MissingFrom(<<>>, records, cut) \ {} = {}
      BY NothingAnswered
    <3>2. Cardinality(MissingFrom(<<>>, records, cut) \ {}) = 0
      BY <3>1, FS_EmptySet
    <3>3. PICK u : u = Torn
      OBVIOUS
    <3>4. 0 + u <= 2 * mishaps
      BY <2>1, <3>3
    <3> QED
      BY <3>2, <3>3, <3>4
  <2>3. Cardinality(MissingFrom(file.history, records, cut) \ {}) + Torn <= 2 * mishaps
    BY <1>4 DEF StoreInv, Affordable, Afford
  <2> QED
    BY <1>2, <1>3, <1>4, <2>2, <2>3 DEF Affordable, Afford, Torn
<1> QED
  BY <1>5, <1>6, <1>7, <1>8, <1>9 DEF StoreInv

\* A compaction costs no turn after the cut, and a fork none but by a mishap.
LEMMA StoreCommands ==
  ASSUME FieldsKept, StoreInv, Compacts(loop.turn) \/ \E whole \in BOOLEAN : ForksBranch(whole),
         loop.pc \in OfLoop, loop'.pc \in OfLoop, loop'.turn = loop.turn, UNCHANGED <<chat, launched>>
  PROVE  StoreInv'
<1>1. /\ UNCHANGED <<messages, diskVars, since>> /\ loop.turn \in Nat
      /\ UnderWay = {} /\ UnderWay' = {} /\ ~Unsaved' /\ loop'.pc \notin {"rename", "answer", "crashed"}
      /\ loop.pc # "crashed"
  BY DEF FieldsKept, Compacts, ForksBranch, OfLoop, UnderWay, Unsaved, OfSave
<1>2. Timely' /\ Filed' /\ HalfRecorded'
  BY <1>1 DEF StoreInv, Timely, Filed, HalfRecorded, diskVars
<1>3. /\ Torn \in {0, 1} /\ mishaps \in Nat /\ since \in Nat /\ cut \in Nat
      /\ IsFiniteSet(MissingFrom(messages, records, cut)) /\ IsFiniteSet(MissingFrom(file.history, records, cut))
      /\ Cardinality(MissingFrom(messages, records, cut)) + Torn <= 2 * mishaps
      /\ Cardinality(MissingFrom(file.history, records, cut)) + Torn <= 2 * mishaps
  <2>1. \A h : MissingFrom(h, records, cut) \ UnderWay = MissingFrom(h, records, cut)
    BY <1>1
  <2> QED
    BY <2>1, MissingFinite DEF StoreInv, StoreTyped, Affordable, Afford, Torn
<1>4. CASE Compacts(loop.turn)
  <2>1. /\ records' = Kept /\ indexed' = Kept /\ UNCHANGED <<onMain, mishaps>> /\ Torn' = 0
        /\ torn' = FALSE /\ cut' = IF onMain THEN since ELSE loop.turn
    BY <1>4 DEF Compacts, Torn
  <2>2. Kept \subseteq indexed
    BY DEF Kept
  <2>3. StoreTyped'
    BY <1>1, <2>1, <2>2 DEF StoreInv, StoreTyped, diskVars
  <2>4. IndexKnows'
    BY <1>1, <1>3, <2>1, <2>2 DEF StoreInv, IndexKnows
  <2>5. ASSUME NEW h \in {messages, file.history}
        PROVE  MissingFrom(h, records, cut)' \subseteq MissingFrom(h, records, cut)
    <3>1. h \in Seq(Message) /\ NoLater(h, loop.turn) /\ h' = h
      BY <1>1, <2>5 DEF StoreInv, StoreTyped, Timely, diskVars
    <3>2. \A t \in AnsweredTurns(h) : t \in 0..loop.turn
      BY <1>1, <3>1, AnsweredWithin
    <3> SUFFICES ASSUME NEW t \in AnsweredTurns(h), t > cut',
                        ~({Of(t, "user"), Of(t, "assistant")} \subseteq records')
                 PROVE  t > cut /\ ~({Of(t, "user"), Of(t, "assistant")} \subseteq records)
      BY <3>1 DEF MissingFrom
    <3>3. t \in Nat /\ t <= loop.turn
      BY <1>1, <3>2
    <3>4. onMain /\ t > since /\ t > cut
      BY <1>1, <1>3, <2>1, <3>3 DEF StoreInv, StoreTyped, IndexKnows
    <3>5. records' = indexed
      BY <2>1, <3>4 DEF Kept
    <3>6. Of(t, "user").turn = t /\ Of(t, "assistant").turn = t
      BY DEF Of
    <3>7. \A m \in {Of(t, "user"), Of(t, "assistant")} : m \in records => m \in indexed
      BY <3>4, <3>6 DEF StoreInv, IndexKnows
    <3> QED
      BY <3>4, <3>5, <3>7
  <2>6. Affordable'
    <3>1. ASSUME NEW h \in {messages, file.history},
                 Cardinality(MissingFrom(h, records, cut)) + Torn <= 2 * mishaps,
                 IsFiniteSet(MissingFrom(h, records, cut))
          PROVE  Cardinality(MissingFrom(h, records, cut)') <= 2 * mishaps
      <4>1. PICK a : a = Cardinality(MissingFrom(h, records, cut)')
        OBVIOUS
      <4>2. PICK b : b = Cardinality(MissingFrom(h, records, cut))
        OBVIOUS
      <4>3. a \in Nat /\ b \in Nat /\ a <= b /\ b + Torn <= 2 * mishaps
        BY <2>5, <3>1, <4>1, <4>2, Fewer
      <4> QED
        BY <1>3, <4>1, <4>3
    <3>2. \A h \in {messages, file.history} : Cardinality(MissingFrom(h, records, cut)') <= 2 * mishaps
      BY <1>3, <3>1
    <3>3. \A h : MissingFrom(h, records', cut') \ UnderWay' = MissingFrom(h, records', cut')
      BY <1>1
    <3>4. /\ Cardinality(MissingFrom(messages, records', cut') \ UnderWay') + 0 <= 2 * mishaps
          /\ Cardinality(MissingFrom(file.history, records', cut') \ UnderWay') + 0 <= 2 * mishaps
      <4>1. /\ IsFiniteSet(MissingFrom(messages, records', cut'))
            /\ IsFiniteSet(MissingFrom(file.history, records', cut'))
        BY <1>1, <1>3, <2>5, FS_Subset DEF diskVars
      <4> QED
        BY <1>1, <3>2, <3>3, <4>1, FS_CardinalityType DEF diskVars
    <3> QED
      BY <1>1, <2>1, <3>4 DEF Affordable, Afford, diskVars
  <2> QED
    BY <1>2, <2>3, <2>4, <2>6 DEF StoreInv
<1>5. ASSUME NEW whole \in BOOLEAN, ForksBranch(whole)
      PROVE  StoreInv'
  <2>1. /\ UNCHANGED <<records, indexed, cut>> /\ onMain' = FALSE
        /\ mishaps' = IF whole THEN mishaps ELSE mishaps + 1
        /\ torn' \in IF whole THEN {FALSE} ELSE {torn, TRUE}
    BY <1>5 DEF ForksBranch
  <2>2. torn' \in BOOLEAN /\ (whole => torn' = FALSE)
    BY <2>1, Zenon DEF StoreInv, StoreTyped
  <2>3. mishaps' \in Nat
    BY <1>3, <2>1
  <2>4. StoreTyped'
    BY <1>1, <2>1, <2>2, <2>3 DEF StoreInv, StoreTyped, diskVars
  <2>5. IndexKnows'
    BY <1>1, <2>1 DEF StoreInv, IndexKnows
  <2>6. Torn' \in {0, 1} /\ (whole => Torn' = 0)
    BY <2>2 DEF Torn
  <2>7. ASSUME NEW n \in Nat, n + Torn <= 2 * mishaps
        PROVE  n + Torn' <= 2 * mishaps'
    <3>1. PICK u : u = Torn
      OBVIOUS
    <3>2. PICK v : v = Torn'
      OBVIOUS
    <3>3. u \in {0, 1} /\ v \in {0, 1} /\ n + u <= 2 * mishaps /\ (whole => v = 0)
      BY <1>3, <2>6, <2>7, <3>1, <3>2
    <3>4. n + v <= 2 * mishaps'
      BY <1>3, <2>1, <2>7, <3>3
    <3> QED
      BY <3>2, <3>4
  <2>8. /\ Cardinality(MissingFrom(messages, records, cut)) + Torn' <= 2 * mishaps'
        /\ Cardinality(MissingFrom(file.history, records, cut)) + Torn' <= 2 * mishaps'
    BY <1>3, <2>7, FS_CardinalityType
  <2>9. Affordable'
    BY <1>1, <2>1, <2>8 DEF Affordable, Afford, diskVars
  <2> QED
    BY <1>2, <2>4, <2>5, <2>9 DEF StoreInv
<1> QED
  BY <1>4, <1>5

LEMMA StoreKeeps ==
  ASSUME FieldsKept, ItsTimer, StoreInv, ChatNext \/ UNCHANGED chatVars
  PROVE  StoreInv'
<1>1. ASSUME UNCHANGED <<loop, storeVars, chat, launched>>
      PROVE  StoreInv'
  BY <1>1, StoreStays DEF UnderWay, Unsaved
<1>2. CASE UNCHANGED chatVars
  BY <1>1, <1>2 DEF chatVars
<1>3. CASE Aside \/ AskStop \/ ResolveSource \/ StopSource
  BY <1>1, <1>3, AsideLeaves, AskerMoves
<1>4. CASE Between
  <2>1. /\ loop.pc \in OfLoop /\ loop'.pc \in OfLoop \cup {"save"} /\ loop'.turn = loop.turn
        /\ (loop'.pc = "save" => loop'.why # "none") /\ UNCHANGED <<chat, launched>>
        /\ UNCHANGED storeVars \/ (RecordsCommand /\ loop'.pc # "save")
    BY <1>4, BetweenMoves DEF OfLoop
  <2>2. UnderWay = {} /\ ~Unsaved'
    BY <2>1 DEF UnderWay, Unsaved, OfLoop, OfSave
  <2>3. CASE UNCHANGED storeVars
    BY <2>1, <2>2, <2>3, StoreStays DEF OfLoop
  <2>4. CASE RecordsCommand /\ loop'.pc # "save"
    <3>1. \/ Compacts(loop.turn) \/ \E whole \in BOOLEAN : ForksBranch(whole)
          \/ UNCHANGED storeVars
      <4>1. chat.disk \in BOOLEAN
        BY ChatAssumption DEF FieldsKept, ChatSetup
      <4> QED
        BY <2>4, <4>1 DEF RecordsCommand
    <3> QED
      BY <2>1, <2>3, <2>4, <3>1, StoreCommands
  <2> QED
    BY <2>1, <2>3, <2>4
<1>5. CASE AgentAnswersItself \/ AgentLooks \/ AgentRuns \/ ToolThrows
  <2>1. UnderWay = {} /\ Unsaved
    BY <1>5, ToolMoves DEF UnderWay, Unsaved, OfTool, OfSave
  <2> QED
    BY <1>5, <2>1, ToolMoves, StoreStays DEF OfTool
<1>6. CASE Keeping
  <2>1. loop'.turn = loop.turn /\ loop'.why = loop.why /\ UNCHANGED <<chat, launched>>
    BY <1>6, KeepingMoves
  <2>2. CASE (SaveWrites \/ SaveRenames) /\ Saved /\ UNCHANGED storeVars
    <3>1. loop.pc \in OfSave /\ loop'.pc = IF loop.why = "none" THEN "record" ELSE "cancel"
      BY <2>2 DEF SaveWrites, SaveRenames, LoopAt, OfSave, Saved, LoopGoes, FieldsKept, LoopFields
    <3>2. UnderWay' = UnderWay /\ ~Unsaved'
      BY <2>1, <3>1 DEF UnderWay, Unsaved, OfSave
    <3> QED
      BY <2>1, <2>2, <3>1, <3>2, StoreStays DEF OfSave
  <2>3. CASE (RecordUser \/ RecordAnswer) /\ loop'.pc = "crashed"
    <3>1. RecordsShort
      BY <2>3 DEF RecordUser, RecordAnswer, TurnRecords, LoopGoes, FieldsKept, LoopFields
    <3> QED
      BY <2>1, <2>3, <3>1, StoreCrashes DEF RecordsShort
  <2>4. ASSUME SaveWrites
        PROVE  loop'.pc = "rename" \/ (Saved /\ UNCHANGED storeVars)
    BY <2>4 DEF SaveWrites, LoopGoes, FieldsKept, LoopFields
  <2>5. ASSUME SaveRenames
        PROVE  RenamesTmp \/ (Saved /\ UNCHANGED storeVars)
    BY <2>5 DEF SaveRenames
  <2> QED
    BY <1>6, <2>2, <2>3, <2>4, <2>5, StoreSaves, StoreRecords DEF Keeping
<1>7. CASE TurnBegins
  <2>1. /\ loop.pc = "handle" /\ loop'.pc = "publish" /\ loop'.turn = loop.turn + 1 /\ loop.turn \in Nat
        /\ UNCHANGED <<storeVars, chat, launched>>
    BY <1>7, TurnMoves DEF TurnBegins, LoopAt, FieldsKept
  <2>2. UnderWay = {} /\ UnderWay' = {}
    BY <2>1 DEF UnderWay, OfSave
  <2>3. StoreTyped' /\ Filed' /\ HalfRecorded' /\ IndexKnows'
    <3>1. StoreTyped' /\ Filed' /\ HalfRecorded'
      BY <2>1 DEF StoreInv, StoreTyped, Filed, HalfRecorded, storeVars, diskVars, recordVars
    <3>2. \A m \in records \cup indexed : m.turn \in Nat
      BY DEF StoreInv, StoreTyped, Message
    <3>3. IndexKnows'
      BY <2>1, <3>2 DEF StoreInv, StoreTyped, IndexKnows, storeVars, recordVars
    <3> QED
      BY <3>1, <3>3
  <2>4. Affordable'
    BY <2>1, <2>2 DEF StoreInv, Affordable, Afford, Torn, storeVars, diskVars, recordVars
  <2>5. Timely'
    <3>1. NoLater(messages, loop.turn + 1) /\ NoLater(file.history, loop.turn + 1)
      <4>1. ASSUME NEW h \in Seq(Message), NoLater(h, loop.turn)
            PROVE  NoLater(h, loop.turn + 1)
        <5>1. ASSUME NEW i \in DOMAIN h
              PROVE  h[i].turn \in Nat
          <6>1. h[i] \in Message
            BY <4>1, ElementOfSeq, LenProperties
          <6> QED
            BY <6>1 DEF Message
        <5> QED
          BY <2>1, <4>1, <5>1 DEF NoLater
      <4> QED
        BY <4>1 DEF StoreInv, StoreTyped, Timely
    <3>2. AnsweredTurns(file.history) \subseteq 0..loop.turn
      BY <2>1, AnsweredWithin DEF StoreInv, StoreTyped, Timely
    <3>3. loop.turn + 1 \notin AnsweredTurns(file.history)
      BY <2>1, <3>2
    <3> QED
      BY <2>1, <3>1, <3>3 DEF Timely, storeVars, diskVars
  <2> QED
    BY <2>3, <2>4, <2>5 DEF StoreInv
<1>8. CASE TurnUnregisters \/ (TurnClears /\ loop'.pc # "save")
  <2>1. /\ loop.pc \in {"unregister", "clear"} /\ loop'.pc \in {"clear", "record"} /\ loop'.turn = loop.turn
        /\ UNCHANGED <<storeVars, chat, launched>>
    <3>1. loop.pc = "unregister" \/ (loop.pc = "clear" /\ loop'.pc # "save")
      BY <1>8 DEF TurnUnregisters, TurnClears, LoopAt
    <3>2. CASE loop.pc = "unregister"
      BY <1>8, <3>2, TurnMoves
    <3>3. CASE loop.pc = "clear" /\ loop'.pc # "save"
      BY <1>8, <3>3, TurnMoves
    <3> QED
      BY <3>1, <3>2, <3>3
  <2>2. UnderWay = {} /\ Unsaved
    BY <2>1 DEF UnderWay, Unsaved, OfSave
  <2> QED
    BY <2>1, <2>2, StoreStays
<1>9. CASE Destructor \/ CallbackLeaves
  <2>1. loop' = loop \/ (loop.pc \in {"cancel"} \cup Ended /\ loop'.pc \in Ended)
    BY <1>9, EndingMoves
  <2>2. UNCHANGED <<storeVars, chat, launched>> /\ loop'.turn = loop.turn
    BY <1>9, EndingMoves
  <2>3. CASE loop.pc \in {"cancel"} \cup Ended /\ loop'.pc \in Ended
    <3>1. UnderWay = {} /\ ~Unsaved'
      BY <2>3 DEF UnderWay, Unsaved, OfSave, Ended
    <3> QED
      BY <2>2, <2>3, <3>1, StoreStays DEF Ended
  <2> QED
    BY <1>1, <2>1, <2>2, <2>3
<1>10. CASE Kill
  BY <1>10, CrashMoves, StoreCrashes DEF Kill, Dies, recordVars
<1>11. CASE ReaderCrashes
  <2>1. loop.pc \in {"close", "join", "gone"} /\ UNCHANGED <<storeVars, chat, launched>>
    BY <1>11 DEF ReaderCrashes, ReaderAt, Alive, ItsTimer
  <2>2. UnderWay = {} /\ ~Unsaved' /\ loop'.pc = "crashed" /\ loop'.turn = loop.turn
    BY <1>11, <2>1, CrashMoves DEF UnderWay, Unsaved, OfSave
  <2> QED
    BY <2>1, <2>2, StoreStays
<1> QED
  BY <1>2, <1>3, <1>4, <1>5, <1>6, <1>7, <1>8, <1>9, <1>10, <1>11, StoreSays, StoreReopens, ChatStep

LEMMA StoreAnswers ==
  ASSUME FieldsKept, StoreInv
  PROVE  AnswersSurvive
<1>1. Unrecorded = MissingFrom(file.history, records, cut)
  BY DEF Unrecorded, MissingFrom
<1>2. \/ UnderWay = {loop.turn} /\ loop.pc \in {"record", "answer"}
      \/ MissingFrom(file.history, records, cut) \ UnderWay = Unrecorded
  BY <1>1 DEF UnderWay, StoreInv, Timely, Unsaved, MissingFrom
<1>3. PICK a : a = Cardinality(Unrecorded)
  OBVIOUS
<1>4. PICK b : b = Cardinality(MissingFrom(file.history, records, cut) \ UnderWay)
  OBVIOUS
<1>5. b + Torn <= 2 * mishaps /\ Torn \in {0, 1} /\ mishaps \in Nat
  BY <1>4 DEF StoreInv, StoreTyped, Affordable, Afford, Torn
<1>6. IsFiniteSet(MissingFrom(file.history, records, cut) \ UnderWay)
  BY MissingFinite DEF StoreInv
<1>7. a <= 2 * mishaps + (IF loop.pc \in {"record", "answer"} THEN 1 ELSE 0)
  <2>1. CASE UnderWay = {loop.turn} /\ loop.pc \in {"record", "answer"}
    <3>1. Unrecorded \subseteq (MissingFrom(file.history, records, cut) \ UnderWay) \cup {loop.turn}
      BY <1>1, <2>1
    <3>2. a \in Nat /\ b \in Nat /\ a <= b + 1
      BY <1>3, <1>4, <1>6, <3>1, OneMoreAtMost
    <3> QED
      BY <1>5, <2>1, <3>2
  <2>2. CASE MissingFrom(file.history, records, cut) \ UnderWay = Unrecorded
    <3>1. a = b /\ a \in Nat
      BY <1>3, <1>4, <1>6, <2>2, FS_CardinalityType
    <3> QED
      BY <1>5, <3>1
  <2> QED
    BY <1>2, <2>1, <2>2
<1> QED
  BY <1>3, <1>7 DEF AnswersSurvive, StoreInv, Filed

-----------------------------------------------------------------------------
(* The theorems.                                                           *)

ChatInv == FieldsKept /\ SourcesNamed /\ AskerKnows /\ ChatTimed /\ QueueInv /\ StoreInv

LEMMA ChatStarts ==
  ASSUME ProgramInit
  PROVE  ChatInv
<1>0. ChatInit /\ chat \in ChatSetup /\ timers = {} /\ toFire = <<>>
  BY ChatAssumption DEF ProgramInit, Init, TimerInit, ChatInit
<1>1. PICK start \in {"cancel", "top"} :
        loop = [pc |-> start, line |-> 0, turn |-> 0, id |-> 0, answered |-> FALSE, why |-> "none"]
  BY <1>0 DEF ChatInit
<1>2. FieldsKept
  BY <1>0, <1>1 DEF ChatInit, FieldsKept, LoopFields, ReaderFields, AskerFields, StdinFields
<1>3. SourcesNamed /\ AskerKnows
  BY <1>0, <1>1 DEF ChatInit, SourcesNamed, AskerKnows, OfTool
<1>4. ItsCalls
  BY <1>0 DEF ChatInit, ItsCalls
<1>5. ItsTimer
  <2>1. timerPtr <=> chat.timer
    BY <1>0, Zenon DEF ChatInit
  <2>2. reader.pc = "start" /\ reader.id = 0 /\ chatTimer = 0 /\ loop.pc \in {"cancel", "top"}
    BY <1>0, <1>1 DEF ChatInit
  <2> QED
    BY <1>0, <2>1, <2>2 DEF ItsTimer, Ended
<1>6. ItsCallback
  BY <1>0, <1>1 DEF ChatInit, ItsCallback
<1>7. QueueInv
  <2>1. Len(chat.lines) \in Nat
    BY <1>0, LenProperties DEF ChatSetup
  <2>2. LinesTyped
    BY <1>0, <2>1 DEF ChatInit, LinesTyped
  <2>3. ~InHand
    BY <1>1 DEF InHand, OfTurn, OfSave
  <2>4. Ordered(steering, TRUE) /\ Ordered(followUp, FALSE)
    BY <1>0 DEF ChatInit, Ordered
  <2>5. Somewhere /\ InTurn /\ SeenDone
    BY <1>0, <2>3 DEF ChatInit, Somewhere, InTurn, SeenDone
  <2>6. LinesCounted
    BY <1>0 DEF ChatInit, LinesCounted
  <2> QED
    BY <2>2, <2>4, <2>5, <2>6 DEF QueueInv
<1>8. StoreInv
  <2>1. /\ messages = <<>> /\ tmp.history = <<>> /\ file.history = <<>> /\ file.whole /\ reported = {}
        /\ records = {} /\ indexed = {} /\ torn = FALSE /\ onMain = TRUE /\ mishaps = 0
        /\ since = 0 /\ cut = 0 /\ launched = 0
    BY <1>0 DEF ChatInit, StoreInit
  <2>2. StoreTyped
    BY <2>1, NothingAnswered DEF StoreTyped
  <2>3. Timely
    BY <2>1, NothingAnswered DEF Timely, NoLater
  <2>4. Affordable
    <3>1. MissingFrom(messages, records, cut) \ UnderWay = {} /\ MissingFrom(file.history, records, cut) \ UnderWay = {}
      BY <2>1, NothingAnswered
    <3>2. Torn = 0 /\ Cardinality({}) = 0
      BY <2>1, FS_EmptySet DEF Torn
    <3>3. Cardinality({}) + Torn <= 2 * mishaps
      BY <2>1, <3>2
    <3> QED
      BY <3>1, <3>3 DEF Affordable, Afford
  <2>5. Filed
    <3>1. IsPrefix(<<>>, <<>>)
      BY DEF IsPrefix
    <3> QED
      BY <1>1, <2>1, <3>1 DEF Filed
  <2>6. HalfRecorded /\ IndexKnows
    BY <1>1, <2>1 DEF HalfRecorded, IndexKnows
  <2> QED
    BY <2>2, <2>3, <2>4, <2>5, <2>6 DEF StoreInv
<1> QED
  BY <1>2, <1>3, <1>4, <1>5, <1>6, <1>7, <1>8 DEF ChatInv, ChatTimed

LEMMA ChatKeeps ==
  ASSUME ChannelInv, ChatInv, [Next]_programVars
  PROVE  ChatInv'
<1>1. ChatNext \/ UNCHANGED chatVars
  BY DEF Next, programVars
<1>2. FieldsKept' /\ SourcesNamed' /\ AskerKnows'
  BY <1>1, FieldsKeep, StopKeeps DEF ChatInv
<1>3. ChatTimed'
  BY TimedKeeps DEF ChatInv
<1>4. StoreInv'
  BY <1>1, StoreKeeps DEF ChatInv, ChatTimed
<1>5. QueueInv'
  <2>1. CASE UNCHANGED chatVars
    <3>1. UNCHANGED <<chat, stdin, reader, queueVars, loop, done, seen>>
      BY <2>1 DEF chatVars
    <3>2. LinesTyped'
      BY <3>1 DEF ChatInv, QueueInv, LinesTyped, queueVars
    <3> QED
      BY <3>1, <3>2, LinesStay DEF ChatInv, InHand
  <2> QED
    BY <1>1, <2>1, LinesKeep DEF ChatInv
<1> QED
  BY <1>2, <1>3, <1>4, <1>5 DEF ChatInv

(* The inductive invariant of the chat holds of every program, whatever its *)
(* lines, its capacity, its threads' order, its kills and its launches.     *)
THEOREM ChatStands == Spec => [](ChannelInv /\ ChatInv)
<1>1. ProgramInit => ChannelInv /\ ChatInv
  BY ChannelStarts, ChatStarts
<1>2. (ChannelInv /\ ChatInv) /\ [Next]_programVars => (ChannelInv /\ ChatInv)'
  BY ChannelKept, ChatKeeps
<1> QED
  BY <1>1, <1>2, PTL DEF Spec

(* A call of request_stop reaches no turn that began after it, though it    *)
(* reads the id, looks the source up and stops it in three steps of another *)
(* thread; and when it finds no source, the turn it was meant for is past   *)
(* its tool.                                                                *)
THEOREM StopReachesItsTurn == Spec => []StopsItsTurn
<1>1. ChatInv => StopsItsTurn
  BY DEF ChatInv, FieldsKept, SourcesNamed, AskerKnows, StopsItsTurn
<1> QED
  BY <1>1, ChatStands, PTL

(* The destructor leaves no timer, and no callback that it could have seen  *)
(* at work: at most one copied call is to come, and only a reader that was  *)
(* still registering when the destructor took the id leaves more.           *)
THEOREM GoneMeansQuiet == Spec => []GoneIsQuiet
<1>1. ChannelInv /\ ChatInv => GoneIsQuiet
  BY GoneQuiet DEF ChatInv
<1> QED
  BY <1>1, ChatStands, PTL

(* No line that was queued when the loop last looked is left when input     *)
(* ends the loop, and lines of a kind are handled in the order they were    *)
(* typed: for any number of lines and any capacity of the queues.           *)
THEOREM NoneIsOverlooked == Spec => []NothingOverlooked
<1>1. ChatInv => NothingOverlooked
  BY InOrderOfKind DEF ChatInv
<1> QED
  BY <1>1, ChatStands, PTL

(* Every answer that a save ever reported kept is in the file while that can*)
(* be read, and the turns after the cut of a compaction are in the records, *)
(* all but two for each mishap: however often the program dies in the middle*)
(* of a save or of a record, writes fail, the records are compacted, before *)
(* or after a fork, and it is launched again.                               *)
THEOREM AnswersOutlive == Spec => []AnswersSurvive
<1>1. ChatInv => AnswersSurvive
  BY StoreAnswers DEF ChatInv
<1> QED
  BY <1>1, ChatStands, PTL

(* What holds of every such program holds of one whose channel polls the    *)
(* backend too: of its skills and of its chat.                              *)
THEOREM WorldChats ==
  WorldSpec => [](StopsItsTurn /\ GoneIsQuiet /\ NothingOverlooked /\ AnswersSurvive)
BY WorldIsProgram, StopReachesItsTurn, GoneMeansQuiet, NoneIsOverlooked, AnswersOutlive, PTL
=============================================================================
