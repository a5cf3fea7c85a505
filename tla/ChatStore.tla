------------------------------ MODULE ChatStore ------------------------------
(***************************************************************************)
(* What a chat session keeps (pdk/chat_session/src/chat_session.cpp): its  *)
(* history in memory, the file save_to_disk replaces by writing another one*)
(* and renaming it, and the records persist_turn appends to the JSONL file *)
(* of a SessionManager, whose ids and branches are SessionStore's.         *)
(*                                                                         *)
(* Operations are actions that ChatSession conjoins with the step of the   *)
(* program's thread.  A message, or a record, is its turn and its role: a  *)
(* record does not tell whether its turn succeeded.  Turns are numbered on *)
(* over the launches.                                                      *)
(***************************************************************************)
EXTENDS Integers, Sequences, FiniteSets

VARIABLES
  messages,   \* messages
  tmp,        \* <id>.json.tmp
  file,       \* <id>.json: what it holds, and whether it is whole; a file that is gone is not
  ours,       \* session_id_ names that file
  records,    \* <id>.jsonl: the records whose line has its end and is nothing else
  torn,       \* its last line has no end
  indexed,    \* nodes_ of the manager: it opens a file without loading it
  onMain,     \* its current branch is the one the session's records are of
  since,      \* history: the last turn of the launches before
  cut,        \* history: the last turn whose records a compaction could not, or was not to, keep
  reported,   \* history: the answered turns that a save reported to be in the file
  mishaps     \* how often the program was killed, or ended by an exception, or the line of a
              \* branch was cut short

diskVars == <<tmp, file, ours, reported>>
recordVars == <<records, torn, indexed, onMain, since, cut>>
storeVars == <<messages, diskVars, recordVars, mishaps>>

Of(turn, role) == [turn |-> turn, role |-> role]

\* The turns that a history answers.
AnsweredTurns(history) ==
  {history[i].turn : i \in {j \in DOMAIN history :
     /\ history[j].role = "assistant"
     /\ \E k \in 1..(j - 1) : history[k] = Of(history[j].turn, "user")}}

\* The file of a session that was saved before anything was said.
StoreInit ==
  /\ messages = <<>>
  /\ tmp = [whole |-> FALSE, history |-> <<>>] /\ file = [whole |-> TRUE, history |-> <<>>]
  /\ ours = TRUE /\ reported = {}
  /\ records = {} /\ torn = FALSE /\ indexed = {} /\ onMain = TRUE /\ since = 0 /\ cut = 0
  /\ mishaps = 0

Says(turn, role) ==
  /\ messages' = Append(messages, Of(turn, role))
  /\ UNCHANGED <<diskVars, recordVars, mishaps>>

\* The file that is written: the check of the stream is of its opening only, so what is renamed
\* later may be short.
WritesTmp(whole) ==
  /\ tmp' = [whole |-> whole, history |-> messages]
  /\ UNCHANGED <<messages, file, ours, reported, recordVars, mishaps>>

\* The session of another id has a file of its own.  Who hears session.persisted takes all that was
\* answered for saved.
RenamesTmp ==
  /\ file' = IF ours THEN tmp ELSE file
  /\ reported' = IF ours THEN reported \cup AnsweredTurns(messages) ELSE reported
  /\ UNCHANGED <<messages, tmp, ours, recordVars, mishaps>>

\* A line after one without an end continues it, and neither can be read.
Records(turn, role) ==
  /\ records' = IF torn THEN records ELSE records \cup {Of(turn, role)}
  /\ indexed' = indexed \cup {Of(turn, role)}
  /\ torn' = FALSE
  /\ UNCHANGED <<messages, diskVars, onMain, since, cut, mishaps>>

\* The file cannot be opened, or a part of the line is written.
RecordsShort ==
  /\ torn' \in {torn, TRUE}
  /\ mishaps' = mishaps + 1
  /\ UNCHANGED <<messages, diskVars, records, indexed, onMain, since, cut>>

\* SessionManager::compact: the file is written anew from the index, with what is of the current
\* branch, and renamed.
Kept == IF onMain THEN indexed ELSE {}

Compacts(turn) ==
  /\ records' = Kept /\ indexed' = Kept
  /\ torn' = FALSE
  /\ cut' = IF onMain THEN since ELSE turn
  /\ UNCHANGED <<messages, diskVars, onMain, since, mishaps>>

\* SessionManager::fork at the leaf of the current branch: the new branch is current before its line
\* is written, and the session goes on to record on the old one.
ForksBranch(whole) ==
  /\ onMain /\ indexed # {}
  /\ onMain' = FALSE
  /\ torn' \in IF whole THEN {FALSE} ELSE {torn, TRUE}
  /\ mishaps' = IF whole THEN mishaps ELSE mishaps + 1
  /\ UNCHANGED <<messages, diskVars, records, indexed, since, cut>>

Dies == mishaps' = mishaps + 1 /\ UNCHANGED <<messages, diskVars, recordVars>>

\* Mutant of Loaded: nothing is loaded.
LoadedNot == <<>>

Loaded == IF file.whole THEN file.history ELSE <<>>

\* A launch with the id of the session: the file goes if it is old enough, and is loaded if it can
\* be; if it cannot, the session keeps the fresh id it has.
Reopens(stale, turn) ==
  /\ file' = IF stale THEN [whole |-> FALSE, history |-> <<>>] ELSE file
  /\ ours' = file'.whole
  /\ messages' = IF stale THEN <<>> ELSE Loaded
  /\ indexed' = {} /\ onMain' = TRUE /\ since' = turn
  /\ UNCHANGED <<tmp, reported, records, torn, cut, mishaps>>

=============================================================================
