------------------------- MODULE SerializingDecorator -------------------------
(***************************************************************************)
(* SerializingDecorator (src/common/llm/serializing_decorator.cpp): it lets*)
(* one call at a time through to a provider that is not thread-safe.       *)
(* generate and generate_stream are the same machine: they wait for the    *)
(* count, and leave the mutex before they call.  available_models keeps    *)
(* the mutex for its call and does not look at the count.  A caller        *)
(* generates once, and may have asked for the models before.               *)
(***************************************************************************)
EXTENDS Integers, FiniteSets

CONSTANT Caller

VARIABLES
  concurrent,   \* concurrent_count_
  call          \* where the call of each caller is

providerVars == <<concurrent, call>>

ProviderInit ==
  /\ concurrent = 0
  /\ call = [c \in Caller |-> "none"]

\* The call has returned or thrown.
Answered(c) == call[c] \in {"result", "error", "threw"}

\* cv_.notify_all: whoever waits evaluates its predicate again.
Notify(calls) == [c \in Caller |-> IF calls[c] = "asleep" THEN "check" ELSE calls[c]]

\* Nobody holds mutex_ longer than a step but a query of the models.
Unlocked == \A c \in Caller : call[c] # "listing"

\* available_models.
Models(c) ==
  /\ call[c] = "none" /\ Unlocked
  /\ call' = [call EXCEPT ![c] = "listing"]
  /\ UNCHANGED concurrent

\* What it throws is the end of the caller's call.
ModelsReturn(c) ==
  /\ call[c] = "listing"
  /\ \E answer \in {"listed", "error"} : call' = [call EXCEPT ![c] = answer]
  /\ UNCHANGED concurrent

Generate(c) ==
  /\ call[c] \in {"none", "listed"}
  /\ call' = [call EXCEPT ![c] = "check"]
  /\ UNCHANGED concurrent

\* Mutant of Vacant: nobody waits.
VacantAlways == TRUE

Vacant == concurrent = 0

\* The predicate and what follows it, under the mutex.  Stopping the token notifies nobody.
Check(c, stopped) ==
  /\ call[c] = "check" /\ Unlocked
  /\ \/ /\ stopped
        /\ call' = Notify([call EXCEPT ![c] = "error"])
        /\ UNCHANGED concurrent
     \/ /\ ~stopped /\ Vacant
        /\ call' = [call EXCEPT ![c] = "inside"]
        /\ concurrent' = concurrent + 1
     \/ /\ ~stopped /\ ~Vacant
        /\ call' = [call EXCEPT ![c] = "asleep"]
        /\ UNCHANGED concurrent

\* The provider answers, or never does.
InnerReturns(c) ==
  /\ call[c] = "inside"
  /\ \E answer \in {"back", "failed"} : call' = [call EXCEPT ![c] = answer]
  /\ UNCHANGED concurrent

\* The exception leaves generate with the count as it is.
InnerThrows(c) ==
  /\ call[c] = "inside"
  /\ call' = [call EXCEPT ![c] = "threw"]
  /\ UNCHANGED concurrent

Leave(c) ==
  /\ call[c] \in {"back", "failed"} /\ Unlocked
  /\ concurrent' = concurrent - 1
  /\ call' = Notify([call EXCEPT ![c] = IF call[c] = "back" THEN "result" ELSE "error"])

At(place) == {c \in Caller : call[c] = place}

(* The provider never generates for two callers at once, nor lists its      *)
(* models for two, however callers come, are cancelled or are given up by   *)
(* those who wait for them: an abandoned call counts until it returns, and  *)
(* one that threw for ever.  Beside a query of its models the provider may  *)
(* generate, for one caller: the mutex that available_models takes to keep  *)
(* them apart is not held around a generation.                              *)
OneInside ==
  /\ Cardinality(At("inside")) <= 1
  /\ Cardinality(At("listing")) <= 1
  /\ concurrent = Cardinality({c \in Caller : call[c] \in {"inside", "back", "failed", "threw"}})
=============================================================================
