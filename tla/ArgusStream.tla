----------------------------- MODULE ArgusStream -----------------------------
(***************************************************************************)
(* One answer of the assistant on its way to the analyst.  The run of the  *)
(* agent lives on a thread of its own, which puts its events in a queue    *)
(* (ArgusService._pump); a generator takes them out, keeps the texts and   *)
(* makes frames of them (iter_text, assistant_stream); the console reads   *)
(* the frames (assistant-chat.tsx).                                        *)
(*                                                                         *)
(* Starlette runs each step of the generator on a thread of one pool, and  *)
(* so FastAPI does with the functions that verify a token, and vibe_rule   *)
(* with its whole run.  A generator that waits for the model keeps its     *)
(* thread of the pool, which is why the agent must not need one.           *)
(***************************************************************************)
EXTENDS Naturals, Sequences, FiniteSets

CONSTANTS
  Stream,     \* questions asked of the assistant
  PoolSize,   \* threads of the pool
  MaxEvents,  \* bound on the events of a run
  Faulty      \* questions whose token may be refused, run fail, connection
              \* be lost, or analyst leave

ASSUME StreamAssumption ==
  /\ PoolSize \in Nat \ {0}
  /\ MaxEvents \in Nat
  /\ Faulty \subseteq Stream

VARIABLES
  stage,   \* where each question is: verified first, then streamed
  line,    \* the questions that wait for a thread of the pool, in order
  worker,  \* the thread that runs the agent
  events,  \* how many events the run has had
  said,    \* how many of them are texts of the answer
  queue,   \* what the worker has put and the generator not yet taken
  sse,     \* where the generator is
  wire,    \* frames on their way to the console
  console, \* what the console makes of the answer
  shown    \* the frames shown, in order

poolVars == <<stage, line>>
runVars == <<worker, events, said>>
vars == <<poolVars, runVars, queue, sse, wire, console, shown>>

(* An item of the queue: a numbered text, any other event, or the sentinel. *)
Text(n) == [kind |-> "text", n |-> n]
Other == [kind |-> "other", n |-> 0]
Sentinel == [kind |-> "sentinel", n |-> 0]

(* Frames: a text, "No response generated.", what the console puts in the      *)
(* place of an answer that did not come, and the two that close the response, *)
(* which carry no text (finish_reason "stop" and [DONE], here one frame).     *)
NoResponse == [kind |-> "none", n |-> 0]
Unavailable == [kind |-> "unavailable", n |-> 0]
Stop == [kind |-> "stop", n |-> 0]

Item == [kind : {"text", "other", "sentinel"}, n : Nat]
Frame == [kind : {"text", "none", "unavailable", "stop"}, n : Nat]

Pooled == {"verify", "step"}          \* on a thread of the pool
Waiting == {"verify?", "step?"}       \* in line for one
Over == {"refused", "over", "dropped"}

TypeOK ==
  /\ stage \in [Stream -> {"new"} \cup Waiting \cup Pooled \cup Over]
  /\ line \in Seq(Stream)
  /\ worker \in [Stream -> {"none", "running", "ending", "done", "failed"}]
  /\ events \in [Stream -> 0 .. MaxEvents]
  /\ said \in [Stream -> Nat]
  /\ queue \in [Stream -> Seq(Item)]
  /\ sse \in [Stream -> {"silent", "texts", "stop", "end"}]
  /\ wire \in [Stream -> Seq(Frame)]
  /\ console \in [Stream -> {"reading", "answered", "lost", "gone"}]
  /\ shown \in [Stream -> Seq(Frame)]

Init ==
  /\ stage = [r \in Stream |-> "new"]
  /\ line = << >>
  /\ worker = [s \in Stream |-> "none"]
  /\ events = [s \in Stream |-> 0]
  /\ said = [s \in Stream |-> 0]
  /\ queue = [s \in Stream |-> << >>]
  /\ sse = [s \in Stream |-> "silent"]
  /\ wire = [s \in Stream |-> << >>]
  /\ console = [s \in Stream |-> "reading"]
  /\ shown = [s \in Stream |-> << >>]

-----------------------------------------------------------------------------
(* The pool of threads. *)

Busy == {s \in Stream : stage[s] \in Pooled}

(* A question arrives; its token is verified on a thread of the pool. *)
Arrive(s) ==
  /\ stage[s] = "new"
  /\ stage' = [stage EXCEPT ![s] = "verify?"]
  /\ line' = Append(line, s)
  /\ UNCHANGED <<runVars, queue, sse, wire, console, shown>>

(* Whoever has waited longest gets the next free thread. *)
Admit ==
  /\ line # << >>
  /\ Cardinality(Busy) < PoolSize
  /\ LET s == Head(line) IN
       stage' = [stage EXCEPT ![s] = IF @ = "verify?" THEN "verify" ELSE "step"]
  /\ line' = Tail(line)
  /\ UNCHANGED <<runVars, queue, sse, wire, console, shown>>

(* Verified: the question waits for its first step, ... *)
Verified(s) ==
  /\ stage[s] = "verify"
  /\ stage' = [stage EXCEPT ![s] = "step?"]
  /\ line' = Append(line, s)
  /\ UNCHANGED <<runVars, queue, sse, wire, console, shown>>

(* ... or is refused, which is all that any other request does in the pool. *)
Refused(s) ==
  /\ s \in Faulty
  /\ stage[s] = "verify"
  /\ stage' = [stage EXCEPT ![s] = "refused"]
  /\ UNCHANGED <<line, runVars, queue, sse, wire, console, shown>>

-----------------------------------------------------------------------------
(* The worker thread. *)

(* mutant: the agent runs on a thread of the pool *)
StartWorker_InPool(s) ==
  /\ stage[s] = "step"
  /\ worker[s] = "none"
  /\ Cardinality(Busy) < PoolSize
  /\ worker' = [worker EXCEPT ![s] = "running"]
  /\ UNCHANGED <<poolVars, events, said, queue, sse, wire, console, shown>>

(* The first step of the generator starts the worker, ... *)
StartWorker(s) ==
  /\ stage[s] = "step"
  /\ worker[s] = "none"
  /\ worker' = [worker EXCEPT ![s] = "running"]
  /\ UNCHANGED <<poolVars, events, said, queue, sse, wire, console, shown>>

(* ... which runs the agent and puts its events, ... *)
PutEvent(s, item) ==
  /\ worker[s] = "running"
  /\ events[s] < MaxEvents
  /\ events' = [events EXCEPT ![s] = @ + 1]
  /\ said' = [said EXCEPT ![s] = IF item = Other THEN @ ELSE @ + 1]
  /\ queue' = [queue EXCEPT ![s] = Append(@, item)]
  /\ UNCHANGED <<poolVars, worker, sse, wire, console, shown>>

Return(s) ==
  /\ worker[s] = "running"
  /\ worker' = [worker EXCEPT ![s] = "ending"]
  /\ UNCHANGED <<poolVars, events, said, queue, sse, wire, console, shown>>

(* mutant: the end is put before the error *)
Raise_AfterEnd(s) ==
  /\ s \in Faulty
  /\ worker[s] = "running"
  /\ worker' = [worker EXCEPT ![s] = "done"]
  /\ said' = [said EXCEPT ![s] = @ + 1]
  /\ queue' = [queue EXCEPT ![s] = @ \o <<Sentinel, Text(said[s] + 1)>>]
  /\ UNCHANGED <<poolVars, events, sse, wire, console, shown>>

(* ... says what went wrong if the run raises, ... *)
Raise(s) ==
  /\ s \in Faulty
  /\ worker[s] = "running"
  /\ worker' = [worker EXCEPT ![s] = "ending"]
  /\ said' = [said EXCEPT ![s] = @ + 1]
  /\ queue' = [queue EXCEPT ![s] = Append(@, Text(said[s] + 1))]
  /\ UNCHANGED <<poolVars, events, sse, wire, console, shown>>

(* mutant: the end is marked by None *)
PutSentinel_None(s) ==
  /\ worker[s] = "ending"
  /\ worker' = [worker EXCEPT ![s] = "done"]
  /\ queue' = [queue EXCEPT ![s] = Append(@, [kind |-> "none", n |-> 0])]
  /\ UNCHANGED <<poolVars, events, said, sse, wire, console, shown>>

(* ... and puts the sentinel in any case. *)
PutSentinel(s) ==
  /\ worker[s] = "ending"
  /\ worker' = [worker EXCEPT ![s] = "done"]
  /\ queue' = [queue EXCEPT ![s] = Append(@, Sentinel)]
  /\ UNCHANGED <<poolVars, events, said, sse, wire, console, shown>>

-----------------------------------------------------------------------------
(* The generator: a step of it ends with a frame, and the thread is given     *)
(* back.  The next step waits in line again, unless nobody reads any more.    *)
Yield(s, frame) ==
  IF console[s] = "reading"
  THEN /\ wire' = [wire EXCEPT ![s] = Append(@, frame)]
       /\ stage' = [stage EXCEPT ![s] = "step?"]
       /\ line' = Append(line, s)
  ELSE /\ stage' = [stage EXCEPT ![s] = "dropped"]
       /\ UNCHANGED <<wire, line>>

(* Nothing could be started: the error is the answer. *)
ChatFails(s) ==
  /\ s \in Faulty
  /\ stage[s] = "step"
  /\ worker[s] = "none"
  /\ worker' = [worker EXCEPT ![s] = "failed"]
  /\ said' = [said EXCEPT ![s] = 1]
  /\ sse' = [sse EXCEPT ![s] = "stop"]
  /\ Yield(s, Text(1))
  /\ UNCHANGED <<events, queue, console, shown>>

Taken(s, item) ==
  /\ stage[s] = "step"
  /\ queue[s] # << >>
  /\ Head(queue[s]) = item
  /\ queue' = [queue EXCEPT ![s] = Tail(@)]

(* iter_text drops what is not a text of the answer, and goes on. *)
DropOther(s) ==
  /\ Taken(s, Other)
  /\ UNCHANGED <<poolVars, runVars, sse, wire, console, shown>>

YieldText(s) ==
  /\ \E n \in 1 .. said[s] : Taken(s, Text(n)) /\ Yield(s, Text(n))
  /\ sse' = [sse EXCEPT ![s] = "texts"]
  /\ UNCHANGED <<runVars, console, shown>>

(* mutant: an empty answer ends at once *)
TakeSentinel_Silent(s) ==
  /\ Taken(s, Sentinel)
  /\ Yield(s, Stop)
  /\ sse' = [sse EXCEPT ![s] = "end"]
  /\ UNCHANGED <<runVars, console, shown>>

(* The sentinel ends the answer; if it was empty, something is said instead. *)
TakeSentinel(s) ==
  /\ Taken(s, Sentinel)
  /\ Yield(s, IF sse[s] = "silent" THEN NoResponse ELSE Stop)
  /\ sse' = [sse EXCEPT ![s] = IF @ = "silent" THEN "stop" ELSE "end"]
  /\ UNCHANGED <<runVars, console, shown>>

YieldStop(s) ==
  /\ stage[s] = "step"
  /\ sse[s] = "stop"
  /\ Yield(s, Stop)
  /\ sse' = [sse EXCEPT ![s] = "end"]
  /\ UNCHANGED <<runVars, queue, console, shown>>

EndResponse(s) ==
  /\ stage[s] = "step"
  /\ sse[s] = "end"
  /\ stage' = [stage EXCEPT ![s] = "over"]
  /\ UNCHANGED <<line, runVars, queue, sse, wire, console, shown>>

-----------------------------------------------------------------------------
(* The console. *)

(* It appends the text of every frame that has one to the answer, ... *)
ReadFrame(s) ==
  /\ console[s] = "reading"
  /\ wire[s] # << >>
  /\ wire' = [wire EXCEPT ![s] = Tail(@)]
  /\ shown' = IF Head(wire[s]).kind \in {"text", "none"}
              THEN [shown EXCEPT ![s] = Append(@, Head(wire[s]))]
              ELSE shown
  /\ UNCHANGED <<poolVars, runVars, queue, sse, console>>

(* ... until the response ends (a refusal is a response without frames), ... *)
ReadEnd(s) ==
  /\ console[s] = "reading"
  /\ wire[s] = << >>
  /\ stage[s] \in {"refused", "over"}
  /\ console' = [console EXCEPT ![s] = "answered"]
  /\ UNCHANGED <<poolVars, runVars, queue, sse, wire, shown>>

(* ... or breaks: what has come stays, or else an apology is shown. *)
LoseConnection(s) ==
  /\ s \in Faulty
  /\ console[s] = "reading"
  /\ stage[s] # "new"
  /\ console' = [console EXCEPT ![s] = "lost"]
  /\ shown' = [shown EXCEPT ![s] = IF @ = << >> THEN <<Unavailable>> ELSE @]
  /\ wire' = [wire EXCEPT ![s] = << >>]
  /\ UNCHANGED <<poolVars, runVars, queue, sse>>

(* The analyst closes the page. *)
Leave(s) ==
  /\ s \in Faulty
  /\ console[s] = "reading"
  /\ console' = [console EXCEPT ![s] = "gone"]
  /\ wire' = [wire EXCEPT ![s] = << >>]
  /\ UNCHANGED <<poolVars, runVars, queue, sse, shown>>

-----------------------------------------------------------------------------
WorkerStep(s) ==
  \/ \E item \in {Text(said[s] + 1), Other} : PutEvent(s, item)
  \/ Return(s)
  \/ Raise(s)
  \/ PutSentinel(s)

GeneratorStep(s) ==
  \/ StartWorker(s)
  \/ ChatFails(s)
  \/ DropOther(s)
  \/ YieldText(s)
  \/ TakeSentinel(s)
  \/ YieldStop(s)
  \/ EndResponse(s)

ConsoleStep(s) == ReadFrame(s) \/ ReadEnd(s)

Next ==
  \/ Admit
  \/ \E s \in Stream :
       \/ Arrive(s)
       \/ Verified(s)
       \/ Refused(s)
       \/ WorkerStep(s)
       \/ GeneratorStep(s)
       \/ ConsoleStep(s)
       \/ LoseConnection(s)
       \/ Leave(s)

(* Threads that can go on do, the pool admits whom it can, the console reads,  *)
(* and a run of the agent comes to its end.  Nobody has to ask, fail or leave. *)
Fairness ==
  /\ WF_vars(Admit)
  /\ \A s \in Stream :
       /\ WF_vars(Verified(s))
       /\ WF_vars(WorkerStep(s))
       /\ WF_vars(GeneratorStep(s))
       /\ WF_vars(ConsoleStep(s))

Spec == Init /\ [][Next]_vars /\ Fairness

-----------------------------------------------------------------------------
(* Properties. *)

(* The texts among the frames shown, by number.  What is shown in the place of *)
(* an answer is no text; together with texts it would be one, out of order.   *)
Texts(frames) ==
  IF frames \in {<<NoResponse>>, <<Unavailable>>}
  THEN << >>
  ELSE [k \in DOMAIN frames |-> frames[k].n]

Spoken == [s \in Stream |-> worker[s] \in {"ending", "done", "failed"}]
TextsShown == [s \in Stream |-> Texts(shown[s])]
Outcome ==
  [s \in Stream |->
    IF console[s] = "reading" THEN "open"
    ELSE IF console[s] = "answered" /\ stage[s] = "over" THEN "whole"
    ELSE "broken"]

Answer == INSTANCE AnswerChannel WITH
  spoken <- Spoken, shown <- TextsShown, outcome <- Outcome

(* Threads, queue, generator and frames implement the channel: the analyst    *)
(* sees the texts of the answer in order, none twice, none of the agent's     *)
(* reasoning, and all of them if the response ends undisturbed (iter_text,    *)
(* _pump, "Stream the crew's reply").                                         *)
ImplementsChannel == Answer!Spec

(* A response that ends undisturbed has said something, if only that there is *)
(* no answer; and so has one whose connection was lost.                       *)
NeverSilent ==
  \A s \in Stream :
    \/ console[s] = "answered" /\ stage[s] = "over"
    \/ console[s] = "lost"
    => shown[s] # << >>

(* Every question gets through the pool and comes to its end, however many     *)
(* answers wait for their models, whether or not anybody still reads them     *)
(* (the worker is a "dedicated" thread, _chat_stream).                        *)
EveryStreamEnds == \A s \in Stream : stage[s] # "new" ~> stage[s] \in Over
=============================================================================
