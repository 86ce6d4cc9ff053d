------------------------------- MODULE Panel -------------------------------
(***************************************************************************)
(* The panel's runtime (internal/panel): one goroutine drives the line in  *)
(* Run, any number submit requests through Send, InstallKey and            *)
(* SetCommunication, one consumes Events, and anyone may cancel Run's      *)
(* context or Close the port.  The channels between them are modelled; the *)
(* bus behind Run is Bus.tla, and here only takes or refuses a request and *)
(* yields an event or none from each exchange.                             *)
(***************************************************************************)
EXTENDS Integers, Sequences, FiniteSets

CONSTANTS
  Callers,        \* goroutines that submit requests, one call at a time
  MaxCalls,       \* bound: how many calls each of them makes
  MaxEvents,      \* bound: exchanges that yield an event
  RequestQueue,   \* capacity of the requests channel
  EventBuffer     \* capacity of the events channel; zero is a rendezvous

ASSUME PanelAssumption ==
  /\ MaxCalls \in [Callers -> Nat] /\ MaxEvents \in Nat
  /\ RequestQueue \in Nat \ {0} /\ EventBuffer \in Nat

VARIABLES
  run,        \* where the Run goroutine is
  result,     \* what Run returns
  cancelled,  \* Run's context is done
  port,       \* "Open" or "Closed"
  requests,   \* the requests channel
  done,       \* the done channel of every request made
  stopped,    \* the stopped channel is closed
  events,     \* the events channel, what it is handing to a waiting receiver included
  closed,     \* the events channel is closed
  call,       \* where each caller is in its call
  calls,      \* how many calls each caller has begun
  consumer,   \* where the consumer of Events is
  accepted,   \* history: the requests the bus took, in order
  outcome,    \* history: what each call returned
  produced,   \* history: how many events the bus yielded
  received    \* history: the events the consumer took

line  == <<run, result, cancelled, port, stopped, closed>>
app   == <<call, calls, outcome>>
flow  == <<events, consumer, produced, received>>
asked == <<requests, done, accepted>>
vars  == <<line, app, flow, asked>>

Request == UNION {{c} \X (1..MaxCalls[c]) : c \in Callers}

Init ==
  /\ run = "New" /\ result = "None" /\ cancelled = FALSE /\ port = "Open"
  /\ stopped = FALSE /\ closed = FALSE
  /\ requests = <<>> /\ done = [r \in Request |-> "None"] /\ accepted = <<>>
  /\ events = <<>> /\ consumer = "Handling" /\ produced = 0 /\ received = <<>>
  /\ call = [c \in Callers |-> "Idle"] /\ calls = [c \in Callers |-> 0]
  /\ outcome = [r \in Request |-> "None"]

-----------------------------------------------------------------------------
(* The Run goroutine. *)

\* Run is called once; a bus without devices ends it there.
Start ==
  /\ run = "New"
  /\ \/ run' = "Top" /\ UNCHANGED result
     \/ run' = "Stopping" /\ result' = "Failed"
  /\ UNCHANGED <<cancelled, port, stopped, closed, app, flow, asked>>

Top ==
  /\ run = "Top"
  /\ IF cancelled THEN run' = "Stopping" /\ result' = "Nil"
                  ELSE run' = "Drain" /\ UNCHANGED result
  /\ UNCHANGED <<cancelled, port, stopped, closed, app, flow, asked>>

\* Mistake: the newest request is taken first.
DrainNewest ==
  /\ run = "Drain" /\ requests # <<>>
  /\ LET r == requests[Len(requests)] IN
       /\ requests' = SubSeq(requests, 1, Len(requests) - 1)
       /\ \/ accepted' = Append(accepted, r) /\ done' = [done EXCEPT ![r] = "Accepted"]
          \/ done' = [done EXCEPT ![r] = "Refused"] /\ UNCHANGED accepted
  /\ UNCHANGED <<line, app, flow>>

\* drainRequests takes one request to the bus, which takes it or refuses it.
\* The done channel has room for the one answer, so this never blocks.
DrainOne ==
  /\ run = "Drain" /\ requests # <<>>
  /\ LET r == Head(requests) IN
       /\ requests' = Tail(requests)
       /\ \/ accepted' = Append(accepted, r) /\ done' = [done EXCEPT ![r] = "Accepted"]
          \/ done' = [done EXCEPT ![r] = "Refused"] /\ UNCHANGED accepted
  /\ UNCHANGED <<line, app, flow>>

DrainEnd ==
  /\ run = "Drain" /\ requests = <<>>
  /\ run' = "Write"
  /\ UNCHANGED <<result, cancelled, port, stopped, closed, app, flow, asked>>

\* cycle: encode and write the frame the bus chose.  Encoding may fail, a write
\* may fail or exceed its deadline, and a closed port always fails.
Write ==
  /\ run = "Write"
  /\ \/ port = "Open" /\ run' = "Sleep"
     \/ run' = "Failing"
  /\ UNCHANGED <<result, cancelled, port, stopped, closed, app, flow, asked>>

\* The turnaround ends early when the context is done.
Sleep ==
  /\ run = "Sleep"
  /\ \/ run' = "Await"
     \/ cancelled /\ run' = "Failing"
  /\ UNCHANGED <<result, cancelled, port, stopped, closed, app, flow, asked>>

\* await: a reply, a corrupted frame or the read deadline gives the bus its
\* answer or its miss, with or without an event; any other error is returned.
Await ==
  /\ run = "Await"
  /\ \/ port = "Open" /\ run' = "Top" /\ UNCHANGED produced
     \/ /\ port = "Open" /\ produced < MaxEvents
        /\ run' = "Emit" /\ produced' = produced + 1
     \/ run' = "Failing" /\ UNCHANGED produced
  /\ UNCHANGED <<result, cancelled, port, stopped, closed, events, consumer, received,
                 app, asked>>

\* A send on the channel proceeds when the buffer has room or the consumer is
\* waiting to receive.
Room == Len(events) < EventBuffer + IF consumer = "Receiving" THEN 1 ELSE 0

\* Mistake: an event that finds no room is dropped.
EmitOrDrop ==
  /\ run = "Emit" /\ run' = "Top"
  /\ events' = IF Room THEN Append(events, produced) ELSE events
  /\ UNCHANGED <<result, cancelled, port, stopped, closed, consumer, produced, received,
                 app, asked>>

\* Mistake: the context is not watched while the buffer is full.
EmitBlocking ==
  /\ run = "Emit" /\ Room
  /\ events' = Append(events, produced) /\ run' = "Top"
  /\ UNCHANGED <<result, cancelled, port, stopped, closed, consumer, produced, received,
                 app, asked>>

\* emit waits for room or for the context.
Emit ==
  /\ run = "Emit"
  /\ \/ Room /\ events' = Append(events, produced) /\ run' = "Top"
     \/ cancelled /\ run' = "Failing" /\ UNCHANGED events
  /\ UNCHANGED <<result, cancelled, port, stopped, closed, consumer, produced, received,
                 app, asked>>

\* Run looks at its context again before it returns an error.
Failing ==
  /\ run = "Failing"
  /\ result' = IF cancelled THEN "Nil" ELSE "Failed"
  /\ run' = "Stopping"
  /\ UNCHANGED <<cancelled, port, stopped, closed, app, flow, asked>>

\* The deferred calls, last one first.
Return ==
  /\ \/ run = "Stopping" /\ stopped' = TRUE /\ run' = "Closing" /\ UNCHANGED closed
     \/ run = "Closing" /\ closed' = TRUE /\ run' = "Returned" /\ UNCHANGED stopped
  /\ UNCHANGED <<result, cancelled, port, app, flow, asked>>

Run == Start \/ Top \/ DrainOne \/ DrainEnd \/ Write \/ Sleep \/ Await \/ Emit
         \/ Failing \/ Return

-----------------------------------------------------------------------------
(* The application's goroutines. *)

Current(c) == <<c, calls[c]>>

Returns(c, what) ==
  /\ call' = [call EXCEPT ![c] = "Idle"]
  /\ outcome' = [outcome EXCEPT ![Current(c)] = what]
  /\ UNCHANGED calls

\* Send, InstallKey or SetCommunication is called.
Begin(c) ==
  /\ call[c] = "Idle" /\ calls[c] < MaxCalls[c]
  /\ call' = [call EXCEPT ![c] = "Submitting"]
  /\ calls' = [calls EXCEPT ![c] = @ + 1]
  /\ UNCHANGED <<line, outcome, flow, asked>>

\* Mistake: the call returns as soon as the channel has the request.
SubmitAndReturn(c) ==
  /\ call[c] = "Submitting" /\ Len(requests) < RequestQueue
  /\ requests' = Append(requests, Current(c))
  /\ Returns(c, "Accepted")
  /\ UNCHANGED <<line, flow, done, accepted>>

\* The channel has room.  This may be chosen after Run has returned, too.
Submit(c) ==
  /\ call[c] = "Submitting" /\ Len(requests) < RequestQueue
  /\ requests' = Append(requests, Current(c))
  /\ call' = [call EXCEPT ![c] = "Waiting"]
  /\ UNCHANGED <<line, calls, outcome, flow, done, accepted>>

Answered(c) ==
  /\ call[c] = "Waiting" /\ done[Current(c)] # "None"
  /\ Returns(c, done[Current(c)])
  /\ UNCHANGED <<line, flow, asked>>

\* Mistake: only a call that has not been handed over watches for the end of Run.
NotRunningUnlessWaiting(c) ==
  /\ call[c] = "Submitting" /\ stopped
  /\ Returns(c, "NotRunning")
  /\ UNCHANGED <<line, flow, asked>>

\* Both selects watch for the end of Run.
NotRunning(c) ==
  /\ call[c] # "Idle" /\ stopped
  /\ Returns(c, "NotRunning")
  /\ UNCHANGED <<line, flow, asked>>

\* The call's own context ends; what the channel has stays there.
GiveUp(c) ==
  /\ call[c] # "Idle"
  /\ Returns(c, "Cancelled")
  /\ UNCHANGED <<line, flow, asked>>

\* The consumer goes back to the channel, takes an event, or sees its end.
Receive ==
  /\ consumer = "Handling" /\ consumer' = "Receiving"
  /\ UNCHANGED <<line, app, events, produced, received, asked>>

Take ==
  /\ consumer = "Receiving" /\ events # <<>>
  /\ received' = Append(received, Head(events)) /\ events' = Tail(events)
  /\ consumer' = "Handling"
  /\ UNCHANGED <<line, app, produced, asked>>

SeeEnd ==
  /\ consumer = "Receiving" /\ events = <<>> /\ closed
  /\ consumer' = "Done"
  /\ UNCHANGED <<line, app, events, produced, received, asked>>

Cancel ==
  /\ ~cancelled /\ cancelled' = TRUE
  /\ UNCHANGED <<run, result, port, stopped, closed, app, flow, asked>>

\* Close, from any goroutine; closeOnce makes a second call do nothing.
Close ==
  /\ port = "Open" /\ port' = "Closed"
  /\ UNCHANGED <<run, result, cancelled, stopped, closed, app, flow, asked>>

Next ==
  \/ Run
  \/ \E c \in Callers :
       Begin(c) \/ Submit(c) \/ Answered(c) \/ NotRunning(c) \/ GiveUp(c)
  \/ Receive \/ Take \/ SeeEnd \/ Cancel \/ Close

\* Run is scheduled and its system calls have deadlines; a ready select or
\* receive is scheduled.  Nobody has to call Run, to make a call, to end a
\* context, to close the port, or to go back to the events channel.
Fairness ==
  /\ WF_vars(Run /\ run # "New")
  /\ WF_vars(Take) /\ WF_vars(SeeEnd)
  /\ \A c \in Callers :
       WF_vars(Submit(c)) /\ WF_vars(Answered(c)) /\ WF_vars(NotRunning(c))

Spec == Init /\ [][Next]_vars /\ Fairness

-----------------------------------------------------------------------------
(* Properties *)

Times(r) == Cardinality({k \in 1..Len(accepted) : accepted[k] = r})

\* A call that returned nil has its request on the bus exactly once, one that
\* the bus refused has not, and no request is ever put there twice, whichever
\* select fired and however often callers gave up (Send, drainRequests).
AcceptedMeansQueued ==
  \A r \in Request :
    /\ Times(r) <= 1
    /\ outcome[r] = "Accepted" => Times(r) = 1
    /\ outcome[r] = "Refused"  => Times(r) = 0

\* The requests of one goroutine reach the bus in the order of its calls, those
\* it had given up waiting for included.
CallerOrder ==
  \A j, k \in 1..Len(accepted) :
    j < k /\ accepted[j][1] = accepted[k][1] => accepted[j][2] < accepted[k][2]

\* No event is dropped, repeated or reordered between the bus and the consumer
\* (Events, emit); only a cancelled Run may leave its last one unpublished.
NoEventForgotten ==
  LET seen == received \o events IN
    /\ \A k \in 1..Len(seen) : seen[k] = k
    /\ Len(seen) # produced =>
         Len(seen) = produced - 1 /\ (run = "Emit" \/ cancelled)

\* Cancelling Run's context ends it, with a full buffer and a consumer that
\* never comes back too (Run, emit).
CancelEndsRun == cancelled /\ run # "New" ~> run = "Returned"

\* The consumer keeps going back to the events channel.
Drains == []<>(consumer # "Handling")

\* While the events are drained nothing waits for ever: every call returns without
\* help from its context, during Run and once it has returned, and closing the port
\* ends Run (Send, stopped, Close).
EveryCallReturns ==
  Drains =>
    /\ \A c \in Callers : call[c] # "Idle" /\ run # "New" ~> call[c] = "Idle"
    /\ port = "Closed" /\ run # "New" ~> run = "Returned"
=============================================================================
