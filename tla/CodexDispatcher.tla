--------------------------- MODULE CodexDispatcher ---------------------------
(***************************************************************************)
(* The codex back end of kres-llm: any number of tasks share one           *)
(* app-server process through one dispatcher task.  A call locks the slot, *)
(* starts a dispatcher if there is none, sends its command into the        *)
(* dispatcher's channel and awaits a one-shot answer that nobody but the   *)
(* dispatcher can give.  The dispatcher opens one thread per command and   *)
(* sorts the server's notifications by thread.  A dispatcher that gives up *)
(* returns, which drops its receiver and its client: the next sender finds *)
(* the channel closed and starts a new one.  There is at most one live     *)
(* dispatcher, because a new one is started only where the last is gone.   *)
(*                                                                         *)
(* A thread is named by the call that opened it.  The app-server may fail  *)
(* a request or a turn, close its pipe, say nothing without closing it, or *)
(* write for ever.  The wait for its next message has a time limit; the    *)
(* handshake of a new one, the replies to thread_start and turn_start, and *)
(* the write of the answer to a request of its own have none.              *)
(***************************************************************************)
EXTENDS Naturals, Sequences, FiniteSets

CONSTANTS
    Task,       \* the callers
    NoTask,
    MaxDeltas,  \* bound: deltas the server streams for one turn
    MaxUnread   \* bound: no other message is written behind so many unread ones

ASSUME BoundAssumption == NoTask \notin Task /\ MaxDeltas \in Nat /\ MaxUnread \in Nat

VARIABLES
    call,       \* call[t]: where the call of task t is
    tries,      \* the passes of t through the loop of submit_codex_request
    lock,       \* who holds the mutex of the slot
    slot,       \* does the slot hold a sender?
    disp,       \* where the dispatcher is
    queue,      \* the commands in its channel
    starting,   \* the command start_codex_turn is at
    active,     \* the turns in flight
    text,       \* text[t]: the deltas collected for the turn of t
    answer,     \* answer[t]: the text t was answered with
    server,     \* the app-server process
    thread,     \* thread[t]: the thread of t's turn, at the server
    streams,    \* streams[t]: the deltas the server has sent for that thread
    outbox      \* the messages the server has written and nobody has read

client == <<call, tries, lock, slot, answer>>
loop == <<disp, queue, starting, active, text>>
remote == <<server, thread, streams, outbox>>
vars == <<client, loop, remote>>

Calls == {"idle", "submit", "waiting", "ok", "failed"}
Places == {"none", "recv", "drain", "thread", "turn", "wait", "reply", "closing", "gone"}

Init ==
    /\ call = [t \in Task |-> "idle"] /\ tries = [t \in Task |-> 0]
    /\ lock = NoTask /\ slot = FALSE
    /\ answer = [t \in Task |-> <<>>]
    /\ disp = "none" /\ queue = <<>> /\ starting = NoTask
    /\ active = {} /\ text = [t \in Task |-> <<>>]
    /\ server = "up" /\ streams = [t \in Task |-> 0]
    /\ thread = [t \in Task |-> "none"]
    /\ outbox = <<>>

Alive == disp \notin {"none", "gone"}
Failed(ts) == call' = [t \in Task |-> IF t \in ts THEN "failed" ELSE call[t]]

-----------------------------------------------------------------------------
(* submit_codex_request                                                     *)

Call(t) ==
    /\ call[t] = "idle"
    /\ call' = [call EXCEPT ![t] = "submit"]
    /\ UNCHANGED <<tries, lock, slot, answer, loop, remote>>

Lock(t) ==
    /\ call[t] = "submit" /\ lock = NoTask
    /\ lock' = t
    /\ UNCHANGED <<call, tries, slot, answer, loop, remote>>

\* start_codex_dispatcher, under the lock: a new process with nothing to say, once it
\* has answered the handshake.
StartDispatcher(t) ==
    /\ lock = t /\ ~slot
    /\ \/ /\ slot' = TRUE
          /\ disp' = "recv" /\ queue' = <<>> /\ starting' = NoTask /\ active' = {}
          /\ server' = "up" /\ outbox' = <<>> /\ thread' = [u \in Task |-> "none"]
          /\ UNCHANGED <<call, lock>>
       \/ /\ call' = [call EXCEPT ![t] = "failed"]
          /\ lock' = NoTask
          /\ UNCHANGED <<slot, disp, queue, starting, active, server, outbox, thread>>
    /\ UNCHANGED <<tries, answer, text, streams>>

\* sender.send: it fails once the receiver is dropped, and then the slot is
\* emptied and the loop goes round again, twice in all.
Send(t) ==
    /\ lock = t /\ slot
    /\ lock' = NoTask
    /\ IF Alive
       THEN /\ queue' = Append(queue, t)
            /\ call' = [call EXCEPT ![t] = "waiting"]
            /\ UNCHANGED <<slot, tries>>
       ELSE /\ slot' = FALSE
            /\ tries' = [tries EXCEPT ![t] = @ + 1]
            /\ call' = [call EXCEPT ![t] = IF tries[t] = 0 THEN "submit" ELSE "failed"]
            /\ UNCHANGED queue
    /\ UNCHANGED <<answer, disp, starting, active, text, remote>>

-----------------------------------------------------------------------------
(* run_codex_dispatcher                                                     *)

\* With no turn in flight it blocks on the channel; otherwise it takes what
\* is there and goes on to wait for the server.
TakeCommand ==
    /\ disp \in {"recv", "drain"} /\ queue # <<>>
    /\ starting' = Head(queue) /\ queue' = Tail(queue)
    /\ disp' = "thread"
    /\ UNCHANGED <<client, active, text, remote>>

NoCommand ==
    /\ disp = "drain" /\ queue = <<>>
    /\ disp' = "wait"
    /\ UNCHANGED <<client, queue, starting, active, text, remote>>

\* start_codex_turn awaits the reply to thread_start, then the one to turn_start.
ThreadStarted ==
    /\ disp = "thread" /\ server = "up"
    /\ disp' = "turn"
    /\ UNCHANGED <<client, queue, starting, active, text, remote>>

TurnStarted ==
    /\ disp = "turn" /\ server = "up"
    /\ active' = active \cup {starting}
    /\ text' = [text EXCEPT ![starting] = <<>>]
    /\ thread' = [thread EXCEPT ![starting] = "running"]
    /\ disp' = "drain" /\ starting' = NoTask
    /\ UNCHANGED <<client, queue, server, streams, outbox>>

\* If either fails the call is answered at once, whether or not the turn runs at the
\* server. A server that has gone fails both.
StartFails ==
    /\ disp \in {"thread", "turn"}
    /\ Failed({starting})
    /\ \/ UNCHANGED thread
       \/ disp = "turn" /\ thread' = [thread EXCEPT ![starting] = "running"]
    /\ disp' = "drain" /\ starting' = NoTask
    /\ UNCHANGED <<tries, lock, slot, answer, queue, active, text, server, streams, outbox>>

\* The head of the loop after a message, or after a start that failed.
Again(left) == IF left = {} THEN "recv" ELSE "drain"

Message == Head(outbox)

\* Mutant: the text goes to some turn in flight.
OnDeltaAny ==
    /\ Message.kind = "delta"
    /\ IF active = {} THEN UNCHANGED text
       ELSE \E t \in active : text' = [text EXCEPT ![t] = Append(@, Message.thread)]
    /\ disp' = Again(active)
    /\ UNCHANGED <<call, answer, active>>

OnDelta ==
    /\ Message.kind = "delta"
    /\ text' = IF Message.thread \in active
               THEN [text EXCEPT ![Message.thread] = Append(@, Message.thread)] ELSE text
    /\ disp' = Again(active)
    /\ UNCHANGED <<call, answer, active>>

OnCompleted ==
    /\ Message.kind = "completed"
    /\ IF Message.thread \in active
       THEN /\ call' = [call EXCEPT ![Message.thread] = IF Message.ok THEN "ok" ELSE "failed"]
            /\ answer' = [answer EXCEPT ![Message.thread] = IF Message.ok THEN text[Message.thread] ELSE @]
       ELSE UNCHANGED <<call, answer>>
    /\ active' = active \ {Message.thread}
    /\ disp' = Again(active')
    /\ UNCHANGED text

OnError ==
    /\ Message.kind = "error"
    /\ Failed({Message.thread} \cap active)
    /\ active' = active \ {Message.thread}
    /\ disp' = Again(active')
    /\ UNCHANGED <<answer, text>>

\* Token usage, the other notifications and errors the server will retry: all they do
\* is that the idle time starts again.
OnNotice ==
    /\ Message.kind = "notice"
    /\ disp' = Again(active)
    /\ UNCHANGED <<call, answer, active, text>>

\* A request of the server is refused.
OnRequest ==
    /\ Message.kind = "request"
    /\ disp' = "reply"
    /\ UNCHANGED <<call, answer, active, text>>

NextMessage ==
    /\ disp = "wait" /\ outbox # <<>>
    /\ OnDelta \/ OnCompleted \/ OnError \/ OnNotice \/ OnRequest
    /\ outbox' = Tail(outbox)
    /\ UNCHANGED <<tries, lock, slot, queue, starting, server, thread, streams>>

\* respond_error, once the pipe has taken it, or is broken.
Replied ==
    /\ disp = "reply"
    /\ disp' = Again(active)
    /\ UNCHANGED <<client, queue, starting, active, text, remote>>

\* fail_codex_turns
FailTurns ==
    /\ Failed(active)
    /\ active' = {}
    /\ disp' = "closing"
    /\ UNCHANGED <<tries, lock, slot, answer, queue, starting, text, remote>>

\* Mutant: the wait starts over, as it did before the time limit.
IdleAgain == disp = "wait" /\ outbox = <<>> /\ server = "up" /\ UNCHANGED vars

\* Nothing came for CODEX_IDLE_TIMEOUT: the server is wedged, or works without
\* a word, or has no turn to speak of.
IdleTimeout == disp = "wait" /\ outbox = <<>> /\ server = "up" /\ FailTurns
\* The pipe is closed, or reading it fails.
Closed == disp = "wait" /\ outbox = <<>> /\ server = "closed" /\ FailTurns

\* The function returns: the receiver goes with the commands still in it, and
\* so do the senders of their answers.
Return ==
    /\ disp = "closing"
    /\ Failed({t \in Task : \E i \in DOMAIN queue : queue[i] = t})
    /\ queue' = <<>>
    /\ disp' = "gone"
    /\ UNCHANGED <<tries, lock, slot, answer, starting, active, text, remote>>

-----------------------------------------------------------------------------
(* The app-server: it streams deltas for the threads it has, ends a turn,   *)
(* or goes away; it need not do any of it.                                  *)

Write(m) == outbox' = Append(outbox, m) /\ UNCHANGED <<client, loop, server>>

ServerDelta(t) ==
    /\ server = "up" /\ thread[t] = "running" /\ streams[t] < MaxDeltas
    /\ streams' = [streams EXCEPT ![t] = @ + 1]
    /\ UNCHANGED thread
    /\ Write([kind |-> "delta", thread |-> t])

\* turn/completed ends a turn, with an error or without, and possibly after an
\* error notification.
ServerError(t) ==
    /\ server = "up" /\ thread[t] = "running"
    /\ thread' = [thread EXCEPT ![t] = "failed"]
    /\ UNCHANGED streams
    /\ Write([kind |-> "error", thread |-> t])

ServerCompletes(t) ==
    /\ server = "up" /\ thread[t] \in {"running", "failed"}
    /\ thread' = [thread EXCEPT ![t] = "done"]
    /\ UNCHANGED streams
    /\ \E ok \in BOOLEAN : Write([kind |-> "completed", thread |-> t, ok |-> ok])

\* What is about no turn, or changes none; there may be no end of it.
ServerChatters ==
    /\ server = "up" /\ Alive /\ Len(outbox) < MaxUnread
    /\ UNCHANGED <<thread, streams>>
    /\ \E kind \in {"notice", "request"} : Write([kind |-> kind, thread |-> NoTask])

ServerCloses ==
    /\ server = "up" /\ Alive
    /\ server' = "closed"
    /\ UNCHANGED <<client, loop, thread, streams, outbox>>

-----------------------------------------------------------------------------
Submission(t) == Lock(t) \/ StartDispatcher(t) \/ Send(t)

\* The steps the dispatcher takes by itself: of those that wait for the server without
\* a limit, the ones that the end of the server takes.
Dispatcher ==
    \/ TakeCommand \/ NoCommand \/ NextMessage \/ IdleTimeout \/ Closed \/ Return
    \/ server = "closed" /\ (StartFails \/ Replied)

\* The steps that need the server to do something.
ServerAnswers ==
    \/ ThreadStarted \/ TurnStarted
    \/ server = "up" /\ (StartFails \/ Replied)

Server(t) == ServerDelta(t) \/ ServerError(t) \/ ServerCompletes(t)

Next ==
    \/ \E t \in Task : Call(t) \/ Submission(t) \/ Server(t)
    \/ Dispatcher \/ ServerAnswers
    \/ ServerChatters \/ ServerCloses

\* The tasks and the dispatcher run, and the mutex is fair.  Nothing is asked of the
\* server: a handshake, a start or a refusal may wait for it for ever.
Fairness ==
    /\ \A t \in Task : SF_vars(Lock(t)) /\ WF_vars(Send(t))
    /\ WF_vars(Dispatcher)

Spec == Init /\ [][Next]_vars /\ Fairness

-----------------------------------------------------------------------------
(* Properties.                                                              *)

\* The shape of the state; a waiting call is known to a live dispatcher.
TypeOK ==
    /\ call \in [Task -> Calls] /\ tries \in [Task -> 0..2]
    /\ lock \in Task \cup {NoTask} /\ slot \in BOOLEAN /\ disp \in Places
    /\ queue \in Seq(Task) /\ starting \in Task \cup {NoTask} /\ active \subseteq Task
    /\ text \in [Task -> Seq(Task)] /\ answer \in [Task -> Seq(Task)]
    /\ server \in {"up", "closed"}
    /\ thread \in [Task -> {"none", "running", "failed", "done"}] /\ streams \in [Task -> 0..MaxDeltas]

\* A call that waits is in the channel, being started or in flight at a
\* dispatcher that lives: there is somebody to answer it.
NoOrphan ==
    \A t \in Task : call[t] = "waiting" =>
        /\ Alive
        /\ \/ t \in active
           \/ t = starting
           \/ \E i \in DOMAIN queue : queue[i] = t

\* An answer holds everything the server streamed for the thread of the call,
\* and nothing of another thread, however the turns interleave.
OwnAnswer ==
    \A t \in Task : call[t] = "ok" =>
        /\ \A i \in DOMAIN answer[t] : answer[t][i] = t
        /\ Len(answer[t]) = streams[t]

\* What the code awaits without a time limit: a new server's handshake, its replies
\* to a start, and its pipe to take a refusal.
Handshaking == lock # NoTask /\ ~slot
Starting    == disp \in {"thread", "turn"}
Refusing    == disp = "reply"

Returns(t) == (call[t] = "submit") ~> (call[t] \in {"ok", "failed"})

\* Every call returns, whatever the server does with the turns that run: completes
\* some and not others, closes its pipe, or falls silent without closing it, where the
\* idle limit answers the turns in flight and with them the commands that wait behind
\* (client.rs:2356-2374). The ways out are the server's: one wait the code does not
\* limit never ends, or the server writes for ever.
EveryCallReturns ==
    \/ <>[]Handshaking \/ <>[]Starting \/ <>[]Refusing
    \/ []<><<ServerChatters>>_vars
    \/ \A t \in Task : Returns(t)

\* No call waits for ever on a server that says nothing (the comment of the idle limit
\* has it that one silent subprocess no longer "wedges every later codex turn").
SilenceEnds == []<><<ServerChatters>>_vars \/ \A t \in Task : Returns(t)

\* The dispatcher waits for a message "while turns are in flight"
\* (client.rs:314-315): with none it must listen to the channel instead.
WaitsWithTurns == disp = "wait" => active # {}
=============================================================================
