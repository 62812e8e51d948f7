----------------------------- MODULE McpClient -----------------------------
(***************************************************************************)
(* One MCP server as kres uses it: McpClient and Transport (kres-mcp)      *)
(* behind the Arc<Mutex<McpClient>> that the fetchers of all tasks share,  *)
(* the two pipes, and the server process, which is external.               *)
(*                                                                         *)
(* Every await of call_with_timeout and read_matching is a point where the *)
(* caller can be dropped (the select! of gather and of the workflow runner *)
(* on the shutdown token) and, while it reads, where the timeout can fire. *)
(* A line too long for one read of the pipe arrives in two pieces, and     *)
(* read_line keeps the first piece in a buffer of its own future.          *)
(*                                                                         *)
(* Requests are their ids; a message on the server's stdout is the set of  *)
(* requests it is about, and its kind. The handshake of spawn, which has   *)
(* the client to itself and throws it away on any error, is left out.      *)
(***************************************************************************)
EXTENDS Integers, Sequences, FiniteSets

CONSTANTS
  Caller,     \* fetches that share the client
  CallBound,  \* bound of the model: requests sent over the client's life
  Room        \* bound of the model: pieces that fit into one pipe

ASSUME ConstantsAssumption ==
  /\ IsFiniteSet(Caller) /\ CallBound \in Nat /\ Room \in Nat \ {0}

VARIABLES
  queue,      \* callers in the mutex's queue; the first one holds it
  at,         \* the await the holder is in
  wanted,     \* id of the holder's request
  nextId,     \* next_id
  carry,      \* read_line holds the first piece of the line it is reading
  outcome,    \* how each request's call ended
  got,        \* the requests the line that ended the call was about
  stdin,      \* request bodies and newlines the server has not read
  stdout,     \* pieces of lines the client has not read
  alive,      \* the server process runs
  line,       \* bodies the server has read since the last newline
  todo,       \* lines of input, as sets of requests, the server has not answered
  rest        \* the line the server has written the first piece of

callVars   == <<queue, at, wanted, nextId, outcome, got>>
serverVars == <<alive, line, todo, rest>>
vars       == <<callVars, carry, stdin, stdout, serverVars>>

Id      == 1 .. CallBound
Newline == 0
Await   == {"lock", "body", "newline", "reading"}

\* How a call ends. "reply" is Ok or McpError::Rpc with the matching id,
\* "orphan" McpError::Rpc from a null-id error; "unsent", "torn" and "dropped"
\* are calls the caller gave up before the body, before the newline, reading.
Spoiled == {"json", "orphan"}
Outcome == {"reply", "timeout", "closed", "io", "unsent", "torn", "dropped"} \cup Spoiled

Kind    == {"reply", "orphan", "note"}
Message == [kind : Kind, about : SUBSET Id]
Piece   == [part : {"whole", "head", "tail"}, msg : Message]

InQueue(c) == \E i \in DOMAIN queue : queue[i] = c
Without(c) == SelectSeq(queue, LAMBDA d : d # c)

TypeOK ==
  /\ queue \in Seq(Caller) /\ at \in Await /\ carry \in BOOLEAN
  /\ wanted \in Id \cup {0} /\ nextId \in 1 .. CallBound + 1
  /\ outcome \in [Id -> Outcome \cup {"open"}] /\ got \in [Id -> SUBSET Id]
  /\ stdin \in Seq(Id \cup {Newline}) /\ stdout \in Seq(Piece)
  /\ alive \in BOOLEAN /\ line \subseteq Id
  /\ todo \subseteq SUBSET Id /\ rest \subseteq Message

Init ==
  /\ queue = <<>> /\ at = "lock" /\ wanted = 0 /\ nextId = 1 /\ carry = FALSE
  /\ outcome = [i \in Id |-> "open"] /\ got = [i \in Id |-> {}]
  /\ stdin = <<>> /\ stdout = <<>>
  /\ alive = TRUE /\ line = {} /\ todo = {} /\ rest = {}

-----------------------------------------------------------------------------
(* The callers *)

\* self.client.lock().await: tokio's mutex serves its waiters in order.
Lock(c) ==
  /\ ~InQueue(c) /\ nextId + Len(queue) <= CallBound
  /\ queue' = Append(queue, c)
  /\ UNCHANGED <<at, wanted, nextId, outcome, got, carry, stdin, stdout, serverVars>>

\* The holder's call ends with o, because of a line about the requests in about.
End(o, about) ==
  /\ outcome' = [outcome EXCEPT ![wanted] = o]
  /\ got' = [got EXCEPT ![wanted] = about]
  /\ queue' = Tail(queue) /\ at' = "lock" /\ wanted' = 0 /\ carry' = FALSE
  /\ UNCHANGED nextId

\* The holder takes the next id and serializes its request.
BeginCall ==
  /\ queue # <<>> /\ at = "lock" /\ nextId <= CallBound
  /\ at' = "body" /\ wanted' = nextId /\ nextId' = nextId + 1
  /\ UNCHANGED <<queue, outcome, got, carry, stdin, stdout, serverVars>>

\* write_all of the body, then write_all of the newline. There is no timeout.
WriteBody ==
  /\ at = "body" /\ alive /\ Len(stdin) < Room
  /\ stdin' = Append(stdin, wanted) /\ at' = "newline"
  /\ UNCHANGED <<queue, wanted, nextId, outcome, got, carry, stdout, serverVars>>

WriteNewline ==
  /\ at = "newline" /\ alive /\ Len(stdin) < Room
  /\ stdin' = Append(stdin, Newline) /\ at' = "reading"
  /\ UNCHANGED <<queue, wanted, nextId, outcome, got, carry, stdout, serverVars>>

WriteFails ==
  /\ at \in {"body", "newline"} /\ ~alive
  /\ End("io", {})
  /\ UNCHANGED <<stdin, stdout, serverVars>>

ReadHeadForgets ==
  /\ at = "reading" /\ stdout # <<>> /\ Head(stdout).part = "head"
  /\ carry' = FALSE /\ stdout' = Tail(stdout)
  /\ UNCHANGED <<callVars, stdin, serverVars>>

ReadHead ==
  /\ at = "reading" /\ stdout # <<>> /\ Head(stdout).part = "head"
  /\ carry' = TRUE /\ stdout' = Tail(stdout)
  /\ UNCHANGED <<callVars, stdin, serverVars>>

\* A complete line: notifications and responses to other requests are dropped,
\* an error with a null id counts as the answer.
Matches(msg) == (msg.kind = "reply" /\ msg.about = {wanted}) \/ msg.kind = "orphan"

\* Mutant: a notification is parsed as a response, which fails.
ReadLineParsesNotes ==
  /\ at = "reading" /\ stdout # <<>>
  /\ Head(stdout).part = "whole" \/ (Head(stdout).part = "tail" /\ carry)
  /\ stdout' = Tail(stdout)
  /\ LET msg == Head(stdout).msg IN
       IF msg.kind = "note" THEN End("json", {})
       ELSE IF Matches(msg) THEN End(msg.kind, msg.about)
                            ELSE carry' = FALSE /\ UNCHANGED callVars
  /\ UNCHANGED <<stdin, serverVars>>

ReadLine ==
  /\ at = "reading" /\ stdout # <<>>
  /\ Head(stdout).part = "whole" \/ (Head(stdout).part = "tail" /\ carry)
  /\ stdout' = Tail(stdout)
  /\ LET msg == Head(stdout).msg IN
       IF Matches(msg) THEN End(msg.kind, msg.about)
                       ELSE carry' = FALSE /\ UNCHANGED callVars
  /\ UNCHANGED <<stdin, serverVars>>

\* The second piece of a line whose first piece went with an earlier read_line
\* does not parse; if only the newline was left, the line is empty and skipped.
ReadFragment ==
  /\ at = "reading" /\ stdout # <<>> /\ Head(stdout).part = "tail" /\ ~carry
  /\ stdout' = Tail(stdout)
  /\ End("json", Head(stdout).msg.about) \/ UNCHANGED <<callVars, carry>>
  /\ UNCHANGED <<stdin, serverVars>>

\* End of file; read_line returns what it has, and None only if that is nothing.
ReadEof ==
  /\ at = "reading" /\ stdout = <<>> /\ ~alive
  /\ End(IF carry THEN "json" ELSE "closed", {})
  /\ UNCHANGED <<stdin, stdout, serverVars>>

TimeoutOnLine ==
  /\ at = "reading" /\ stdout # <<>>
  /\ End("timeout", {})
  /\ UNCHANGED <<stdin, stdout, serverVars>>

\* tokio::time::timeout drops read_matching, and with it the buffer of read_line.
Timeout ==
  /\ at = "reading"
  /\ End("timeout", {})
  /\ UNCHANGED <<stdin, stdout, serverVars>>

\* The caller's future is dropped, in the queue or in one of the awaits.
GiveUp(c) ==
  /\ InQueue(c)
  /\ IF c # Head(queue) \/ at = "lock"
       THEN queue' = Without(c) /\ UNCHANGED <<at, wanted, nextId, outcome, got, carry>>
       ELSE End(CASE at = "body" -> "unsent" [] at = "newline" -> "torn"
                  [] at = "reading" -> "dropped", {})
  /\ UNCHANGED <<stdin, stdout, serverVars>>

-----------------------------------------------------------------------------
(* The server process, external: it answers its requests in any order, with  *)
(* a result or an error, each once; it complains with a null id about a line *)
(* it cannot parse; it may log; it may hang in any step, and die.            *)

TakeInput ==
  /\ alive /\ stdin # <<>> /\ stdin' = Tail(stdin)
  /\ IF Head(stdin) = Newline
       THEN todo' = todo \cup {line} /\ line' = {}
       ELSE line' = line \cup {Head(stdin)} /\ UNCHANGED todo
  /\ UNCHANGED <<callVars, carry, stdout, alive, rest>>

\* One write, or the first of two.
Emit(msg) ==
  /\ alive /\ rest = {} /\ Len(stdout) < Room
  /\ \/ stdout' = Append(stdout, [part |-> "whole", msg |-> msg]) /\ UNCHANGED rest
     \/ stdout' = Append(stdout, [part |-> "head", msg |-> msg]) /\ rest' = {msg}

Respond(ids) ==
  /\ \/ Cardinality(ids) = 1 /\ Emit([kind |-> "reply", about |-> ids])
     \/ Emit([kind |-> "orphan", about |-> ids])
  /\ todo' = todo \ {ids}
  /\ UNCHANGED <<callVars, carry, stdin, alive, line>>

Log ==
  /\ Emit([kind |-> "note", about |-> {}])
  /\ UNCHANGED <<callVars, carry, stdin, alive, line, todo>>

EmitRest ==
  /\ alive /\ Len(stdout) < Room
  /\ \E msg \in rest : stdout' = Append(stdout, [part |-> "tail", msg |-> msg])
  /\ rest' = {}
  /\ UNCHANGED <<callVars, carry, stdin, alive, line, todo>>

Die ==
  /\ alive /\ alive' = FALSE
  /\ UNCHANGED <<callVars, carry, stdin, stdout, line, todo, rest>>

-----------------------------------------------------------------------------
Read   == ReadHead \/ ReadLine \/ ReadFragment \/ ReadEof
Holder == BeginCall \/ WriteBody \/ WriteNewline \/ WriteFails \/ Read \/ Timeout
Server == TakeInput \/ (\E ids \in todo : Respond(ids)) \/ Log \/ EmitRest \/ Die

Next == Holder \/ Server \/ \E c \in Caller : Lock(c) \/ GiveUp(c)

\* The executor polls a holder that can go on and the timer fires; the callers
\* owe nothing, and neither does the server.
Fairness == WF_vars(BeginCall \/ WriteBody \/ WriteNewline \/ WriteFails) /\ WF_vars(Timeout)

Spec == Init /\ [][Next]_vars /\ Fairness

\* The same with a server that goes on reading its stdin as long as it lives.
HealthySpec == Spec /\ WF_vars(TakeInput)

-----------------------------------------------------------------------------
(* Properties *)

CutReads == {i \in Id : outcome[i] \in {"timeout", "dropped"}}
Garbled  == {i \in Id : outcome[i] = "json"}

\* A caller that gets a result, or an error with an id, gets that of its own
\* request, however many stale answers earlier calls left in the pipe
\* (read_matching compares the id).
OwnAnswer == \A i \in Id : outcome[i] = "reply" => got[i] = {i}

\* A read that is cut off loses at most one call of the future to a line that
\* does not parse: read_line consumes the first piece of a line, drops it with
\* its future, and the next read takes the second piece for a line.
SpoilBound == Cardinality(Garbled) <= Cardinality(CutReads) + IF alive THEN 0 ELSE 1

\* As long as the server lives, a call ends because of a line that is not its
\* own only if an earlier call timed out or was dropped while it read.
HarmHasACause ==
  \A i \in Id :
    /\ alive /\ outcome[i] \in Spoiled
    /\ outcome[i] = "orphan" => i \notin got[i]
    => \E j \in CutReads : j < i

\* Every fetch that asks for the client leaves the queue, with or without a
\* result: the mutex is fair, and the timeout ends the wait for an answer.
CallsEnd == \A c \in Caller : InQueue(c) ~> ~InQueue(c)

\* The documentation of read_matching: answers to requests of earlier aborted
\* calls are dropped, so they cost the present call nothing.
StaleAnswersAreDropped == alive => Garbled = {}

\* The documentation of DEFAULT_TIMEOUT: a server that hangs is surfaced as an
\* error of the call, which so ends.
WedgeIsSurfaced == wanted # 0 ~> wanted = 0
=============================================================================
