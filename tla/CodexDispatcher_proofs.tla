----------------------- MODULE CodexDispatcher_proofs -----------------------
(***************************************************************************)
(* What holds of the codex dispatcher for any number of tasks and deltas,  *)
(* whatever the app-server does, and however often it is started again.    *)
(***************************************************************************)
EXTENDS CodexDispatcher, FunctionTheorems, FiniteSetTheorems, SequenceTheorems, TLAPS

Msg == [kind : {"delta", "error"}, thread : Task]
       \cup [kind : {"completed"}, thread : Task, ok : BOOLEAN]
       \cup [kind : {"notice", "request"}, thread : {NoTask}]

Queued(t)   == \E i \in DOMAIN queue : queue[i] = t
Unopened(t) == call[t] \in {"idle", "submit"} \/ Queued(t) \/ t = starting
Silent(t)   == \A i \in DOMAIN outbox : outbox[i].thread # t

\* A dispatcher that ended has nothing left, and none is started beside it.
LoopInv ==
    /\ TypeOK
    /\ outbox \in Seq(Msg)
    /\ Starting <=> starting # NoTask
    /\ ~slot => ~Alive
    /\ ~Alive => active = {} /\ queue = <<>>
    /\ disp = "closing" => active = {}
    /\ \A t \in Task : lock = t => call[t] = "submit"
    /\ \A t \in Task : call[t] \in {"idle", "submit"} => tries[t] <= 1

\* A call that waits is in one place of a dispatcher, and one whose turn is not
\* open yet has nothing at the server.
WaitInv ==
    /\ \A t \in Task : call[t] = "waiting" <=> Queued(t) \/ t = starting \/ t \in active
    /\ \A i, j \in DOMAIN queue : queue[i] = queue[j] => i = j
    /\ starting \notin active /\ ~Queued(starting)
    /\ \A t \in active : ~Queued(t)
    /\ \A t \in Task : Unopened(t) => thread[t] = "none" /\ streams[t] = 0 /\ Silent(t)

\* The deltas of a thread on their way, as positions in the outbox.
Deltas(s, t) == {i \in 1..Len(s) : s[i].kind = "delta" /\ s[i].thread = t}

\* Of the turn of an active call everything streamed is collected or on its way,
\* and completed is its last message.
TextInv ==
    /\ \A t \in active :
          /\ \A i \in DOMAIN text[t] : text[t][i] = t
          /\ Len(text[t]) + Cardinality(Deltas(outbox, t)) = streams[t]
    /\ \A i \in DOMAIN outbox : outbox[i].kind = "completed" =>
          /\ thread[outbox[i].thread] \in {"done", "none"}
          /\ \A j \in DOMAIN outbox : j > i => outbox[j].thread # outbox[i].thread
    /\ \A t \in Task : call[t] = "ok" => thread[t] \in {"done", "none"}
    /\ OwnAnswer

IInv == LoopInv /\ WaitInv /\ TextInv

-----------------------------------------------------------------------------
(* Positions of deltas.                                                     *)

LEMMA DeltasFinite ==
    ASSUME NEW s \in Seq(Msg), NEW t
    PROVE  IsFiniteSet(Deltas(s, t)) /\ Cardinality(Deltas(s, t)) \in Nat
<1>1. IsFiniteSet(1..Len(s))
    BY FS_Interval
<1>2. Deltas(s, t) \subseteq 1..Len(s)
    BY DEF Deltas
<1> QED
    BY <1>1, <1>2, FS_Subset, FS_CardinalityType

LEMMA DeltasAppend ==
    ASSUME NEW s \in Seq(Msg), NEW m \in Msg, NEW t \in Task
    PROVE  Cardinality(Deltas(Append(s, m), t)) =
             IF m.kind = "delta" /\ m.thread = t
             THEN Cardinality(Deltas(s, t)) + 1 ELSE Cardinality(Deltas(s, t))
<1>1. Deltas(Append(s, m), t) =
        IF m.kind = "delta" /\ m.thread = t
        THEN Deltas(s, t) \cup {Len(s) + 1} ELSE Deltas(s, t)
    BY DEF Deltas
<1>2. Len(s) + 1 \notin Deltas(s, t)
    BY DEF Deltas
<1> QED
    BY <1>1, <1>2, DeltasFinite, FS_AddElement

LEMMA DeltasTail ==
    ASSUME NEW s \in Seq(Msg), s # <<>>, NEW t \in Task
    PROVE  Cardinality(Deltas(s, t)) =
             IF Head(s).kind = "delta" /\ Head(s).thread = t
             THEN Cardinality(Deltas(Tail(s), t)) + 1 ELSE Cardinality(Deltas(Tail(s), t))
<1> DEFINE later == Deltas(s, t) \ {1}
           shift == [i \in Deltas(Tail(s), t) |-> i + 1]
<1>1. /\ Tail(s) \in Seq(Msg) /\ Len(Tail(s)) = Len(s) - 1 /\ Len(s) \in Nat \ {0}
      /\ \A i \in 1..Len(Tail(s)) : Tail(s)[i] = s[i + 1]
      /\ Head(s) = s[1]
    BY HeadTailProperties, EmptySeq
<1>2. \A i : i \in Deltas(Tail(s), t) <=> i \in Nat \ {0} /\ i + 1 \in Deltas(s, t)
    BY <1>1 DEF Deltas
<1>3. shift \in [Deltas(Tail(s), t) -> later]
    BY <1>1, <1>2 DEF Deltas
<1>4. \A i, j \in Deltas(Tail(s), t) : shift[i] = shift[j] => i = j
    BY DEF Deltas
<1>5. \A k \in later : \E i \in Deltas(Tail(s), t) : shift[i] = k
  <2> SUFFICES ASSUME NEW k \in later PROVE \E i \in Deltas(Tail(s), t) : shift[i] = k
    OBVIOUS
  <2>1. k \in Nat /\ k > 1 /\ k \in Deltas(s, t)
    BY <1>1 DEF Deltas
  <2>2. k - 1 \in Deltas(Tail(s), t)
    BY <1>2, <2>1
  <2> QED
    BY <2>1, <2>2
<1>6. shift \in Bijection(Deltas(Tail(s), t), later)
    BY <1>3, <1>4, <1>5 DEF Bijection, Injection, Surjection, IsInjective
<1>7. Cardinality(later) = Cardinality(Deltas(Tail(s), t))
  <2>1. ExistsBijection(Deltas(Tail(s), t), later)
    BY <1>6 DEF ExistsBijection
  <2>2. IsFiniteSet(Deltas(Tail(s), t))
    BY <1>1, DeltasFinite
  <2> HIDE DEF later
  <2> QED
    BY <2>1, <2>2, FS_Bijection
<1>8. 1 \in Deltas(s, t) <=> Head(s).kind = "delta" /\ Head(s).thread = t
    BY <1>1 DEF Deltas
<1>9. /\ Cardinality(later) = IF 1 \in Deltas(s, t) THEN Cardinality(Deltas(s, t)) - 1
                               ELSE Cardinality(Deltas(s, t))
      /\ Cardinality(Deltas(s, t)) \in Nat
    BY DeltasFinite, FS_RemoveElement
<1> HIDE DEF later
<1> QED
    BY <1>7, <1>8, <1>9

-----------------------------------------------------------------------------
(* The shape of the dispatcher.                                             *)

\* A message about a turn, and one that is about none.
Delivery == NextMessage /\ Message.kind \in {"delta", "completed", "error"}
Passing  == NextMessage /\ Message.kind \in {"notice", "request"}

LEMMA MessageKinds ==
    ASSUME LoopInv, NextMessage
    PROVE  /\ Message \in Msg
           /\ Delivery \/ Passing
           /\ Delivery => Message.thread \in Task /\ (OnDelta \/ OnCompleted \/ OnError)
           /\ Passing => Message.thread = NoTask /\ (OnNotice \/ OnRequest)
<1>1. Message \in Msg
    BY HeadTailProperties DEF NextMessage, Message, LoopInv
<1> QED
    BY <1>1 DEF NextMessage, Delivery, Passing, Msg, OnDelta, OnCompleted, OnError,
                OnNotice, OnRequest

LEMMA DeliveryLoop ==
    ASSUME LoopInv, WaitInv, Delivery
    PROVE  LoopInv'
<1> USE BoundAssumption DEF LoopInv, BoundAssumption
<1>1. /\ Message \in Msg /\ Tail(outbox) \in Seq(Msg)
      /\ outbox' = Tail(outbox)
    BY HeadTailProperties DEF NextMessage, Message, Delivery
<1>2. Message.thread \in Task /\ NextMessage /\ (OnDelta \/ OnCompleted \/ OnError)
    BY MessageKinds DEF Delivery
<1>3. /\ UNCHANGED <<tries, lock, slot, queue, starting, server, thread, streams>>
      /\ disp = "wait"
    BY <1>2 DEF NextMessage
<1>4. active' \subseteq active /\ disp' \in {"recv", "drain"}
    BY <1>2 DEF OnDelta, OnCompleted, OnError, Again
<1>5. /\ text' \in [Task -> Seq(Task)]
      /\ answer' \in [Task -> Seq(Task)]
  <2>1. CASE OnDelta
    <3>1. Append(text[Message.thread], Message.thread) \in Seq(Task)
        BY <1>2 DEF TypeOK
    <3> QED
        BY <1>2, <2>1, <3>1 DEF OnDelta, TypeOK
  <2>2. CASE OnCompleted
        BY <1>2, <2>2 DEF OnCompleted, TypeOK
  <2>3. CASE OnError
        BY <2>3 DEF OnError, TypeOK
  <2> QED
        BY <1>2, <2>1, <2>2, <2>3
<1>6. /\ call' \in [Task -> Calls]
      /\ \A t \in Task : call'[t] # call[t] => t \in active /\ call'[t] \in {"ok", "failed"}
  <2>1. CASE OnDelta
        BY <2>1 DEF OnDelta, TypeOK
  <2>2. CASE OnCompleted
        BY <1>2, <2>2 DEF OnCompleted, TypeOK, Calls
  <2>3. CASE OnError
        BY <2>3 DEF OnError, Failed, TypeOK, Calls
  <2> QED
        BY <1>2, <2>1, <2>2, <2>3
<1>7. TypeOK'
    BY <1>3, <1>4, <1>5, <1>6 DEF TypeOK, Places
<1>8. Alive /\ Alive'
    BY <1>3, <1>4 DEF Alive
<1>9. \A t \in Task : /\ lock' = t => call'[t] = "submit"
                      /\ call'[t] \in {"idle", "submit"} => tries'[t] <= 1
  <2>1. \A t \in Task : call[t] = "submit" => call'[t] = call[t]
        BY <1>6 DEF WaitInv
  <2>2. \A t \in Task : call'[t] \in {"idle", "submit"} => call'[t] = call[t]
        BY <1>6
  <2> QED
        BY <1>3, <2>1, <2>2
<1>10. (Starting <=> starting # NoTask)'
    BY <1>3, <1>4 DEF Starting
<1>11. disp' # "closing"
    BY <1>4
<1>12. slot /\ slot'
    BY <1>3, <1>8
<1> QED
    BY <1>1, <1>7, <1>8, <1>9, <1>10, <1>11, <1>12 DEF Msg

\* Such a message changes nothing but where the dispatcher is and what is unread.
LEMMA PassingFacts ==
    ASSUME LoopInv, Passing
    PROVE  /\ Message \in Msg /\ Message.thread = NoTask /\ outbox # <<>>
           /\ Message.kind # "completed" /\ Message.kind # "delta"
           /\ outbox' = Tail(outbox) /\ outbox' \in Seq(Msg)
           /\ disp = "wait" /\ disp' \in {"recv", "drain", "reply"}
           /\ UNCHANGED <<client, queue, starting, active, text, server, thread, streams>>
<1>1. Tail(outbox) \in Seq(Msg)
    BY HeadTailProperties DEF LoopInv, Passing, NextMessage
<1>2. OnNotice \/ OnRequest
    BY MessageKinds DEF Passing
<1>3. Message.kind \in {"notice", "request"} /\ Message.thread = NoTask /\ NextMessage
    BY MessageKinds DEF Passing
<1>4. /\ UNCHANGED <<tries, lock, slot, queue, starting, server, thread, streams>>
      /\ disp = "wait" /\ outbox # <<>> /\ outbox' = Tail(outbox)
    BY <1>3 DEF NextMessage
<1>5. /\ UNCHANGED <<call, answer, active, text>>
      /\ disp' \in {"recv", "drain", "reply"}
    BY <1>2 DEF OnNotice, OnRequest, Again
<1>6. Message \in Msg /\ Message.kind # "completed" /\ Message.kind # "delta"
  <2>1. Message \in Msg
    BY <1>3, MessageKinds
  <2>2. Message.kind # "completed" /\ Message.kind # "delta"
    BY ONLY <1>3
  <2> QED
    BY <2>1, <2>2
<1>7. outbox' = Tail(outbox) /\ outbox' \in Seq(Msg)
    BY <1>1, <1>4
<1>8. UNCHANGED client
    BY <1>4, <1>5 DEF client
<1> QED
    BY <1>3, <1>4, <1>5, <1>6, <1>7, <1>8

LEMMA SubmissionLoop ==
    ASSUME LoopInv, WaitInv, NEW t \in Task, Call(t) \/ Submission(t)
    PROVE  LoopInv'
<1> USE BoundAssumption DEF LoopInv, BoundAssumption, Starting
<1>1. CASE Call(t)
  <2>1. /\ UNCHANGED <<tries, lock, slot, answer, loop, remote>>
        /\ call[t] = "idle" /\ call' = [call EXCEPT ![t] = "submit"]
    BY <1>1 DEF Call
  <2>2. TypeOK'
    BY <2>1 DEF TypeOK, loop, remote, Calls
  <2>3. \A u \in Task : /\ lock' = u => call'[u] = "submit"
                        /\ call'[u] \in {"idle", "submit"} => tries'[u] <= 1
    BY <2>1 DEF TypeOK
  <2> QED
    BY <2>1, <2>2, <2>3 DEF loop, remote, Alive, Msg
<1>2. CASE Lock(t)
  <2>1. TypeOK'
    BY <1>2 DEF Lock, TypeOK, loop, remote
  <2> QED
    BY <1>2, <2>1 DEF Lock, loop, remote, Alive, Msg
<1>3. CASE StartDispatcher(t)
  <2>1. UNCHANGED <<tries, answer, text, streams>>
    BY <1>3 DEF StartDispatcher
  <2>2. CASE /\ slot' = TRUE
             /\ disp' = "recv" /\ queue' = <<>> /\ starting' = NoTask /\ active' = {}
             /\ server' = "up" /\ outbox' = <<>> /\ thread' = [u \in Task |-> "none"]
             /\ UNCHANGED <<call, lock>>
    <3>1. TypeOK'
      BY <2>1, <2>2 DEF TypeOK, Places
    <3> QED
      BY <2>1, <2>2, <3>1 DEF Alive, Msg
  <2>3. CASE /\ call' = [call EXCEPT ![t] = "failed"]
             /\ lock' = NoTask
             /\ UNCHANGED <<slot, disp, queue, starting, active, server, outbox, thread>>
    <3>1. TypeOK'
      BY <2>1, <2>3 DEF TypeOK, Calls
    <3>2. \A u \in Task : /\ lock' = u => call'[u] = "submit"
                          /\ call'[u] \in {"idle", "submit"} => tries'[u] <= 1
      BY <2>1, <2>3 DEF TypeOK
    <3> QED
      BY <2>3, <3>1, <3>2 DEF Alive, Msg
  <2> QED
    BY <1>3, <2>2, <2>3 DEF StartDispatcher
<1>4. CASE Send(t)
  <2>1. /\ UNCHANGED <<answer, disp, starting, active, text, remote>>
        /\ lock' = NoTask /\ call[t] = "submit" /\ slot
    BY <1>4 DEF Send
  <2>2. CASE Alive
    <3>1. /\ queue' = Append(queue, t) /\ call' = [call EXCEPT ![t] = "waiting"]
          /\ UNCHANGED <<slot, tries>>
      BY <1>4, <2>2 DEF Send
    <3>2. TypeOK'
      <4>1. queue' \in Seq(Task)
        BY <3>1 DEF TypeOK
      <4>2. call' \in [Task -> Calls]
        BY <3>1 DEF TypeOK, Calls
      <4> QED
        BY <2>1, <3>1, <4>1, <4>2 DEF TypeOK, remote
    <3>3. \A u \in Task : call'[u] \in {"idle", "submit"} => tries'[u] <= 1
      BY <3>1 DEF TypeOK
    <3> QED
      BY <2>1, <2>2, <3>1, <3>2, <3>3 DEF remote, Alive, Msg
  <2>3. CASE ~Alive
    <3>1. /\ slot' = FALSE /\ tries' = [tries EXCEPT ![t] = @ + 1]
          /\ call' = [call EXCEPT ![t] = IF tries[t] = 0 THEN "submit" ELSE "failed"]
          /\ queue' = queue
      BY <1>4, <2>3 DEF Send
    <3>2. tries[t] \in 0..1
      BY <2>1 DEF TypeOK
    <3>3. TypeOK'
      <4>1. tries' \in [Task -> 0..2]
        BY <3>1, <3>2 DEF TypeOK
      <4>2. call' \in [Task -> Calls]
        BY <3>1 DEF TypeOK, Calls
      <4> QED
        BY <2>1, <3>1, <4>1, <4>2 DEF TypeOK, remote
    <3>4. \A u \in Task : call'[u] \in {"idle", "submit"} => tries'[u] <= 1
      BY <3>1, <3>2 DEF TypeOK
    <3> QED
      BY <2>1, <2>3, <3>1, <3>3, <3>4 DEF remote, Alive, Msg
  <2> QED
    BY <2>2, <2>3
<1> QED
    BY <1>1, <1>2, <1>3, <1>4 DEF Submission

\* The end of a start, and the steps that only move on.
Opening == TurnStarted \/ StartFails
Resting == ThreadStarted \/ Replied

LEMMA DispatcherLoop ==
    ASSUME LoopInv, WaitInv,
           TakeCommand \/ NoCommand \/ Opening \/ Resting \/ IdleTimeout \/ Closed \/ Return
    PROVE  LoopInv'
<1> USE BoundAssumption DEF LoopInv, BoundAssumption, Starting
<1>1. CASE TakeCommand
  <2>1. /\ Head(queue) \in Task /\ Tail(queue) \in Seq(Task)
    BY <1>1, HeadTailProperties DEF TakeCommand, TypeOK
  <2>2. TypeOK'
    BY <1>1, <2>1 DEF TakeCommand, client, remote, TypeOK, Places
  <2>3. Alive /\ Alive' /\ slot'
    BY <1>1 DEF TakeCommand, Alive, client
  <2>4. starting' # NoTask /\ disp' = "thread"
    BY <1>1, <2>1 DEF TakeCommand
  <2> QED
    BY <1>1, <2>2, <2>3, <2>4 DEF TakeCommand, client, remote, Msg
<1>2. CASE NoCommand
  <2>1. TypeOK'
    BY <1>2 DEF NoCommand, client, remote, TypeOK, Places
  <2> QED
    BY <1>2, <2>1 DEF NoCommand, client, remote, Alive, Msg
<1>3. CASE Opening
  <2>1. /\ disp \in {"thread", "turn"} /\ disp' = "drain" /\ starting' = NoTask
        /\ starting \in Task
        /\ UNCHANGED <<tries, lock, slot, answer, queue, server, streams, outbox>>
    BY <1>3 DEF Opening, TurnStarted, StartFails, TypeOK, client
  <2>2. /\ call' \in [Task -> Calls] /\ active' \subseteq Task
        /\ text' \in [Task -> Seq(Task)]
        /\ thread' \in [Task -> {"none", "running", "failed", "done"}]
        /\ \A t \in Task : call'[t] # call[t] => t = starting /\ call'[t] = "failed"
    <3>1. CASE TurnStarted
      <4>1. <<>> \in Seq(Task)
        BY EmptySeq
      <4> QED
        BY <2>1, <3>1, <4>1 DEF TurnStarted, TypeOK, client
    <3>2. CASE StartFails
      BY <2>1, <3>2 DEF StartFails, Failed, TypeOK, Calls
    <3> QED
      BY <1>3, <3>1, <3>2 DEF Opening
  <2>3. TypeOK'
    BY <2>1, <2>2 DEF TypeOK, Places
  <2>4. call[starting] = "waiting"
    BY <2>1 DEF WaitInv
  <2>5. \A t \in Task : /\ lock' = t => call'[t] = "submit"
                        /\ call'[t] \in {"idle", "submit"} => tries'[t] <= 1
    BY <2>1, <2>2, <2>4
  <2> QED
    BY <2>1, <2>3, <2>5 DEF Alive, Msg
<1>4. CASE IdleTimeout \/ Closed
  <2>1. /\ disp = "wait" /\ active' = {} /\ disp' = "closing" /\ Failed(active)
        /\ UNCHANGED <<tries, lock, slot, answer, queue, starting, text, remote>>
    BY <1>4 DEF IdleTimeout, Closed, FailTurns
  <2>2. TypeOK'
    BY <2>1 DEF TypeOK, remote, Failed, Calls, Places
  <2>3. \A t \in Task : call'[t] # call[t] => call[t] = "waiting" /\ call'[t] = "failed"
    BY <2>1 DEF Failed, WaitInv, TypeOK
  <2>4. \A t \in Task : /\ lock' = t => call'[t] = "submit"
                        /\ call'[t] \in {"idle", "submit"} => tries'[t] <= 1
    BY <2>1, <2>3
  <2> QED
    BY <2>1, <2>2, <2>4 DEF Alive, remote, Msg
<1>5. CASE Return
  <2>1. /\ disp = "closing" /\ queue' = <<>> /\ disp' = "gone"
        /\ Failed({t \in Task : Queued(t)})
        /\ UNCHANGED <<tries, lock, slot, answer, starting, active, text, remote>>
    BY <1>5 DEF Return, Queued
  <2>2. TypeOK'
    BY <2>1 DEF TypeOK, remote, Failed, Calls, Places
  <2>3. \A t \in Task : call'[t] # call[t] => call[t] = "waiting" /\ call'[t] = "failed"
    BY <2>1 DEF Failed, WaitInv, TypeOK
  <2>4. \A t \in Task : /\ lock' = t => call'[t] = "submit"
                        /\ call'[t] \in {"idle", "submit"} => tries'[t] <= 1
    BY <2>1, <2>3
  <2> QED
    BY <2>1, <2>2, <2>4 DEF Alive, remote, Msg
<1>6. CASE Resting
  <2>1. /\ UNCHANGED <<client, queue, starting, active, text, remote>>
        /\ \/ disp = "thread" /\ disp' = "turn"
           \/ disp = "reply" /\ disp' \in {"recv", "drain"}
    BY <1>6 DEF Resting, ThreadStarted, Replied, Again
  <2>2. TypeOK'
    BY <2>1 DEF client, remote, TypeOK, Places
  <2>3. (Starting <=> starting # NoTask)'
    BY <2>1
  <2>4. /\ (\A t \in Task : lock = t => call[t] = "submit")'
        /\ (\A t \in Task : call[t] \in {"idle", "submit"} => tries[t] <= 1)'
    BY <2>1 DEF client
  <2>5. Alive /\ Alive' /\ disp' # "closing" /\ slot' = slot
    BY <2>1 DEF Alive, client
  <2>6. (outbox \in Seq(Msg))'
    BY <2>1 DEF remote, Msg
  <2>7. (~slot => ~Alive)'
    BY <2>5
  <2>8. (~Alive => active = {} /\ queue = <<>>)' /\ (disp = "closing" => active = {})'
    BY <2>5
  <2> QED
    BY <2>2, <2>3, <2>4, <2>6, <2>7, <2>8 DEF LoopInv
<1> QED
    BY <1>1, <1>2, <1>3, <1>4, <1>5, <1>6

LEMMA ServerLoop ==
    ASSUME LoopInv, ServerCloses \/ ServerChatters \/ \E t \in Task : Server(t)
    PROVE  LoopInv' /\ UNCHANGED <<client, loop>>
<1> USE BoundAssumption DEF LoopInv, BoundAssumption, Starting
<1>1. CASE ServerCloses
  <2>1. TypeOK'
    BY <1>1 DEF ServerCloses, client, loop, TypeOK
  <2> QED
    BY <1>1, <2>1 DEF ServerCloses, client, loop, Alive, Msg
<1>2. ASSUME NEW t \in Task, Server(t) PROVE LoopInv' /\ UNCHANGED <<client, loop>>
  <2>1. PICK m \in Msg : Write(m)
    BY <1>2 DEF Server, ServerDelta, ServerError, ServerCompletes, Msg
  <2>2. /\ streams' \in [Task -> 0..MaxDeltas]
        /\ thread' \in [Task -> {"none", "running", "failed", "done"}]
    <3>1. CASE ServerDelta(t)
      <4>1. streams[t] + 1 \in 0..MaxDeltas
        <5>1. streams[t] \in 0..MaxDeltas /\ MaxDeltas \in Nat
          BY DEF TypeOK
        <5>2. streams[t] < MaxDeltas
          BY <3>1 DEF ServerDelta
        <5> QED
          BY ONLY <5>1, <5>2
      <4> QED
        BY <3>1, <4>1 DEF ServerDelta, TypeOK
    <3>2. CASE ServerError(t)
      BY <3>2 DEF ServerError, TypeOK
    <3>3. CASE ServerCompletes(t)
      BY <3>3 DEF ServerCompletes, TypeOK
    <3> QED
      BY <1>2, <3>1, <3>2, <3>3 DEF Server
  <2>3. TypeOK'
    BY <2>1, <2>2 DEF Write, client, loop, TypeOK
  <2> QED
    BY <2>1, <2>3 DEF Write, client, loop, Alive, Msg
<1>3. CASE ServerChatters
  <2>1. PICK m \in Msg : Write(m)
    BY <1>3 DEF ServerChatters, Msg
  <2>2. TypeOK'
    BY <1>3, <2>1 DEF ServerChatters, Write, client, loop, TypeOK
  <2> QED
    BY <2>1, <2>2 DEF Write, client, loop, Alive, Msg
<1> QED
    BY <1>1, <1>2, <1>3

-----------------------------------------------------------------------------
(* Who waits, and where.                                                    *)

LEMMA QueueFacts ==
    ASSUME LoopInv
    PROVE  /\ queue \in Seq(Task) /\ DOMAIN queue = 1..Len(queue) /\ Len(queue) \in Nat
           /\ outbox \in Seq(Msg) /\ DOMAIN outbox = 1..Len(outbox) /\ Len(outbox) \in Nat
BY LenProperties DEF LoopInv, TypeOK

LEMMA SubmissionWait ==
    ASSUME LoopInv, WaitInv, NEW t \in Task, Call(t) \/ Submission(t)
    PROVE  WaitInv'
<1> USE BoundAssumption, QueueFacts DEF WaitInv, BoundAssumption
<1>0. /\ call \in [Task -> Calls] /\ queue \in Seq(Task) /\ starting \in Task \cup {NoTask}
      /\ active \subseteq Task
    BY DEF LoopInv, TypeOK
<1>1. CASE Call(t)
  <2>1. /\ \A u \in Task : (call'[u] \in {"idle", "submit"}) = (call[u] \in {"idle", "submit"})
        /\ \A u \in Task : (call'[u] = "waiting") = (call[u] = "waiting")
        /\ UNCHANGED <<queue, starting, active, thread, streams, outbox>>
    BY <1>0, <1>1 DEF Call, loop, remote
  <2> QED
    BY <2>1 DEF Unopened, Queued, Silent
<1>2. CASE Lock(t)
    BY <1>2 DEF Lock, loop, remote, Unopened, Queued, Silent
<1>3. CASE StartDispatcher(t)
  <2>1. ~slot /\ lock = t /\ UNCHANGED streams
    BY <1>3 DEF StartDispatcher
  <2>2. active = {} /\ queue = <<>> /\ starting = NoTask
    BY <2>1 DEF LoopInv, Alive, Starting
  <2>3. CASE /\ queue' = <<>> /\ starting' = NoTask /\ active' = {}
             /\ outbox' = <<>> /\ thread' = [u \in Task |-> "none"]
             /\ UNCHANGED call
    <3>1. \A u \in Task : ~Queued(u) /\ ~Queued(u)' /\ Silent(u)'
      BY <2>2, <2>3 DEF Queued, Silent
    <3> QED
      BY <2>1, <2>2, <2>3, <3>1 DEF Unopened, Queued
  <2>4. CASE /\ call' = [call EXCEPT ![t] = "failed"]
             /\ UNCHANGED <<disp, queue, starting, active, outbox, thread>>
    <3>1. call[t] = "submit"
      BY <2>1 DEF LoopInv
    <3> QED
      BY <1>0, <2>1, <2>4, <3>1 DEF Unopened, Queued, Silent
  <2> QED
    BY <1>3, <2>3, <2>4 DEF StartDispatcher
<1>4. CASE Send(t)
  <2>1. /\ UNCHANGED <<starting, active, thread, streams, outbox>> /\ call[t] = "submit"
    BY <1>4 DEF Send, remote, LoopInv
  <2>2. CASE Alive
    <3>1. queue' = Append(queue, t) /\ call' = [call EXCEPT ![t] = "waiting"]
      BY <1>4, <2>2 DEF Send
    <3>2. /\ DOMAIN queue' = 1..(Len(queue) + 1) /\ queue'[Len(queue) + 1] = t
          /\ \A i \in DOMAIN queue : queue'[i] = queue[i]
      BY <3>1
    <3>3. \A u \in Task \cup {NoTask} : Queued(u)' <=> Queued(u) \/ u = t
      BY <3>2 DEF Queued
    <3>4. ~Queued(t) /\ t # starting /\ t \notin active
      BY <2>1
    <3>5. \A i, j \in DOMAIN queue' : queue'[i] = queue'[j] => i = j
      BY <3>2, <3>4 DEF Queued
    <3>6. \A u \in Task : Unopened(u)' <=> Unopened(u)
      BY <1>0, <2>1, <3>1, <3>3 DEF Unopened
    <3> QED
      BY <1>0, <2>1, <3>1, <3>3, <3>4, <3>5, <3>6 DEF Silent
  <2>3. CASE ~Alive
    <3>1. /\ call' = [call EXCEPT ![t] = IF tries[t] = 0 THEN "submit" ELSE "failed"]
          /\ queue' = queue
      BY <1>4, <2>3 DEF Send
    <3> QED
      BY <1>0, <2>1, <3>1 DEF Unopened, Queued, Silent
  <2> QED
    BY <2>2, <2>3
<1> QED
    BY <1>1, <1>2, <1>3, <1>4 DEF Submission

LEMMA DispatcherWait ==
    ASSUME LoopInv, WaitInv,
           TakeCommand \/ NoCommand \/ Opening \/ Resting \/ IdleTimeout \/ Closed \/ Return
    PROVE  WaitInv'
<1> USE BoundAssumption, QueueFacts DEF WaitInv, BoundAssumption
<1>0. /\ call \in [Task -> Calls] /\ queue \in Seq(Task) /\ starting \in Task \cup {NoTask}
      /\ active \subseteq Task
    BY DEF LoopInv, TypeOK
<1>1. CASE TakeCommand
  <2>1. /\ starting = NoTask /\ starting' = Head(queue) /\ queue' = Tail(queue)
        /\ queue # <<>>
        /\ UNCHANGED <<call, active, thread, streams, outbox>>
    BY <1>1 DEF TakeCommand, client, remote, LoopInv, Starting
  <2>2. /\ DOMAIN queue' = 1..(Len(queue) - 1) /\ starting' = queue[1] /\ 1 \in DOMAIN queue
        /\ \A i \in DOMAIN queue' : queue'[i] = queue[i + 1] /\ i + 1 \in DOMAIN queue
    BY <1>0, <2>1, HeadTailProperties, EmptySeq
  <2>3. \A u \in Task \cup {NoTask} : Queued(u) <=> Queued(u)' \/ u = starting'
    <3>1. \A i \in DOMAIN queue : i = 1 \/ (i - 1 \in DOMAIN queue' /\ queue'[i - 1] = queue[i])
      BY <2>2
    <3> QED
      BY <2>2, <3>1 DEF Queued
  <2>4. ~(\E i \in DOMAIN queue' : queue'[i] = starting')
    BY <2>2
  <2>5. \A i, j \in DOMAIN queue' : queue'[i] = queue'[j] => i = j
    BY <2>2
  <2>6. starting' \in Task
    BY <1>0, <2>1, HeadTailProperties
  <2>7. \A u \in Task : Unopened(u)' <=> Unopened(u)
    BY <2>1, <2>3 DEF Unopened
  <2> QED
    BY <1>0, <2>1, <2>3, <2>4, <2>5, <2>6, <2>7 DEF Silent, Queued
<1>2. CASE NoCommand
    BY <1>2 DEF NoCommand, client, remote, Unopened, Queued, Silent
<1>3. CASE Opening
  <2>1. /\ starting' = NoTask /\ starting \in Task /\ call[starting] = "waiting"
        /\ UNCHANGED <<queue, streams, outbox>>
    BY <1>0, <1>3 DEF Opening, TurnStarted, StartFails, LoopInv, Starting
  <2>2. \/ active' = active \cup {starting} /\ call' = call
        \/ active' = active /\ Failed({starting})
    BY <1>3 DEF Opening, TurnStarted, StartFails, client
  <2>3. \A u \in Task : u # starting => thread'[u] = thread[u]
    BY <1>3 DEF Opening, TurnStarted, StartFails, LoopInv, TypeOK
  <2>4. \A u \in Task : Queued(u)' <=> Queued(u)
    BY <2>1 DEF Queued
  <2>5. ~Queued(NoTask)'
    BY <1>0, <2>1 DEF Queued
  <2>6. \A u \in Task : Unopened(u)' => Unopened(u) /\ u # starting
    BY <2>1, <2>2, <2>4 DEF Unopened, Failed
  <2> QED
    BY <1>0, <2>1, <2>2, <2>3, <2>4, <2>5, <2>6 DEF Silent, Failed
<1>4. CASE IdleTimeout \/ Closed
  <2>1. /\ active' = {} /\ Failed(active)
        /\ UNCHANGED <<queue, starting, thread, streams, outbox>>
    BY <1>4 DEF IdleTimeout, Closed, FailTurns, remote
  <2> QED
    BY <1>0, <2>1 DEF Failed, Unopened, Queued, Silent
<1>5. CASE Return
  <2>1. /\ queue' = <<>> /\ Failed({t \in Task : Queued(t)})
        /\ active = {} /\ starting = NoTask
        /\ UNCHANGED <<active, starting, thread, streams, outbox>>
    BY <1>5 DEF Return, Queued, remote, LoopInv, Starting
  <2>2. \A u : ~Queued(u)'
    BY <2>1 DEF Queued
  <2> QED
    BY <1>0, <2>1, <2>2 DEF Failed, Unopened, Silent
<1>6. CASE Resting
    BY <1>6 DEF Resting, ThreadStarted, Replied, client, remote, Unopened, Queued, Silent
<1> QED
    BY <1>1, <1>2, <1>3, <1>4, <1>5, <1>6

LEMMA DeliveryWait ==
    ASSUME LoopInv, WaitInv, Delivery
    PROVE  WaitInv'
<1> USE BoundAssumption, QueueFacts DEF WaitInv, BoundAssumption
<1>1. /\ Message \in Msg /\ Message.thread \in Task
      /\ outbox' = Tail(outbox) /\ outbox # <<>>
      /\ \A i \in DOMAIN outbox' : outbox'[i] = outbox[i + 1] /\ i + 1 \in DOMAIN outbox
    BY MessageKinds, HeadTailProperties, EmptySeq DEF Delivery, NextMessage
<1>2. UNCHANGED <<queue, starting, thread, streams>>
    BY DEF Delivery, NextMessage
<1>3. \A u \in Task : Silent(u) => Silent(u)'
    BY <1>1 DEF Silent
<1>4. \/ call' = call /\ active' = active
      \/ /\ active' = active \ {Message.thread}
         /\ \A u \in Task : /\ u # Message.thread \/ u \notin active => call'[u] = call[u]
                           /\ call'[u] \in {call[u], "ok", "failed"}
         /\ Message.thread \in active => call'[Message.thread] \in {"ok", "failed"}
  <2>1. call \in [Task -> Calls] /\ active \subseteq Task
    BY DEF LoopInv, TypeOK
  <2>2. CASE OnDelta
    BY <2>2 DEF OnDelta
  <2>3. CASE OnCompleted
    BY <1>1, <2>1, <2>3 DEF OnCompleted
  <2>4. CASE OnError
    BY <1>1, <2>1, <2>4 DEF OnError, Failed
  <2> QED
    BY <2>2, <2>3, <2>4, MessageKinds DEF Delivery
<1>5. \A u \in Task : Queued(u)' <=> Queued(u)
    BY <1>2 DEF Queued
<1>6. \A u \in Task : Unopened(u)' => Unopened(u)
    BY <1>2, <1>4, <1>5 DEF Unopened
<1>7. \A u \in Task : call'[u] = "waiting" <=> Queued(u)' \/ u = starting' \/ u \in active'
    BY <1>1, <1>2, <1>4, <1>5
<1>8. active' \subseteq active
    BY <1>4
<1> QED
    BY <1>2, <1>3, <1>5, <1>6, <1>7, <1>8 DEF LoopInv, TypeOK, Queued

LEMMA PassingWait ==
    ASSUME LoopInv, WaitInv, Passing
    PROVE  LoopInv' /\ WaitInv'
<1>0. outbox \in Seq(Msg)
    BY DEF LoopInv
<1>1. /\ UNCHANGED <<client, queue, starting, active, text, server, thread, streams>>
      /\ disp = "wait" /\ disp' \in {"recv", "drain", "reply"} /\ outbox' \in Seq(Msg)
    BY PassingFacts
<1>2. \A i \in DOMAIN outbox' : outbox'[i] = outbox[i + 1] /\ i + 1 \in DOMAIN outbox
    BY <1>0, PassingFacts, HeadTailProperties, EmptySeq
<1>3. \A u \in Task : Silent(u) => Silent(u)'
    BY <1>2 DEF Silent
<1>4. TypeOK'
    BY <1>1 DEF LoopInv, TypeOK, Places, client
<1>5. LoopInv'
    BY <1>1, <1>4 DEF LoopInv, Alive, Starting, Msg, client
<1> QED
    BY <1>1, <1>3, <1>5 DEF WaitInv, Unopened, Queued, client

LEMMA ServerWait ==
    ASSUME LoopInv, WaitInv,
           ServerCloses \/ ServerChatters \/ \E t \in Task : Server(t)
    PROVE  WaitInv'
<1> USE BoundAssumption, QueueFacts DEF WaitInv, BoundAssumption
<1>1. CASE ServerCloses
    BY <1>1 DEF ServerCloses, client, loop, Unopened, Queued, Silent
<1>2. ASSUME NEW t \in Task, Server(t) PROVE WaitInv'
  <2>1. /\ thread[t] \in {"running", "failed"}
        /\ \A u \in Task : u # t => thread'[u] = thread[u] /\ streams'[u] = streams[u]
    BY <1>2 DEF Server, ServerDelta, ServerError, ServerCompletes, LoopInv, TypeOK
  <2>2. PICK m \in Msg : Write(m) /\ m.thread = t
    <3>1. CASE ServerDelta(t)
      BY <3>1 DEF ServerDelta, Msg
    <3>2. CASE ServerError(t)
      BY <3>2 DEF ServerError, Msg
    <3>3. CASE ServerCompletes(t)
      BY <3>3 DEF ServerCompletes, Msg
    <3> QED
      BY <1>2, <3>1, <3>2, <3>3 DEF Server
  <2>3. /\ UNCHANGED <<call, queue, starting, active>>
        /\ outbox' = Append(outbox, m)
    BY <2>2 DEF Write, client, loop
  <2>4. \A u \in Task : Silent(u) /\ u # t => Silent(u)'
    BY <2>2, <2>3 DEF Silent
  <2>5. ~Unopened(t)
    BY <2>1
  <2>6. \A u : Unopened(u)' <=> Unopened(u)
    BY <2>3 DEF Unopened, Queued
  <2> QED
    BY <2>1, <2>3, <2>4, <2>5, <2>6 DEF Queued
<1>3. CASE ServerChatters
  <2>1. PICK m \in Msg : Write(m) /\ m.thread = NoTask
    BY <1>3 DEF ServerChatters, Msg
  <2>2. /\ UNCHANGED <<call, queue, starting, active, thread, streams>>
        /\ outbox' = Append(outbox, m)
    BY <1>3, <2>1 DEF ServerChatters, Write, client, loop
  <2>3. \A u \in Task : Silent(u) => Silent(u)'
    BY <2>1, <2>2 DEF Silent
  <2> QED
    BY <2>2, <2>3 DEF Unopened, Queued
<1> QED
    BY <1>1, <1>2, <1>3

-----------------------------------------------------------------------------
(* What is collected, and what is on its way.                               *)

LEMMA SilentCount ==
    ASSUME outbox \in Seq(Msg), NEW t \in Task, Silent(t)
    PROVE  Cardinality(Deltas(outbox, t)) = 0
<1>1. DOMAIN outbox = 1..Len(outbox)
    BY LenProperties
<1>2. Deltas(outbox, t) = {}
    BY <1>1 DEF Deltas, Silent
<1> QED
    BY <1>2, FS_EmptySet

\* A step that opens no turn, delivers nothing and writes nothing.
LEMMA QuietText ==
    ASSUME TextInv,
           active' \subseteq active, outbox' \in {outbox, <<>>},
           UNCHANGED <<text, streams, answer>>,
           outbox' = outbox \/ active' = {},
           \A t \in Task : thread'[t] \in {thread[t], "none"},
           \A t \in Task : call'[t] = "ok" => call[t] = "ok",
           outbox \in Seq(Msg)
    PROVE  TextInv'
<1>1. \A i \in DOMAIN outbox : outbox[i].kind = "completed" => outbox[i].thread \in Task
    BY LenProperties DEF Msg
<1>2. DOMAIN outbox' = {} \/ outbox' = outbox
    OBVIOUS
<1> QED
    BY <1>1, <1>2 DEF TextInv, OwnAnswer

LEMMA DispatcherText ==
    ASSUME LoopInv, WaitInv, TextInv,
           TakeCommand \/ NoCommand \/ Opening \/ Resting \/ IdleTimeout \/ Closed \/ Return
    PROVE  TextInv'
<1>0. /\ call \in [Task -> Calls] /\ starting \in Task \cup {NoTask} /\ active \subseteq Task
      /\ outbox \in Seq(Msg) /\ text \in [Task -> Seq(Task)]
      /\ thread \in [Task -> {"none", "running", "failed", "done"}]
    BY DEF LoopInv, TypeOK
<1>1. CASE TakeCommand \/ NoCommand \/ Resting
    BY <1>0, <1>1, QuietText
    DEF TakeCommand, NoCommand, Resting, ThreadStarted, Replied, client, remote
<1>2. CASE IdleTimeout \/ Closed
    BY <1>0, <1>2, QuietText DEF IdleTimeout, Closed, FailTurns, Failed, remote
<1>3. CASE Return
    BY <1>0, <1>3, QuietText DEF Return, Failed, remote
<1>4. CASE Opening
  <2>1. /\ starting \in Task /\ call[starting] = "waiting" /\ Silent(starting)
        /\ streams[starting] = 0 /\ starting \notin active
    BY <1>0, <1>4, BoundAssumption
    DEF Opening, TurnStarted, StartFails, LoopInv, Starting, WaitInv, Unopened, BoundAssumption
  <2>2. UNCHANGED <<answer, streams, outbox>>
    BY <1>4 DEF Opening, TurnStarted, StartFails, client
  <2>3. /\ \A t \in Task : t # starting => thread'[t] = thread[t]
        /\ \A t \in Task : call'[t] = "ok" => call[t] = "ok" /\ t # starting
    BY <1>0, <1>4, <2>1 DEF Opening, TurnStarted, StartFails, Failed, client
  <2>4. \A i \in DOMAIN outbox :
          /\ outbox[i].thread # starting
          /\ outbox[i].kind = "completed" => outbox[i].thread \in Task
    BY <1>0, <2>1, LenProperties DEF Silent, Msg
  <2>5. \A t \in active' : /\ \A i \in DOMAIN text'[t] : text'[t][i] = t
                           /\ Len(text'[t]) + Cardinality(Deltas(outbox, t)) = streams[t]
    <3>1. CASE active' = active \cup {starting} /\ text' = [text EXCEPT ![starting] = <<>>]
      <4>1. Cardinality(Deltas(outbox, starting)) = 0
        BY <1>0, <2>1, SilentCount
      <4>2. text'[starting] = <<>>
        BY <1>0, <2>1, <3>1
      <4>3. Len(text'[starting]) = 0 /\ DOMAIN text'[starting] = {}
        BY <4>2
      <4>4. ASSUME NEW t \in active PROVE text'[t] = text[t]
        BY <1>0, <2>1, <3>1
      <4> QED
        BY <2>1, <3>1, <4>1, <4>3, <4>4 DEF TextInv
    <3>2. CASE active' = active /\ text' = text
      BY <3>2 DEF TextInv
    <3> QED
      BY <1>4, <3>1, <3>2 DEF Opening, TurnStarted, StartFails, client
  <2>6. \A i \in DOMAIN outbox : outbox[i].kind = "completed" =>
           thread'[outbox[i].thread] \in {"done", "none"}
    BY <2>3, <2>4 DEF TextInv
  <2>7. \A t \in Task : call'[t] = "ok" => thread'[t] \in {"done", "none"}
    BY <2>3 DEF TextInv
  <2>8. OwnAnswer'
    BY <2>2, <2>3 DEF TextInv, OwnAnswer
  <2> QED
    BY <2>2, <2>5, <2>6, <2>7, <2>8 DEF TextInv
<1> QED
    BY <1>1, <1>2, <1>3, <1>4

LEMMA SubmissionText ==
    ASSUME LoopInv, TextInv, NEW t \in Task, Call(t) \/ Submission(t)
    PROVE  TextInv'
<1>0. call \in [Task -> Calls] /\ outbox \in Seq(Msg) /\ (lock = t => call[t] = "submit")
    BY DEF LoopInv, TypeOK
<1>1. CASE Call(t)
    BY <1>0, <1>1, QuietText DEF Call, loop, remote
<1>2. CASE Lock(t)
    BY <1>0, <1>2, QuietText DEF Lock, loop, remote
<1>3. CASE StartDispatcher(t)
    BY <1>0, <1>3, QuietText DEF StartDispatcher
<1>4. CASE Send(t)
    BY <1>0, <1>4, QuietText DEF Send, remote
<1> QED
    BY <1>1, <1>2, <1>3, <1>4 DEF Submission

LEMMA ServerText ==
    ASSUME LoopInv, TextInv,
           ServerCloses \/ ServerChatters \/ \E t \in Task : Server(t)
    PROVE  TextInv'
<1>0. outbox \in Seq(Msg) /\ DOMAIN outbox = 1..Len(outbox) /\ Len(outbox) \in Nat
    BY LenProperties DEF LoopInv
<1>1. CASE ServerCloses
    BY <1>0, <1>1, QuietText DEF ServerCloses, client, loop
<1>2. ASSUME NEW t \in Task, Server(t) PROVE TextInv'
  <2>0. /\ thread \in [Task -> {"none", "running", "failed", "done"}]
        /\ streams \in [Task -> 0..MaxDeltas] /\ active \subseteq Task
        /\ text \in [Task -> Seq(Task)]
    BY DEF LoopInv, TypeOK
  <2>1. PICK m \in Msg : /\ Write(m) /\ m.thread = t
                         /\ streams'[t] = IF m.kind = "delta" THEN streams[t] + 1 ELSE streams[t]
                         /\ m.kind = "completed" => thread'[t] = "done"
    <3>1. CASE ServerDelta(t)
      <4> DEFINE d == [kind |-> "delta", thread |-> t]
      <4>1. d \in Msg /\ d.kind = "delta" /\ d.thread = t
        BY DEF Msg
      <4>2. Write(d) /\ streams'[t] = streams[t] + 1
        BY <2>0, <3>1 DEF ServerDelta
      <4> QED
        BY <4>1, <4>2
    <3>2. CASE ServerError(t)
      <4> DEFINE d == [kind |-> "error", thread |-> t]
      <4>1. d \in Msg /\ d.kind = "error" /\ d.thread = t
        BY DEF Msg
      <4>2. Write(d) /\ streams'[t] = streams[t]
        BY <3>2 DEF ServerError
      <4> QED
        BY <4>1, <4>2
    <3>3. CASE ServerCompletes(t)
      <4>1. PICK ok \in BOOLEAN : Write([kind |-> "completed", thread |-> t, ok |-> ok])
        BY <3>3 DEF ServerCompletes
      <4> DEFINE d == [kind |-> "completed", thread |-> t, ok |-> ok]
      <4>2. d \in Msg /\ d.kind = "completed" /\ d.thread = t
        BY DEF Msg
      <4>3. streams'[t] = streams[t] /\ thread'[t] = "done"
        BY <2>0, <3>3 DEF ServerCompletes
      <4> QED
        BY <4>1, <4>2, <4>3
    <3> QED
      BY <1>2, <3>1, <3>2, <3>3 DEF Server
  <2>2. /\ thread[t] \in {"running", "failed"}
        /\ \A u \in Task : u # t => thread'[u] = thread[u] /\ streams'[u] = streams[u]
    BY <1>2, <2>0 DEF Server, ServerDelta, ServerError, ServerCompletes
  <2>3. /\ UNCHANGED <<call, answer, active, text>> /\ outbox' = Append(outbox, m)
    BY <2>1 DEF Write, client, loop
  <2>4. /\ DOMAIN outbox' = 1..(Len(outbox) + 1) /\ outbox'[Len(outbox) + 1] = m
        /\ \A i \in DOMAIN outbox : outbox'[i] = outbox[i]
    BY <1>0, <2>3
  <2>5. \A i \in DOMAIN outbox : outbox[i].kind = "completed" =>
           outbox[i].thread \in Task /\ outbox[i].thread # t
    BY <1>0, <2>2 DEF TextInv, Msg
  <2>6. \A i \in DOMAIN outbox' : outbox'[i].kind = "completed" =>
           /\ thread'[outbox'[i].thread] \in {"done", "none"}
           /\ \A j \in DOMAIN outbox' : j > i => outbox'[j].thread # outbox'[i].thread
    <3> SUFFICES ASSUME NEW i \in DOMAIN outbox', outbox'[i].kind = "completed"
                 PROVE  /\ thread'[outbox'[i].thread] \in {"done", "none"}
                        /\ \A j \in DOMAIN outbox' : j > i => outbox'[j].thread # outbox'[i].thread
      OBVIOUS
    <3>1. CASE i = Len(outbox) + 1
      BY <1>0, <2>1, <2>4, <3>1
    <3>2. CASE i \in DOMAIN outbox
      <4>1. /\ outbox[i].kind = "completed" /\ outbox'[i] = outbox[i]
            /\ outbox[i].thread \in Task /\ outbox[i].thread # t
        BY <2>4, <2>5, <3>2
      <4>2. thread'[outbox[i].thread] = thread[outbox[i].thread]
        BY <2>2, <4>1
      <4>3. \A j \in DOMAIN outbox' : j > i => outbox'[j].thread # outbox[i].thread
        BY <1>0, <2>1, <2>4, <3>2, <4>1 DEF TextInv
      <4> QED
        BY <3>2, <4>1, <4>2, <4>3 DEF TextInv
    <3> QED
      BY <1>0, <2>4, <3>1, <3>2
  <2>7. \A u \in Task : Cardinality(Deltas(outbox', u)) =
           IF m.kind = "delta" /\ u = t THEN Cardinality(Deltas(outbox, u)) + 1
           ELSE Cardinality(Deltas(outbox, u))
    BY <1>0, <2>1, <2>3, DeltasAppend
  <2>8. \A u \in active : Len(text[u]) + Cardinality(Deltas(outbox', u)) = streams'[u]
    <3> SUFFICES ASSUME NEW u \in active
                 PROVE  Len(text[u]) + Cardinality(Deltas(outbox', u)) = streams'[u]
      OBVIOUS
    <3>1. /\ u \in Task /\ Len(text[u]) \in Nat /\ Cardinality(Deltas(outbox, u)) \in Nat
          /\ Len(text[u]) + Cardinality(Deltas(outbox, u)) = streams[u]
      BY <1>0, <2>0, DeltasFinite, LenProperties DEF TextInv
    <3> QED
      BY <2>1, <2>2, <2>7, <3>1
  <2>9. \A u \in Task : call[u] = "ok" => u # t
    BY <2>2 DEF TextInv
  <2> QED
    BY <2>2, <2>3, <2>6, <2>8, <2>9 DEF TextInv, OwnAnswer
<1>3. CASE ServerChatters
  <2>1. PICK m \in Msg : Write(m) /\ m.kind \notin {"delta", "completed"} /\ m.thread = NoTask
    BY <1>3 DEF ServerChatters, Msg
  <2>2. /\ UNCHANGED <<call, answer, active, text, thread, streams>>
        /\ outbox' = Append(outbox, m)
    BY <1>3, <2>1 DEF ServerChatters, Write, client, loop
  <2>3. /\ DOMAIN outbox' = 1..(Len(outbox) + 1) /\ outbox'[Len(outbox) + 1] = m
        /\ \A i \in DOMAIN outbox : outbox'[i] = outbox[i]
    BY <1>0, <2>2
  <2>4. \A i \in DOMAIN outbox : outbox[i].kind = "completed" => outbox[i].thread # NoTask
    BY <1>0, BoundAssumption DEF Msg, BoundAssumption
  <2>5. \A i \in DOMAIN outbox' : outbox'[i].kind = "completed" =>
           /\ i \in DOMAIN outbox
           /\ \A j \in DOMAIN outbox' : j > i => outbox'[j].thread # outbox'[i].thread
    BY <1>0, <2>1, <2>3, <2>4 DEF TextInv
  <2>6. \A u \in Task : Cardinality(Deltas(outbox', u)) = Cardinality(Deltas(outbox, u))
    BY <1>0, <2>1, <2>2, DeltasAppend
  <2>7. \A u \in active : u \in Task
    BY DEF LoopInv, TypeOK
  <2> QED
    BY <2>2, <2>3, <2>5, <2>6, <2>7 DEF TextInv, OwnAnswer
<1> QED
    BY <1>1, <1>2, <1>3

LEMMA DeliveryText ==
    ASSUME LoopInv, WaitInv, TextInv, Delivery
    PROVE  TextInv'
<1> DEFINE n == Message.thread
<1>0. /\ call \in [Task -> Calls] /\ active \subseteq Task
      /\ text \in [Task -> Seq(Task)] /\ answer \in [Task -> Seq(Task)]
      /\ outbox \in Seq(Msg)
    BY DEF LoopInv, TypeOK
<1>1. /\ Message \in Msg /\ n \in Task /\ Message = outbox[1] /\ outbox # <<>>
      /\ outbox' = Tail(outbox) /\ outbox' \in Seq(Msg)
      /\ Len(outbox) \in Nat \ {0} /\ DOMAIN outbox = 1..Len(outbox)
      /\ DOMAIN outbox' = 1..(Len(outbox) - 1)
      /\ \A i \in DOMAIN outbox' : outbox'[i] = outbox[i + 1]
    BY <1>0, MessageKinds, HeadTailProperties, EmptySeq, LenProperties
    DEF Delivery, NextMessage, Message
<1>2. UNCHANGED <<thread, streams>>
    BY DEF Delivery, NextMessage
<1>3. \A u \in Task :
        /\ Cardinality(Deltas(outbox, u)) =
             IF Message.kind = "delta" /\ n = u THEN Cardinality(Deltas(outbox', u)) + 1
             ELSE Cardinality(Deltas(outbox', u))
        /\ Cardinality(Deltas(outbox', u)) \in Nat
  <2> SUFFICES ASSUME NEW u \in Task
               PROVE  /\ Cardinality(Deltas(outbox, u)) =
                           IF Message.kind = "delta" /\ n = u
                           THEN Cardinality(Deltas(outbox', u)) + 1
                           ELSE Cardinality(Deltas(outbox', u))
                      /\ Cardinality(Deltas(outbox', u)) \in Nat
    OBVIOUS
  <2>1. Cardinality(Deltas(outbox, u)) =
          IF Head(outbox).kind = "delta" /\ Head(outbox).thread = u
          THEN Cardinality(Deltas(Tail(outbox), u)) + 1 ELSE Cardinality(Deltas(Tail(outbox), u))
    BY <1>0, <1>1, DeltasTail
  <2>2. Tail(outbox) = outbox' /\ Head(outbox) = Message
    BY <1>1 DEF Message
  <2>3. Tail(outbox) \in Seq(Msg)
    BY <1>1, <2>2
  <2>4. Cardinality(Deltas(Tail(outbox), u)) \in Nat
    BY <2>3, DeltasFinite
  <2> QED
    BY <2>1, <2>2, <2>4
<1>4. \A i \in DOMAIN outbox' : outbox'[i].kind = "completed" =>
        /\ thread'[outbox'[i].thread] \in {"done", "none"}
        /\ \A j \in DOMAIN outbox' : j > i => outbox'[j].thread # outbox'[i].thread
  <2>1. \A i \in DOMAIN outbox' : i + 1 \in DOMAIN outbox /\ i \in Nat
    BY <1>1
  <2>2. \A i, j \in DOMAIN outbox' : j > i => j + 1 > i + 1
    BY <2>1
  <2> QED
    BY <1>1, <1>2, <2>1, <2>2 DEF TextInv
<1>5. \A u \in active : /\ Len(text[u]) \in Nat
                        /\ Len(text[u]) + Cardinality(Deltas(outbox, u)) = streams[u]
                        /\ \A i \in DOMAIN text[u] : text[u][i] = u
    BY <1>0, LenProperties DEF TextInv
<1> HIDE DEF n
<1>6. CASE OnDelta
  <2>1. /\ Message.kind = "delta" /\ UNCHANGED <<call, answer, active>>
        /\ text' = IF n \in active THEN [text EXCEPT ![n] = Append(@, n)] ELSE text
    BY <1>6 DEF OnDelta, n
  <2>2. ASSUME NEW u \in active
        PROVE  /\ \A i \in DOMAIN text'[u] : text'[u][i] = u
               /\ Len(text'[u]) + Cardinality(Deltas(outbox', u)) = streams[u]
    <3>1. CASE u = n
      <4>1. text'[u] = Append(text[u], u)
        BY <1>0, <2>1, <3>1
      <4>2. text[u] \in Seq(Task)
        BY <1>0
      <4>3. /\ Len(text'[u]) = Len(text[u]) + 1
            /\ \A i \in DOMAIN text'[u] : text'[u][i] = u
        BY <1>5, <4>1, <4>2
      <4>4. u \in Task /\ Message.kind = "delta" /\ n = u
        BY <1>0, <2>1, <3>1
      <4>5. /\ Cardinality(Deltas(outbox, u)) = Cardinality(Deltas(outbox', u)) + 1
            /\ Cardinality(Deltas(outbox', u)) \in Nat
        BY <1>3, <4>4
      <4>6. Len(text[u]) \in Nat /\ Len(text[u]) + Cardinality(Deltas(outbox, u)) = streams[u]
        BY <1>5
      <4> QED
        BY <4>3, <4>5, <4>6
    <3>2. CASE u # n
      <4>1. text'[u] = text[u]
        BY <1>0, <2>1, <3>2
      <4> QED
        BY <1>0, <1>3, <1>5, <3>2, <4>1
    <3> QED
      BY <3>1, <3>2
  <2> QED
    BY <1>2, <1>4, <2>1, <2>2 DEF TextInv, OwnAnswer
<1>7. ASSUME NEW u \in active, u # n \/ Message.kind # "delta"
      PROVE  Len(text[u]) + Cardinality(Deltas(outbox', u)) = streams[u]
    BY <1>0, <1>3, <1>5, <1>7
<1>8. CASE OnError
  <2>1. /\ Message.kind = "error" /\ UNCHANGED <<answer, text>> /\ active' \subseteq active
        /\ \A u \in Task : call'[u] = "ok" => call[u] = "ok"
    BY <1>8 DEF OnError, Failed
  <2>2. \A u \in active' : Len(text'[u]) + Cardinality(Deltas(outbox', u)) = streams'[u]
    BY <1>2, <1>7, <2>1
  <2> QED
    BY <1>2, <1>4, <1>5, <2>1, <2>2 DEF TextInv, OwnAnswer
<1>9. CASE OnCompleted
  <2>1. /\ Message.kind = "completed" /\ active' = active \ {n} /\ UNCHANGED text
        /\ \A u \in Task : u # n => call'[u] = call[u] /\ answer'[u] = answer[u]
    BY <1>0, <1>9 DEF OnCompleted, n
  <2>2. \A u \in active' : Len(text'[u]) + Cardinality(Deltas(outbox', u)) = streams'[u]
    BY <1>2, <1>7, <2>1
  <2>3. thread[n] \in {"done", "none"} /\ \A j \in DOMAIN outbox : j > 1 => outbox[j].thread # n
    BY <1>1, <2>1 DEF TextInv, n
  <2>4. Cardinality(Deltas(outbox, n)) = 0
    <3>1. Deltas(outbox, n) = {}
      BY <1>1, <2>1, <2>3 DEF Deltas
    <3> QED
      BY <3>1, FS_EmptySet
  <2>5. call'[n] = "ok" =>
          /\ \A i \in DOMAIN answer'[n] : answer'[n][i] = n
          /\ Len(answer'[n]) = streams[n]
    <3>1. CASE n \in active /\ Message.ok
      <4>1. answer'[n] = text[n]
        BY <1>0, <1>9, <3>1 DEF OnCompleted, n
      <4> QED
        BY <1>5, <2>4, <3>1, <4>1
    <3>2. CASE n \in active /\ ~Message.ok
      BY <1>0, <1>9, <3>2 DEF OnCompleted, n
    <3>3. CASE n \notin active
      BY <1>1, <1>9, <3>3 DEF OnCompleted, TextInv, OwnAnswer, n
    <3> QED
      BY <3>1, <3>2, <3>3
  <2>6. (\A t \in Task : call[t] = "ok" => thread[t] \in {"done", "none"})'
    BY <1>2, <2>1, <2>3 DEF TextInv
  <2>7. OwnAnswer'
    BY <1>2, <2>1, <2>5 DEF TextInv, OwnAnswer
  <2> QED
    BY <1>2, <1>4, <1>5, <2>1, <2>2, <2>6, <2>7 DEF TextInv
<1> QED
    BY <1>6, <1>8, <1>9, MessageKinds DEF Delivery

LEMMA PassingText ==
    ASSUME LoopInv, TextInv, Passing
    PROVE  TextInv'
<1>0. outbox \in Seq(Msg) /\ active \subseteq Task
    BY DEF LoopInv, TypeOK
<1>1. /\ UNCHANGED <<call, answer, active, text, thread, streams>>
      /\ outbox # <<>> /\ outbox' = Tail(outbox)
      /\ Head(outbox).kind # "delta"
    BY PassingFacts DEF client, Message
<1>2. /\ Len(outbox) \in Nat /\ DOMAIN outbox = 1..Len(outbox)
      /\ DOMAIN outbox' = 1..(Len(outbox) - 1)
      /\ \A i \in DOMAIN outbox' : outbox'[i] = outbox[i + 1]
    BY <1>0, <1>1, HeadTailProperties, EmptySeq, LenProperties
<1>3. \A u \in Task : Cardinality(Deltas(outbox', u)) = Cardinality(Deltas(outbox, u))
    BY <1>0, <1>1, DeltasTail
<1>4. \A i \in DOMAIN outbox' : outbox'[i].kind = "completed" =>
        /\ thread'[outbox'[i].thread] \in {"done", "none"}
        /\ \A j \in DOMAIN outbox' : j > i => outbox'[j].thread # outbox'[i].thread
  <2>1. \A i \in DOMAIN outbox' : i + 1 \in DOMAIN outbox /\ i \in Nat
    BY <1>2
  <2>2. \A i, j \in DOMAIN outbox' : j > i => j + 1 > i + 1
    BY <2>1
  <2> QED
    BY <1>1, <1>2, <2>1, <2>2 DEF TextInv
<1> QED
    BY <1>0, <1>1, <1>3, <1>4 DEF TextInv, OwnAnswer

-----------------------------------------------------------------------------
LEMMA InitIInv == ASSUME Init PROVE IInv
<1>1. <<>> \in Seq(Task) /\ <<>> \in Seq(Msg)
    BY EmptySeq
<1>2. LoopInv
  <2>1. TypeOK
    <3>1. /\ call \in [Task -> Calls] /\ lock \in Task \cup {NoTask}
          /\ slot \in BOOLEAN /\ disp \in Places
      BY DEF Init, Calls, Places
    <3>2. 0 \in 0..2
      OBVIOUS
    <3>3. tries \in [Task -> 0..2]
      BY <3>2 DEF Init
    <3>4. /\ queue \in Seq(Task) /\ starting \in Task \cup {NoTask} /\ active \subseteq Task
          /\ text \in [Task -> Seq(Task)] /\ answer \in [Task -> Seq(Task)]
      BY <1>1 DEF Init
    <3>5. 0 \in 0..MaxDeltas
      BY BoundAssumption DEF BoundAssumption
    <3>6. /\ server \in {"up", "closed"}
          /\ thread \in [Task -> {"none", "running", "failed", "done"}]
          /\ streams \in [Task -> 0..MaxDeltas]
      BY <3>5 DEF Init
    <3> QED
      BY <3>1, <3>3, <3>4, <3>6 DEF TypeOK
  <2>2. \A t \in Task : lock # t /\ tries[t] = 0
    BY BoundAssumption DEF Init, BoundAssumption
  <2> QED
    BY <1>1, <2>1, <2>2 DEF Init, LoopInv, Alive, Starting
<1>3. WaitInv
    BY BoundAssumption DEF Init, WaitInv, Unopened, Queued, Silent, BoundAssumption
<1>4. TextInv
    BY DEF Init, TextInv, OwnAnswer
<1> QED
    BY <1>2, <1>3, <1>4 DEF IInv

LEMMA NextIInv == ASSUME IInv, [Next]_vars PROVE IInv'
<1> USE DEF IInv
<1>1. ASSUME NEW t \in Task, Call(t) \/ Submission(t) PROVE IInv'
    BY <1>1, SubmissionLoop, SubmissionWait, SubmissionText
<1>2. CASE NextMessage
    BY <1>2, MessageKinds, DeliveryLoop, DeliveryWait, DeliveryText, PassingWait,
       PassingText
<1>3. CASE TakeCommand \/ NoCommand \/ Opening \/ Resting \/ IdleTimeout \/ Closed \/ Return
    BY <1>3, DispatcherLoop, DispatcherWait, DispatcherText
<1>4. CASE ServerCloses \/ ServerChatters \/ \E t \in Task : Server(t)
    BY <1>4, ServerLoop, ServerWait, ServerText
<1>5. CASE UNCHANGED vars
  <2>1. UNCHANGED <<call, tries, lock, slot, answer, disp, queue, starting, active, text,
                    server, thread, streams, outbox>>
    BY <1>5 DEF vars, client, loop, remote
  <2>2. LoopInv'
    BY <2>1 DEF LoopInv, TypeOK, Alive, Starting
  <2>3. WaitInv'
    BY <2>1 DEF WaitInv, Unopened, Queued, Silent
  <2>4. TextInv'
    BY <2>1 DEF TextInv, OwnAnswer
  <2> QED
    BY <2>2, <2>3, <2>4
<1> QED
    BY <1>1, <1>2, <1>3, <1>4, <1>5 DEF Next, Dispatcher, ServerAnswers, Opening, Resting

\* The inductive invariant: one dispatcher at a time, every waiting call at one
\* place of it, and every delta of an open turn collected or on its way.
THEOREM DispatcherIsSound == Spec => []IInv
BY InitIInv, NextIInv, PTL DEF Spec

\* A call that waits is known to a dispatcher that lives, however often the
\* process died and was started again.
THEOREM WaitersAreKnown == Spec => []NoOrphan
<1>1. ASSUME IInv PROVE NoOrphan
  <2> SUFFICES ASSUME NEW t \in Task, call[t] = "waiting"
               PROVE  Alive /\ (t \in active \/ t = starting \/ Queued(t))
    BY DEF NoOrphan, Queued
  <2>1. t \in active \/ t = starting \/ Queued(t)
    BY <1>1 DEF IInv, WaitInv
  <2>2. ASSUME ~Alive PROVE FALSE
    <3>1. active = {} /\ queue = <<>> /\ ~Starting
      BY <1>1, <2>2 DEF IInv, LoopInv, Alive, Starting
    <3>2. t # starting
      BY <1>1, <3>1, BoundAssumption DEF IInv, LoopInv, BoundAssumption
    <3> QED
      BY <2>1, <3>1, <3>2 DEF Queued
  <2> QED
    BY <2>1, <2>2
<1> QED
    BY <1>1, DispatcherIsSound, PTL

\* An answer is exactly what the server streamed for the thread of the call,
\* for any number of turns in flight and any death of the server.
THEOREM AnswersAreOwn == Spec => []OwnAnswer
<1>1. IInv => OwnAnswer
    BY DEF IInv, TextInv
<1> QED
    BY <1>1, DispatcherIsSound, PTL
=============================================================================
