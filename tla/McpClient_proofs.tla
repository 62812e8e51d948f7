-------------------------- MODULE McpClient_proofs --------------------------
(***************************************************************************)
(* What holds of the client of an MCP server for any number of callers,    *)
(* calls, and any capacity of the pipes.                                   *)
(***************************************************************************)
EXTENDS McpClient, FiniteSetTheorems, SequenceTheorems, TLAPS

\* The holder has a request of its own as long as it is past the lock, and a
\* call that ended with a reply ended with a line about its own request.
CallInv ==
  /\ nextId \in 1 .. CallBound + 1
  /\ at \in Await /\ (at # "lock" => wanted \in Id)
  /\ outcome = [i \in Id |-> outcome[i]]
  /\ got = [i \in Id |-> got[i]]
  /\ OwnAnswer

\* Ending a call keeps the invariant if a reply is about the call's request.
LEMMA EndKeepsCallInv ==
  ASSUME NEW o, NEW about, CallInv, at # "lock", End(o, about),
         o = "reply" => about = {wanted}
  PROVE  CallInv'
<1>1. wanted \in Id
  BY DEF CallInv
<1>2. /\ outcome' = [outcome EXCEPT ![wanted] = o]
      /\ got' = [got EXCEPT ![wanted] = about]
      /\ at' = "lock" /\ nextId' = nextId
  BY DEF End
<1>3. /\ outcome' = [i \in Id |-> IF i = wanted THEN o ELSE outcome[i]]
      /\ got' = [i \in Id |-> IF i = wanted THEN about ELSE got[i]]
  BY <1>1, <1>2 DEF CallInv
<1>4. OwnAnswer'
  BY <1>3 DEF OwnAnswer, CallInv
<1>5. outcome' = [i \in Id |-> outcome'[i]] /\ got' = [i \in Id |-> got'[i]]
  BY <1>3
<1> QED
  BY <1>2, <1>4, <1>5 DEF CallInv, Await

\* Steps that touch no call keep it.
LEMMA IdleKeepsCallInv ==
  ASSUME CallInv, UNCHANGED callVars
  PROVE  CallInv'
BY DEF CallInv, callVars, OwnAnswer

LEMMA CallInvInit ==
  ASSUME Init
  PROVE  CallInv
<1>1. CallBound \in Nat
  BY ConstantsAssumption DEF ConstantsAssumption
<1> QED
  BY <1>1 DEF Init, CallInv, OwnAnswer, Await, Id

LEMMA CallInvStep ==
  ASSUME CallInv, [Next]_vars
  PROVE  CallInv'
<1>1. CASE Holder
  <2>1. CASE BeginCall
    <3>1. CallBound \in Nat /\ nextId \in 1 .. CallBound + 1
      BY ConstantsAssumption DEF ConstantsAssumption, CallInv
    <3>2. nextId \in Id /\ nextId + 1 \in 1 .. CallBound + 1
      BY <2>1, <3>1 DEF BeginCall, Id
    <3>3. /\ wanted' = nextId /\ nextId' = nextId + 1
          /\ outcome' = outcome /\ got' = got
      BY <2>1 DEF BeginCall
    <3> QED
      BY <2>1, <3>2, <3>3 DEF BeginCall, CallInv, OwnAnswer, Await
  <2>2. CASE WriteBody \/ WriteNewline
    BY <2>2 DEF WriteBody, WriteNewline, CallInv, OwnAnswer, Await
  <2>3. CASE WriteFails
    BY <2>3, EndKeepsCallInv DEF WriteFails
  <2>4. CASE Timeout
    BY <2>4, EndKeepsCallInv DEF Timeout
  <2>5. CASE ReadHead
    BY <2>5, IdleKeepsCallInv DEF ReadHead
  <2>6. CASE ReadLine
    <3> DEFINE msg == Head(stdout).msg
    <3>1. CASE Matches(msg)
      <4>1. End(msg.kind, msg.about) /\ at # "lock"
        BY <2>6, <3>1 DEF ReadLine
      <4>2. msg.kind = "reply" => msg.about = {wanted}
        BY <3>1 DEF Matches
      <4> QED
        BY <4>1, <4>2, EndKeepsCallInv
    <3>2. CASE ~Matches(msg)
      BY <2>6, <3>2, IdleKeepsCallInv DEF ReadLine
    <3> QED
      BY <3>1, <3>2
  <2>7. CASE ReadFragment
    <3>1. at # "lock" /\ (End("json", Head(stdout).msg.about) \/ UNCHANGED callVars)
      BY <2>7 DEF ReadFragment
    <3> QED
      BY <3>1, EndKeepsCallInv, IdleKeepsCallInv
  <2>8. CASE ReadEof
    BY <2>8, EndKeepsCallInv DEF ReadEof
  <2> QED
    BY <1>1, <2>1, <2>2, <2>3, <2>4, <2>5, <2>6, <2>7, <2>8 DEF Holder, Read
<1>2. CASE Server
  BY <1>2, IdleKeepsCallInv DEF Server, TakeInput, Respond, Log, EmitRest, Die
<1>3. ASSUME NEW c \in Caller, Lock(c)
      PROVE  CallInv'
  BY <1>3 DEF Lock, CallInv, OwnAnswer
<1>4. ASSUME NEW c \in Caller, GiveUp(c)
      PROVE  CallInv'
  <2>1. CASE c # Head(queue) \/ at = "lock"
    BY <1>4, <2>1 DEF GiveUp, CallInv, OwnAnswer
  <2>2. CASE ~(c # Head(queue) \/ at = "lock")
    <3> DEFINE o == CASE at = "body" -> "unsent" [] at = "newline" -> "torn"
                      [] at = "reading" -> "dropped"
    <3>1. End(o, {}) /\ at # "lock"
      BY <1>4, <2>2 DEF GiveUp
    <3>2. CASE at \in {"body", "newline", "reading"}
      <4>1. o # "reply"
        BY <3>2
      <4> QED
        BY <3>1, <4>1, EndKeepsCallInv
    <3> QED
      BY <3>1, <3>2 DEF CallInv, Await
  <2> QED
    BY <2>1, <2>2
<1>5. CASE UNCHANGED vars
  BY <1>5, IdleKeepsCallInv DEF vars
<1> QED
  BY <1>1, <1>2, <1>3, <1>4, <1>5 DEF Next

\* A caller gets the reply to its own request and to no other, whatever the
\* server sends, in whatever pieces, and whichever earlier calls were cut off
\* (read_matching, client.rs).
THEOREM RepliesAreOwn == Spec => []OwnAnswer
<1>1. Init => CallInv
  BY CallInvInit
<1>2. CallInv /\ [Next]_vars => CallInv'
  BY CallInvStep
<1>3. CallInv => OwnAnswer
  BY DEF CallInv
<1> QED
  BY <1>1, <1>2, <1>3, PTL DEF Spec

-----------------------------------------------------------------------------
(* What a cut read leaves behind in the pipe, and what is asked through it  *)

\* The pieces the client has yet to read begin with the second piece of a line.
BeginsWithTail ==
  IF stdout = <<>> THEN rest # {} ELSE Head(stdout).part = "tail"

\* Every first piece is followed by its second, which the server may still owe.
Paired ==
  /\ \A k \in 1 .. Len(stdout) - 1 :
       stdout[k].part = "head" <=> stdout[k + 1].part = "tail"
  /\ stdout # <<>> => (stdout[Len(stdout)].part = "head" <=> rest # {})

\* A second piece whose first piece is lost is on its way to the client.
Stray == /\ ~carry /\ BeginsWithTail
         /\ alive \/ stdout # <<>>

\* The server died between the two pieces of a line the client is yet to read.
CutLine == /\ ~alive /\ rest # {}
           /\ carry \/ stdout # <<>>

One(b) == IF b THEN 1 ELSE 0

\* The lines that may still be garbled although no further read is cut off.
Owed == One(Stray) + One(CutLine)

\* The calls, in the order of their ids, and the values in the pipes.
LifeInv ==
  /\ CallInv
  /\ outcome \in [Id -> Outcome \cup {"open"}]
  /\ at # "lock" => wanted = nextId - 1
  /\ \A i \in Id : (outcome[i] = "open") <=> (i >= nextId \/ (at # "lock" /\ i = wanted))
  /\ alive \in BOOLEAN /\ carry \in BOOLEAN /\ (carry => at = "reading")
  /\ stdin \in Seq(Id \cup {Newline}) /\ stdout \in Seq(Piece)
  /\ line \subseteq Id /\ todo \subseteq SUBSET Id /\ rest \subseteq Message

SpoilInv ==
  /\ LifeInv /\ Paired
  /\ carry => BeginsWithTail
  /\ Cardinality(Garbled) + Owed <= Cardinality(CutReads) + One(~alive)

\* No answer is on its way to the client.
NoAnswer ==
  /\ \A k \in DOMAIN stdout : stdout[k].part # "head" => stdout[k].msg.kind = "note"
  /\ \A msg \in rest : msg.kind = "note"

NoNewline == \A k \in DOMAIN stdin : stdin[k] # Newline

\* The server has the body of the holder's request, or will read it.
Asked == wanted \in line \/ \E k \in DOMAIN stdin : stdin[k] = wanted

\* Where the only line the server is to answer can be.
Idle == NoNewline /\ todo = {} /\ NoAnswer

InFlight ==
  /\ stdin # <<>> /\ stdin[Len(stdin)] = Newline
  /\ \A k \in 1 .. Len(stdin) - 1 : stdin[k] # Newline
  /\ Asked /\ todo = {} /\ NoAnswer

Received == NoNewline /\ NoAnswer /\ \E ids \in todo : todo = {ids} /\ wanted \in ids

AnswerOwed ==
  /\ NoNewline /\ todo = {}
  /\ \A k \in DOMAIN stdout : stdout[k].part # "head" => stdout[k].msg.kind = "note"
  /\ \E msg \in rest : rest = {msg} /\ wanted \in msg.about

AnswerSent ==
  /\ NoNewline /\ todo = {} /\ \A msg \in rest : msg.kind = "note"
  /\ \E n \in DOMAIN stdout :
       /\ wanted \in stdout[n].msg.about
       /\ \A k \in DOMAIN stdout \ {n} :
            stdout[k].part # "head" => stdout[k].msg.kind = "note"

\* As long as no read was cut off, the pipes hold nothing of an earlier call
\* but bodies without a newline.
Quiet ==
  CASE at = "newline" -> Idle /\ Asked
    [] at = "reading" -> Idle \/ InFlight \/ Received \/ AnswerOwed \/ AnswerSent
    [] OTHER          -> Idle

HarmInv ==
  /\ SpoilInv
  /\ alive /\ CutReads = {} => Quiet
  /\ HarmHasACause

LEMMA SetsAreFinite ==
  /\ IsFiniteSet(CutReads) /\ IsFiniteSet(Garbled)
  /\ Cardinality(CutReads) \in Nat /\ Cardinality(Garbled) \in Nat
<1>1. IsFiniteSet(Id)
  BY FS_Interval, ConstantsAssumption DEF ConstantsAssumption, Id
<1>2. CutReads \subseteq Id /\ Garbled \subseteq Id
  BY DEF CutReads, Garbled
<1> QED
  BY <1>1, <1>2, FS_Subset, FS_CardinalityType

\* What the end of a call changes.
LEMMA EndFacts ==
  ASSUME LifeInv, at # "lock", NEW o \in Outcome, NEW about, End(o, about)
  PROVE  /\ wanted \in Id /\ wanted + 1 = nextId /\ outcome[wanted] = "open"
         /\ outcome'[wanted] = o /\ got'[wanted] = about
         /\ \A i \in Id \ {wanted} : outcome'[i] = outcome[i] /\ got'[i] = got[i]
         /\ outcome' \in [Id -> Outcome \cup {"open"}]
         /\ at' = "lock" /\ carry' = FALSE /\ nextId' = nextId
         /\ \A i \in CutReads \cup Garbled : i \in Id /\ i < wanted
         /\ CutReads' = CutReads \cup (IF o \in {"timeout", "dropped"} THEN {wanted} ELSE {})
         /\ Garbled' = Garbled \cup (IF o = "json" THEN {wanted} ELSE {})
<1>1. /\ wanted \in Id /\ wanted + 1 = nextId /\ outcome[wanted] = "open"
      /\ nextId \in Nat
  BY ConstantsAssumption DEF LifeInv, CallInv, ConstantsAssumption, Id
<1>2. /\ outcome' = [outcome EXCEPT ![wanted] = o]
      /\ got' = [got EXCEPT ![wanted] = about]
      /\ at' = "lock" /\ carry' = FALSE /\ nextId' = nextId
  BY DEF End
<1>3. /\ outcome'[wanted] = o /\ got'[wanted] = about
      /\ \A i \in Id \ {wanted} : outcome'[i] = outcome[i] /\ got'[i] = got[i]
      /\ outcome' \in [Id -> Outcome \cup {"open"}]
  BY <1>1, <1>2 DEF LifeInv, CallInv
<1>4. \A i \in CutReads \cup Garbled : i \in Id /\ i < wanted
  <2>1. \A i \in Id : i \in Int
    BY DEF Id
  <2>2. \A i \in CutReads \cup Garbled : i \in Id /\ outcome[i] # "open"
    BY DEF CutReads, Garbled
  <2>3. \A i \in Id : outcome[i] # "open" => i < nextId /\ i # wanted
    BY <2>1, <1>1 DEF LifeInv
  <2> QED
    BY <2>1, <2>2, <2>3, <1>1
<1>5. CutReads' = CutReads \cup (IF o \in {"timeout", "dropped"} THEN {wanted} ELSE {})
  BY <1>1, <1>3 DEF CutReads
<1>6. Garbled' = Garbled \cup (IF o = "json" THEN {wanted} ELSE {})
  BY <1>1, <1>3 DEF Garbled
<1> QED
  BY <1>1, <1>2, <1>3, <1>4, <1>5, <1>6

\* The part of LifeInv about the calls, and that about the pipes.
CallsOK ==
  /\ CallInv
  /\ outcome \in [Id -> Outcome \cup {"open"}]
  /\ at # "lock" => wanted = nextId - 1
  /\ \A i \in Id : (outcome[i] = "open") <=> (i >= nextId \/ (at # "lock" /\ i = wanted))

PipesOK ==
  /\ stdin \in Seq(Id \cup {Newline}) /\ stdout \in Seq(Piece)
  /\ line \subseteq Id /\ todo \subseteq SUBSET Id /\ rest \subseteq Message

LEMMA EndKeepsCalls ==
  ASSUME LifeInv, CallInv', at # "lock", NEW o \in Outcome, NEW about, End(o, about)
  PROVE  CallsOK'
<1>1. /\ wanted \in Id /\ wanted + 1 = nextId /\ nextId' = nextId /\ at' = "lock"
      /\ outcome'[wanted] = o
      /\ \A i \in Id \ {wanted} : outcome'[i] = outcome[i]
      /\ outcome' \in [Id -> Outcome \cup {"open"}]
  BY EndFacts
<1>2. o # "open"
  BY DEF Outcome, Spoiled
<1>3. nextId \in Int /\ \A i \in Id : i \in Int
  BY <1>1 DEF LifeInv, CallInv, Id
<1>4. ASSUME NEW i \in Id
      PROVE  (outcome'[i] = "open") <=> (i >= nextId)
  <2>1. CASE i = wanted
    BY <2>1, <1>1, <1>2, <1>3
  <2>2. CASE i # wanted
    BY <2>2, <1>1, <1>3 DEF LifeInv
  <2> QED
    BY <2>1, <2>2
<1> QED
  BY <1>1, <1>4 DEF CallsOK

LEMMA GiveUpFacts ==
  ASSUME LifeInv, NEW c, GiveUp(c)
  PROVE  /\ UNCHANGED <<stdin, stdout, serverVars>>
         /\ \/ UNCHANGED <<at, wanted, nextId, outcome, got, carry>>
            \/ \E o \in {"unsent", "torn", "dropped"} :
                 /\ at # "lock" /\ End(o, {})
                 /\ at = "reading" <=> o = "dropped"
<1>1. UNCHANGED <<stdin, stdout, serverVars>>
  BY DEF GiveUp
<1>2. CASE c # Head(queue) \/ at = "lock"
  BY <1>1, <1>2 DEF GiveUp
<1>3. CASE ~(c # Head(queue) \/ at = "lock")
  <2> DEFINE o == CASE at = "body" -> "unsent" [] at = "newline" -> "torn"
                    [] at = "reading" -> "dropped"
  <2>1. End(o, {})
    BY <1>3 DEF GiveUp
  <2>2. at \in {"body", "newline", "reading"}
    BY <1>3 DEF LifeInv, CallInv, Await
  <2>3. o \in {"unsent", "torn", "dropped"} /\ (at = "reading" <=> o = "dropped")
    BY <2>2
  <2> QED
    BY <1>1, <1>3, <2>1, <2>3
<1> QED
  BY <1>2, <1>3

\* The steps, one by one; a step of GiveUp either ends the holder's call or not.
LEMMA Steps ==
  ASSUME LifeInv, [Next]_vars
  PROVE  \/ BeginCall \/ WriteBody \/ WriteNewline \/ WriteFails \/ Timeout
         \/ ReadHead \/ ReadLine \/ ReadFragment \/ ReadEof
         \/ TakeInput \/ (\E ids \in todo : Respond(ids)) \/ Log \/ EmitRest \/ Die
         \/ UNCHANGED <<at, wanted, nextId, outcome, got, carry, stdin, stdout, serverVars>>
         \/ \E o \in {"unsent", "torn", "dropped"} :
              /\ at # "lock" /\ End(o, {}) /\ (at = "reading" <=> o = "dropped")
              /\ UNCHANGED <<stdin, stdout, serverVars>>
<1>1. CASE Holder \/ Server
  BY <1>1 DEF Holder, Server, Read
<1>2. ASSUME NEW c \in Caller, Lock(c)
      PROVE  UNCHANGED <<at, wanted, nextId, outcome, got, carry, stdin, stdout, serverVars>>
  BY <1>2 DEF Lock
<1>3. CASE \E c \in Caller : GiveUp(c)
  BY <1>3, GiveUpFacts
<1>4. CASE UNCHANGED vars
  BY <1>4 DEF vars, callVars
<1> QED
  BY <1>1, <1>2, <1>3, <1>4 DEF Next

\* Reading a line either ends the call with it or drops it.
LEMMA ReadLineFacts ==
  ASSUME ReadLine
  PROVE  /\ at = "reading" /\ stdout # <<>> /\ stdout' = Tail(stdout)
         /\ Head(stdout).part = "whole" \/ (Head(stdout).part = "tail" /\ carry)
         /\ UNCHANGED <<stdin, serverVars>>
         /\ \/ /\ Matches(Head(stdout).msg)
               /\ End(Head(stdout).msg.kind, Head(stdout).msg.about)
               /\ Head(stdout).msg.kind \in {"reply", "orphan"}
            \/ carry' = FALSE /\ UNCHANGED callVars
BY DEF ReadLine, Matches

LEMMA PieceFacts ==
  ASSUME LifeInv, stdout # <<>>
  PROVE  /\ Head(stdout) \in Piece /\ Head(stdout) = stdout[1]
         /\ Tail(stdout) \in Seq(Piece) /\ Len(Tail(stdout)) = Len(stdout) - 1
         /\ Len(stdout) \in Nat \ {0}
         /\ \A k \in 1 .. Len(stdout) - 1 : Tail(stdout)[k] = stdout[k + 1]
         /\ \A k \in 1 .. Len(stdout) : stdout[k] \in Piece
         /\ (Tail(stdout) = <<>>) <=> (Len(stdout) = 1)
<1>1. stdout \in Seq(Piece) /\ stdout # <<>>
  BY DEF LifeInv
<1>2. /\ Head(stdout) \in Piece /\ Head(stdout) = stdout[1]
      /\ Tail(stdout) \in Seq(Piece) /\ Len(Tail(stdout)) = Len(stdout) - 1
  BY <1>1
<1>3. /\ Len(stdout) \in Nat \ {0}
      /\ \A k \in 1 .. Len(stdout) : stdout[k] \in Piece
  BY <1>1, EmptySeq, ElementOfSeq
<1>5. \A k \in 1 .. Len(stdout) - 1 : Tail(stdout)[k] = stdout[k + 1]
  BY <1>1, HeadTailProperties
<1>4. (Tail(stdout) = <<>>) <=> (Len(stdout) = 1)
  <2>1. CASE Tail(stdout) = <<>>
    <3>1. Len(Tail(stdout)) = 0
      BY <2>1, EmptySeq
    <3> QED
      BY <3>1, <2>1, <1>2, <1>3
  <2>2. CASE Tail(stdout) # <<>>
    <3>1. Len(Tail(stdout)) \in Nat \ {0}
      BY <2>2, <1>2, EmptySeq
    <3> QED
      BY <3>1, <2>2, <1>2, <1>3
  <2> QED
    BY <2>1, <2>2
<1> QED
  BY <1>2, <1>3, <1>4, <1>5

\* Emitting a message appends one piece of it, whole or the first of two.
LEMMA EmitFacts ==
  ASSUME NEW msg, Emit(msg)
  PROVE  /\ alive /\ rest = {}
         /\ \E p \in {"whole", "head"} :
              /\ stdout' = Append(stdout, [part |-> p, msg |-> msg])
              /\ rest' = IF p = "head" THEN {msg} ELSE {}
<1>1. CASE /\ stdout' = Append(stdout, [part |-> "whole", msg |-> msg])
           /\ UNCHANGED rest
  BY <1>1 DEF Emit
<1>2. CASE /\ stdout' = Append(stdout, [part |-> "head", msg |-> msg])
           /\ rest' = {msg}
  BY <1>2 DEF Emit
<1> QED
  BY <1>1, <1>2 DEF Emit

LEMMA EmitKeepsPipes ==
  ASSUME PipesOK, NEW msg \in Message, Emit(msg)
  PROVE  stdout' \in Seq(Piece) /\ rest' \subseteq Message
<1>1. PICK p \in {"whole", "head"} :
         /\ stdout' = Append(stdout, [part |-> p, msg |-> msg])
         /\ rest' = IF p = "head" THEN {msg} ELSE {}
  BY EmitFacts
<1>2. [part |-> p, msg |-> msg] \in Piece
  BY DEF Piece
<1> QED
  BY <1>1, <1>2 DEF PipesOK

LEMMA RespondMessages ==
  ASSUME PipesOK, NEW ids \in todo, Respond(ids)
  PROVE  \E msg \in Message : Emit(msg) /\ msg.kind # "note" /\ msg.about = ids
<1> DEFINE reply == [kind |-> "reply", about |-> ids]
           orphan == [kind |-> "orphan", about |-> ids]
<1>1. reply \in Message /\ orphan \in Message
  BY DEF PipesOK, Message, Kind
<1>2. Emit(reply) \/ Emit(orphan)
  BY DEF Respond
<1>3. /\ reply.kind # "note" /\ reply.about = ids
      /\ orphan.kind # "note" /\ orphan.about = ids
  OBVIOUS
<1> HIDE DEF reply, orphan
<1> QED
  BY <1>1, <1>2, <1>3

LEMMA LogMessage ==
  ASSUME Log
  PROVE  \E msg \in Message : Emit(msg) /\ msg.kind = "note"
<1> DEFINE msg == [kind |-> "note", about |-> {}]
<1>1. msg \in Message /\ msg.kind = "note" /\ Emit(msg)
  BY DEF Message, Kind, Log
<1> QED
  BY <1>1

LEMMA PipesStep ==
  ASSUME LifeInv, [Next]_vars
  PROVE  PipesOK'
<1>0. PipesOK
  BY DEF LifeInv, PipesOK
<1>1. ASSUME UNCHANGED <<stdin, stdout, serverVars>>
      PROVE  PipesOK'
  BY <1>0, <1>1 DEF PipesOK, serverVars
<1>2. ASSUME UNCHANGED <<stdin, serverVars>>, stdout # <<>>, stdout' = Tail(stdout)
      PROVE  PipesOK'
  BY <1>0, <1>2, PieceFacts DEF PipesOK, serverVars
<1>3. CASE BeginCall \/ WriteFails \/ Timeout \/ ReadEof
  BY <1>1, <1>3 DEF BeginCall, WriteFails, Timeout, ReadEof
<1>4. CASE WriteBody \/ WriteNewline
  <2>1. /\ UNCHANGED <<stdout, serverVars>>
        /\ \E b \in Id \cup {Newline} : stdin' = Append(stdin, b)
    <3>1. CASE WriteBody
      <4>1. wanted \in Id
        BY <3>1 DEF WriteBody, LifeInv, CallInv
      <4> QED
        BY <3>1, <4>1 DEF WriteBody
    <3>2. CASE WriteNewline
      BY <3>2 DEF WriteNewline
    <3> QED
      BY <1>4, <3>1, <3>2
  <2> QED
    BY <1>0, <2>1 DEF PipesOK, serverVars
<1>5. CASE ReadHead \/ ReadFragment
  BY <1>2, <1>5 DEF ReadHead, ReadFragment
<1>6. CASE ReadLine
  BY <1>2, <1>6, ReadLineFacts
<1>7. CASE TakeInput
  <2>1. /\ stdin # <<>> /\ stdin' = Tail(stdin) /\ stdout' = stdout /\ rest' = rest
        /\ \/ todo' = todo \cup {line} /\ line' = {}
           \/ Head(stdin) # Newline /\ line' = line \cup {Head(stdin)} /\ todo' = todo
    BY <1>7 DEF TakeInput
  <2>2. Head(stdin) \in Id \cup {Newline} /\ Tail(stdin) \in Seq(Id \cup {Newline})
    BY <1>0, <2>1 DEF PipesOK
  <2> QED
    BY <1>0, <2>1, <2>2 DEF PipesOK
<1>8. ASSUME NEW ids \in todo, Respond(ids)
      PROVE  PipesOK'
  <2>1. stdout' \in Seq(Piece) /\ rest' \subseteq Message
    BY <1>0, <1>8, RespondMessages, EmitKeepsPipes
  <2>2. todo' = todo \ {ids} /\ stdin' = stdin /\ line' = line
    BY <1>8 DEF Respond
  <2> QED
    BY <1>0, <2>1, <2>2 DEF PipesOK
<1>9. CASE Log
  <2>1. stdout' \in Seq(Piece) /\ rest' \subseteq Message
    BY <1>0, <1>9, LogMessage, EmitKeepsPipes
  <2>2. todo' = todo /\ stdin' = stdin /\ line' = line
    BY <1>9 DEF Log
  <2> QED
    BY <1>0, <2>1, <2>2 DEF PipesOK
<1>10. CASE EmitRest
  <2>1. PICK msg \in rest : stdout' = Append(stdout, [part |-> "tail", msg |-> msg])
    BY <1>10 DEF EmitRest
  <2>2. rest' = {} /\ todo' = todo /\ stdin' = stdin /\ line' = line
    BY <1>10 DEF EmitRest
  <2>3. [part |-> "tail", msg |-> msg] \in Piece
    BY <1>0 DEF PipesOK, Piece
  <2> QED
    BY <1>0, <2>1, <2>2, <2>3 DEF PipesOK
<1>11. CASE Die
  BY <1>0, <1>11 DEF Die, PipesOK
<1> QED
  BY <1>1, <1>3, <1>4, <1>5, <1>6, <1>7, <1>8, <1>9, <1>10, <1>11, Steps

LEMMA CallsStep ==
  ASSUME LifeInv, [Next]_vars
  PROVE  CallsOK'
<1>0. CallsOK /\ CallInv'
  BY CallInvStep DEF LifeInv, CallsOK
<1>1. ASSUME UNCHANGED <<wanted, nextId, outcome, got>>, at' = "lock" <=> at = "lock"
      PROVE  CallsOK'
  BY <1>0, <1>1 DEF CallsOK
<1>2. CASE BeginCall
  <2>1. /\ at = "lock" /\ at' = "body" /\ wanted' = nextId /\ nextId' = nextId + 1
        /\ outcome' = outcome
    BY <1>2 DEF BeginCall
  <2>2. nextId \in Int /\ \A i \in Id : i \in Int
    BY ConstantsAssumption DEF LifeInv, CallInv, Id, ConstantsAssumption
  <2>3. \A i \in Id : (outcome[i] = "open") <=> (i >= nextId + 1 \/ i = nextId)
    BY <2>1, <2>2, <1>0 DEF CallsOK
  <2>4. wanted' = nextId' - 1
    BY <2>1, <2>2
  <2> QED
    BY <1>0, <2>1, <2>3, <2>4 DEF CallsOK
<1>3. CASE WriteBody \/ WriteNewline
  BY <1>1, <1>3 DEF WriteBody, WriteNewline
<1>4. CASE ReadHead
  BY <1>1, <1>4 DEF ReadHead, callVars
<1>5. ASSUME NEW o \in Outcome, NEW about, at # "lock", End(o, about)
      PROVE  CallsOK'
  BY <1>0, <1>5, EndKeepsCalls
<1>6. {"io", "timeout", "json", "closed", "reply", "orphan", "unsent", "torn", "dropped"}
        \subseteq Outcome
  BY DEF Outcome, Spoiled
<1>7. CASE WriteFails \/ Timeout \/ ReadEof
  BY <1>5, <1>6, <1>7 DEF WriteFails, Timeout, ReadEof
<1>8. CASE ReadLine
  <2>1. CASE UNCHANGED callVars
    BY <1>1, <2>1 DEF callVars
  <2>2. CASE ~UNCHANGED callVars
    BY <1>5, <1>6, <1>8, <2>2, ReadLineFacts
  <2> QED
    BY <2>1, <2>2
<1>9. CASE ReadFragment
  <2>1. CASE UNCHANGED callVars
    BY <1>1, <2>1 DEF callVars
  <2>2. CASE ~UNCHANGED callVars
    BY <1>5, <1>6, <1>9, <2>2 DEF ReadFragment
  <2> QED
    BY <2>1, <2>2
<1>10. CASE TakeInput \/ (\E ids \in todo : Respond(ids)) \/ Log \/ EmitRest \/ Die
  BY <1>1, <1>10 DEF TakeInput, Respond, Log, EmitRest, Die, callVars
<1>11. ASSUME NEW o \in {"unsent", "torn", "dropped"}, at # "lock", End(o, {})
       PROVE  CallsOK'
  BY <1>5, <1>6, <1>11
<1> QED
  BY <1>1, <1>2, <1>3, <1>4, <1>7, <1>8, <1>9, <1>10, <1>11, Steps

LEMMA LifeStep ==
  ASSUME LifeInv, [Next]_vars
  PROVE  LifeInv'
<1>1. alive' \in BOOLEAN
  BY Steps DEF LifeInv, BeginCall, WriteBody, WriteNewline, WriteFails, Timeout, ReadHead,
       ReadLine, ReadFragment, ReadEof, TakeInput, Respond, Log, EmitRest, Die, serverVars
<1>2. carry' \in BOOLEAN /\ (carry' => at' = "reading")
  <2>1. CASE UNCHANGED <<at, carry>>
    BY <2>1 DEF LifeInv
  <2>2. CASE BeginCall \/ WriteBody \/ WriteNewline
    BY <2>2 DEF BeginCall, WriteBody, WriteNewline, LifeInv
  <2>3. CASE carry' = FALSE
    BY <2>3
  <2>4. CASE ReadHead
    BY <2>4 DEF ReadHead, callVars
  <2>5. CASE ReadFragment
    BY <2>1, <2>3, <2>5 DEF ReadFragment, End, callVars
  <2>6. CASE ReadLine
    BY <2>1, <2>3, <2>6 DEF ReadLine, End
  <2>7. CASE WriteFails \/ Timeout \/ ReadEof
    BY <2>3, <2>7 DEF WriteFails, Timeout, ReadEof, End
  <2>8. CASE TakeInput \/ (\E ids \in todo : Respond(ids)) \/ Log \/ EmitRest \/ Die
    BY <2>1, <2>8 DEF TakeInput, Respond, Log, EmitRest, Die, callVars
  <2>9. CASE \E o : End(o, {})
    BY <2>3, <2>9 DEF End
  <2> QED
    BY <2>1, <2>2, <2>4, <2>5, <2>6, <2>7, <2>8, <2>9, Steps
<1> QED
  BY <1>1, <1>2, CallsStep, PipesStep DEF LifeInv, CallsOK, PipesOK

LEMMA LifeInit ==
  ASSUME Init
  PROVE  LifeInv
<1>1. CallBound \in Nat
  BY ConstantsAssumption DEF ConstantsAssumption
<1>2. /\ CallInv /\ at = "lock" /\ nextId = 1 /\ carry = FALSE /\ alive = TRUE
      /\ outcome = [i \in Id |-> "open"]
      /\ stdin = <<>> /\ stdout = <<>> /\ line = {} /\ todo = {} /\ rest = {}
  BY CallInvInit DEF Init
<1>3. outcome \in [Id -> Outcome \cup {"open"}]
  BY <1>2
<1>4. \A i \in Id : (outcome[i] = "open") <=> (i >= nextId)
  BY <1>1, <1>2 DEF Id
<1>5. stdin \in Seq(Id \cup {Newline}) /\ stdout \in Seq(Piece)
  BY <1>2
<1> QED
  BY <1>2, <1>3, <1>4, <1>5 DEF LifeInv

-----------------------------------------------------------------------------
(* A cut read garbles at most one line *)

\* Taking the next piece keeps the pieces paired, and the one behind it is a
\* second piece exactly if it is a first one.
LEMMA TakePiece ==
  ASSUME LifeInv, Paired, stdout # <<>>, stdout' = Tail(stdout), rest' = rest
  PROVE  Paired' /\ (BeginsWithTail' <=> Head(stdout).part = "head")
<1> DEFINE n == Len(stdout)
<1>1. n \in Nat \ {0} /\ Len(stdout') = n - 1 /\ Head(stdout) = stdout[1]
  BY PieceFacts
<1>2. \A k \in 1 .. n - 1 : stdout'[k] = stdout[k + 1]
  BY PieceFacts
<1>3. stdout' = <<>> <=> n = 1
  BY PieceFacts
<1>4. \A k \in 1 .. n - 1 : stdout[k].part = "head" <=> stdout[k + 1].part = "tail"
  BY DEF Paired
<1>5. stdout[n].part = "head" <=> rest # {}
  BY DEF Paired
<1> HIDE DEF n
<1>6. \A k \in 1 .. Len(stdout') - 1 :
        stdout'[k].part = "head" <=> stdout'[k + 1].part = "tail"
  <2> TAKE k \in 1 .. Len(stdout') - 1
  <2>1. k \in 1 .. n - 1 /\ k + 1 \in 1 .. n - 1
    BY <1>1
  <2> QED
    BY <2>1, <1>2, <1>4
<1>7. stdout' # <<>> => (stdout'[Len(stdout')].part = "head" <=> rest' # {})
  <2> SUFFICES ASSUME stdout' # <<>>
               PROVE  stdout'[n - 1].part = "head" <=> rest # {}
    BY <1>1
  <2>1. n - 1 \in 1 .. n - 1 /\ (n - 1) + 1 = n
    BY <1>1, <1>3
  <2> QED
    BY <2>1, <1>2, <1>5
<1>8. Paired'
  BY <1>6, <1>7 DEF Paired
<1>9. CASE n = 1
  BY <1>9, <1>1, <1>3, <1>5, <1>8 DEF BeginsWithTail
<1>10. CASE n # 1
  <2>1. stdout' # <<>> /\ 1 \in 1 .. n - 1 /\ 1 + 1 = 2
    BY <1>10, <1>1, <1>3
  <2>2. Head(stdout') = stdout'[1]
    BY <2>1, PieceFacts
  <2> QED
    BY <2>1, <2>2, <1>1, <1>2, <1>4, <1>8 DEF BeginsWithTail
<1> QED
  BY <1>9, <1>10

\* So does appending the piece that is due.
LEMMA GivePiece ==
  ASSUME LifeInv, Paired, NEW p \in Piece, stdout' = Append(stdout, p),
         p.part = "tail" <=> rest # {}, p.part = "head" <=> rest' # {}
  PROVE  Paired' /\ (BeginsWithTail' <=> BeginsWithTail)
<1> DEFINE n == Len(stdout)
<1>1. /\ stdout \in Seq(Piece) /\ n \in Nat
      /\ Len(stdout') = n + 1 /\ stdout'[n + 1] = p
      /\ \A k \in 1 .. n : stdout'[k] = stdout[k]
      /\ stdout' # <<>> /\ stdout' \in Seq(Piece)
  BY AppendProperties, LenProperties DEF LifeInv
<1>2. stdout # <<>> => n >= 1
  BY <1>1, EmptySeq
<1>3. stdout = <<>> => n = 0
  BY EmptySeq
<1>4. \A k \in 1 .. n - 1 : stdout[k].part = "head" <=> stdout[k + 1].part = "tail"
  BY DEF Paired
<1>5. stdout # <<>> => (stdout[n].part = "head" <=> rest # {})
  BY DEF Paired
<1>6. Head(stdout') = stdout'[1] /\ (stdout # <<>> => Head(stdout) = stdout[1])
  BY <1>1
<1> HIDE DEF n
<1>7. \A k \in 1 .. n : stdout'[k].part = "head" <=> stdout'[k + 1].part = "tail"
  <2> TAKE k \in 1 .. n
  <2>1. CASE k = n
    BY <2>1, <1>1, <1>3, <1>5
  <2>2. CASE k # n
    <3>1. k \in 1 .. n - 1 /\ k + 1 \in 1 .. n
      BY <2>2, <1>1
    <3> QED
      BY <3>1, <1>1, <1>4
  <2> QED
    BY <2>1, <2>2
<1>8. Paired'
  BY <1>1, <1>7 DEF Paired
<1>9. CASE stdout = <<>>
  BY <1>9, <1>1, <1>3, <1>6, <1>8 DEF BeginsWithTail
<1>10. CASE stdout # <<>>
  BY <1>10, <1>1, <1>2, <1>6, <1>8 DEF BeginsWithTail
<1> QED
  BY <1>9, <1>10

\* How the end of a call counts.
LEMMA EndCounts ==
  ASSUME LifeInv, at # "lock", NEW o \in Outcome, NEW about, End(o, about)
  PROVE  /\ Cardinality(CutReads') = Cardinality(CutReads) + One(o \in {"timeout", "dropped"})
         /\ Cardinality(Garbled') = Cardinality(Garbled) + One(o = "json")
<1>1. wanted \in Id /\ \A i \in CutReads \cup Garbled : i \in Id /\ i < wanted
  BY EndFacts
<1>2. wanted \notin CutReads /\ wanted \notin Garbled
  BY <1>1 DEF Id
<1>3. /\ CutReads' = CutReads \cup (IF o \in {"timeout", "dropped"} THEN {wanted} ELSE {})
      /\ Garbled' = Garbled \cup (IF o = "json" THEN {wanted} ELSE {})
  BY EndFacts
<1>4. /\ Cardinality(CutReads \cup {wanted}) = Cardinality(CutReads) + 1
      /\ Cardinality(Garbled \cup {wanted}) = Cardinality(Garbled) + 1
  BY <1>2, SetsAreFinite, FS_AddElement
<1>5. CutReads \cup {} = CutReads /\ Garbled \cup {} = Garbled
  OBVIOUS
<1>6. Cardinality(CutReads') = Cardinality(CutReads) + One(o \in {"timeout", "dropped"})
  <2>1. CASE o \in {"timeout", "dropped"}
    BY <2>1, <1>3, <1>4 DEF One
  <2>2. CASE ~(o \in {"timeout", "dropped"})
    <3>1. CutReads' = CutReads /\ One(o \in {"timeout", "dropped"}) = 0
      BY <2>2, <1>3, <1>5 DEF One
    <3> QED
      BY <3>1, SetsAreFinite
  <2> QED
    BY <2>1, <2>2
<1>7. Cardinality(Garbled') = Cardinality(Garbled) + One(o = "json")
  <2>1. CASE o = "json"
    BY <2>1, <1>3, <1>4 DEF One
  <2>2. CASE o # "json"
    <3>1. Garbled' = Garbled /\ One(o = "json") = 0
      BY <2>2, <1>3, <1>5 DEF One
    <3> QED
      BY <3>1, SetsAreFinite
  <2> QED
    BY <2>1, <2>2
<1> QED
  BY <1>6, <1>7

\* The count of SpoilInv in a step that ends no call, and in one that does.
LEMMA CountIdle ==
  ASSUME SpoilInv, outcome' = outcome, Owed' + One(~alive) <= Owed + One(~alive')
  PROVE  (Cardinality(Garbled) + Owed <= Cardinality(CutReads) + One(~alive))'
<1>1. CutReads' = CutReads /\ Garbled' = Garbled
  BY DEF CutReads, Garbled
<1>2. Cardinality(Garbled) + Owed <= Cardinality(CutReads) + One(~alive)
  BY DEF SpoilInv
<1>3. \A b : One(b) \in 0 .. 1
  BY DEF One
<1>4. Owed \in Nat /\ Owed' \in Nat
  BY <1>3 DEF Owed
<1>5. One(~alive) \in Nat /\ One(~alive') \in Nat
  BY <1>3
<1> HIDE DEF Owed
<1> QED
  BY <1>1, <1>2, <1>4, <1>5, SetsAreFinite

LEMMA CountEnd ==
  ASSUME SpoilInv, at # "lock", NEW o \in Outcome, NEW about, End(o, about), alive' = alive,
         Owed' + One(o = "json") <= Owed + One(o \in {"timeout", "dropped"})
  PROVE  (Cardinality(Garbled) + Owed <= Cardinality(CutReads) + One(~alive))'
<1>1. /\ Cardinality(CutReads') = Cardinality(CutReads) + One(o \in {"timeout", "dropped"})
      /\ Cardinality(Garbled') = Cardinality(Garbled) + One(o = "json")
  BY EndCounts DEF SpoilInv
<1>2. Cardinality(Garbled) + Owed <= Cardinality(CutReads) + One(~alive)
  BY DEF SpoilInv
<1>3. \A b : One(b) \in 0 .. 1
  BY DEF One
<1>4. Owed \in Nat /\ Owed' \in Nat
  BY <1>3 DEF Owed
<1>5. /\ One(~alive) \in Nat /\ One(o = "json") \in Nat
      /\ One(o \in {"timeout", "dropped"}) \in Nat
  BY <1>3
<1> DEFINE g == One(o = "json") c == One(o \in {"timeout", "dropped"}) d == One(~alive)
<1>6. One(~alive') = d
  OBVIOUS
<1> HIDE DEF g, c, d
<1> QED
  BY <1>1, <1>2, <1>4, <1>5, <1>6, SetsAreFinite DEF g, c, d

LEMMA Sums ==
  ASSUME NEW a \in Nat, NEW b \in Nat, a + 1 <= b, NEW x \in 0 .. 1
  PROVE  a + x <= b + x /\ a + 1 <= b + 0
OBVIOUS

LEMMA SpoilStep ==
  ASSUME SpoilInv, [Next]_vars
  PROVE  SpoilInv'
<1> DEFINE Count == Cardinality(Garbled) + Owed <= Cardinality(CutReads) + One(~alive)
           OK == Paired /\ (carry => BeginsWithTail) /\ Count
<1>0. LifeInv /\ LifeInv'
  BY LifeStep DEF SpoilInv
<1>0a. /\ One(Stray) \in 0 .. 1 /\ One(CutLine) \in 0 .. 1 /\ One(~alive) \in 0 .. 1
       /\ One(Stray') \in 0 .. 1 /\ One(CutLine') \in 0 .. 1 /\ One(~alive') \in 0 .. 1
  BY DEF One
<1>0b. Paired /\ (carry => BeginsWithTail) /\ carry \in BOOLEAN /\ alive \in BOOLEAN
  BY <1>0 DEF SpoilInv, LifeInv
<1> SUFFICES OK'
  BY <1>0 DEF SpoilInv
<1>1. ASSUME UNCHANGED <<stdout, rest>>
      PROVE  Paired' /\ BeginsWithTail' = BeginsWithTail
  BY <1>1, <1>0b DEF Paired, BeginsWithTail
<1>2. ASSUME UNCHANGED <<outcome, carry, stdout, rest, alive>>
      PROVE  OK'
  <2>1. (Stray' <=> Stray) /\ (CutLine' <=> CutLine)
    BY <1>2 DEF Stray, CutLine, BeginsWithTail
  <2>2. Owed' = Owed /\ Owed \in Nat /\ One(~alive) \in Nat
    BY <2>1, <1>0a DEF Owed, One
  <2>3. Count'
    BY <2>2, <1>2, CountIdle
  <2> QED
    BY <2>3, <1>1, <1>2, <1>0b
<1>3. CASE BeginCall \/ WriteBody \/ WriteNewline
  BY <1>2, <1>3 DEF BeginCall, WriteBody, WriteNewline, serverVars
<1>4. ASSUME NEW o \in Outcome, at # "lock", End(o, {}), UNCHANGED <<stdout, serverVars>>,
             at = "reading" => o \in {"timeout", "dropped"}, o # "json"
      PROVE  OK'
  <2>1. carry' = FALSE /\ alive' = alive /\ rest' = rest
    BY <1>4 DEF End, serverVars
  <2>2. One(o = "json") = 0
    BY <1>4 DEF One
  <2>3. Owed' + 0 <= Owed + One(o \in {"timeout", "dropped"})
    <3>1. CASE ~carry
      <4>1. (Stray' <=> Stray) /\ (CutLine' <=> CutLine)
        BY <2>1, <1>4, <3>1 DEF Stray, CutLine, BeginsWithTail
      <4>2. Owed' = Owed /\ Owed \in Nat
        BY <4>1, <1>0a DEF Owed, One
      <4>3. One(o \in {"timeout", "dropped"}) \in 0 .. 1
        BY DEF One
      <4> QED
        BY <4>2, <4>3
    <3>2. CASE carry
      <4>1. One(o \in {"timeout", "dropped"}) = 1
        BY <3>2, <1>0, <1>4 DEF LifeInv, One
      <4>2. One(Stray) = 0
        BY <3>2 DEF Stray, One
      <4>3. One(CutLine') <= One(CutLine)
        BY <2>1, <1>4 DEF One, CutLine
      <4>4. One(Stray') \in 0 .. 1 /\ One(CutLine) \in 0 .. 1 /\ One(CutLine') \in 0 .. 1
        BY <1>0a
      <4> QED
        BY <4>1, <4>2, <4>3, <4>4 DEF Owed
    <3> QED
      BY <3>1, <3>2
  <2>4. Count'
    BY <1>4, <2>1, <2>2, <2>3, CountEnd
  <2> QED
    BY <2>1, <2>4, <1>1, <1>4
<1>5. CASE WriteFails \/ Timeout
  BY <1>5, <1>4 DEF WriteFails, Timeout, Outcome
<1>6. CASE ReadHead
  <2>1. /\ stdout # <<>> /\ Head(stdout).part = "head" /\ stdout' = Tail(stdout)
        /\ carry' = TRUE /\ rest' = rest /\ alive' = alive /\ outcome' = outcome
    BY <1>6 DEF ReadHead, callVars, serverVars
  <2>2. Paired' /\ BeginsWithTail'
    BY <2>1, <1>0, <1>0b, TakePiece
  <2>3. Owed' <= Owed /\ Owed \in Nat /\ Owed' \in Nat
    <3>1. One(Stray') = 0
      BY <2>1 DEF One, Stray
    <3>2. One(CutLine') <= One(CutLine)
      BY <2>1 DEF One, CutLine
    <3> QED
      BY <3>1, <3>2, <1>0a DEF Owed
  <2>4. Count'
    BY <2>1, <2>3, <1>0a, CountIdle
  <2> QED
    BY <2>2, <2>4
<1>7. ASSUME at = "reading", stdout # <<>>, stdout' = Tail(stdout),
             Head(stdout).part # "head", UNCHANGED serverVars, carry' = FALSE
      PROVE  /\ Paired' /\ One(Stray') = 0
             /\ One(CutLine') <= One(CutLine)
  <2>1. Paired' /\ ~BeginsWithTail' /\ rest' = rest /\ alive' = alive
    BY <1>7, <1>0, <1>0b, TakePiece DEF serverVars
  <2>2. One(Stray') = 0
    BY <2>1 DEF One, Stray
  <2>3. One(CutLine') <= One(CutLine)
    BY <2>1, <1>7 DEF One, CutLine
  <2> QED
    BY <2>1, <2>2, <2>3
<1>8. CASE ReadLine
  <2> DEFINE msg == Head(stdout).msg
  <2>1. /\ at = "reading" /\ stdout # <<>> /\ stdout' = Tail(stdout)
        /\ Head(stdout).part # "head" /\ UNCHANGED serverVars
        /\ \/ End(msg.kind, msg.about) /\ msg.kind \in {"reply", "orphan"}
           \/ carry' = FALSE /\ UNCHANGED callVars
    BY <1>8, ReadLineFacts
  <2>2. carry' = FALSE /\ alive' = alive
    BY <2>1 DEF End, serverVars
  <2> HIDE DEF msg
  <2>3. Paired' /\ One(Stray') = 0 /\ One(CutLine') <= One(CutLine)
    BY <2>1, <2>2, <1>7
  <2>3a. Owed' <= Owed /\ Owed \in Nat /\ Owed' \in Nat
    BY <2>3, <1>0a DEF Owed
  <2>4. CASE UNCHANGED callVars
    <3>1. Count'
      BY <2>2, <2>3a, <2>4, <1>0a, CountIdle DEF callVars
    <3> QED
      BY <3>1, <2>2, <2>3
  <2>5. CASE End(msg.kind, msg.about) /\ msg.kind \in {"reply", "orphan"}
    <3>1. /\ msg.kind \in Outcome /\ One(msg.kind = "json") = 0
          /\ One(msg.kind \in {"timeout", "dropped"}) = 0
      BY <2>5 DEF Outcome, Spoiled, One
    <3>2. Count'
      BY <3>1, <2>1, <2>2, <2>3a, <2>5, CountEnd
    <3> QED
      BY <3>2, <2>2, <2>3
  <2> QED
    BY <2>1, <2>4, <2>5
<1>9. CASE ReadFragment
  <2>1. /\ at = "reading" /\ stdout # <<>> /\ stdout' = Tail(stdout)
        /\ Head(stdout).part = "tail" /\ ~carry /\ UNCHANGED serverVars
        /\ End("json", Head(stdout).msg.about) \/ UNCHANGED <<callVars, carry>>
    BY <1>9 DEF ReadFragment
  <2>2. carry' = FALSE /\ alive' = alive
    BY <2>1, <1>0b DEF End, serverVars
  <2>3. Paired' /\ One(Stray) = 1 /\ One(Stray') = 0 /\ One(CutLine') <= One(CutLine)
    BY <2>1, <2>2, <1>7 DEF Stray, BeginsWithTail, One
  <2>4. Owed' + 1 <= Owed /\ Owed \in Nat /\ Owed' \in Nat
    BY <2>3, <1>0a DEF Owed
  <2>5. CASE UNCHANGED callVars
    <3>0. One(~alive') = One(~alive) /\ outcome' = outcome
      BY <2>2, <2>5 DEF callVars
    <3>1. Owed' + One(~alive) <= Owed + One(~alive)
      BY <2>4, <1>0a, Sums
    <3>1a. Count'
      BY <3>0, <3>1, CountIdle
    <3> QED
      BY <3>1a, <2>2, <2>3
  <2>6. CASE End("json", Head(stdout).msg.about)
    <3>1. /\ "json" \in Outcome /\ One("json" = "json") = 1
          /\ One("json" \in {"timeout", "dropped"}) = 0
      BY DEF Outcome, Spoiled, One
    <3>1a. Owed' + One("json" = "json") <= Owed + One("json" \in {"timeout", "dropped"})
      <4>1. Owed' + 1 <= Owed + 0
        BY <2>4, <1>0a, Sums
      <4> QED
        BY <3>1, <4>1
    <3>2. Count'
      BY <3>1, <3>1a, <2>1, <2>2, <2>6, CountEnd
    <3> QED
      BY <3>2, <2>2, <2>3
  <2> QED
    BY <2>1, <2>5, <2>6
<1>10. CASE ReadEof
  <2>1. /\ at = "reading" /\ stdout = <<>> /\ ~alive /\ UNCHANGED <<stdout, serverVars>>
        /\ End(IF carry THEN "json" ELSE "closed", {})
    BY <1>10 DEF ReadEof
  <2>2. carry' = FALSE /\ alive' = alive /\ rest' = rest
    BY <2>1 DEF End, serverVars
  <2>3. One(Stray') = 0 /\ One(CutLine') = 0
    BY <2>1, <2>2 DEF Stray, CutLine, One
  <2>4. CASE carry
    <3>1. One(CutLine) = 1
      BY <2>1, <2>4, <1>0b DEF CutLine, BeginsWithTail, One
    <3>2. Owed' = 0 /\ Owed >= 1 /\ Owed \in Nat
      BY <2>3, <3>1, <1>0a DEF Owed
    <3>3. /\ "json" \in Outcome /\ One("json" = "json") = 1
          /\ One("json" \in {"timeout", "dropped"}) = 0 /\ End("json", {})
      BY <2>1, <2>4 DEF Outcome, Spoiled, One
    <3>4. Count'
      BY <3>2, <3>3, <2>1, <2>2, CountEnd
    <3> QED
      BY <3>4, <2>1, <2>2, <1>1
  <2>5. CASE ~carry
    <3>1. Owed' = 0 /\ Owed \in Nat
      BY <2>3, <1>0a DEF Owed
    <3>2. /\ "closed" \in Outcome /\ One("closed" = "json") = 0
          /\ One("closed" \in {"timeout", "dropped"}) = 0 /\ End("closed", {})
      BY <2>1, <2>5 DEF Outcome, Spoiled, One
    <3>3. Count'
      BY <3>1, <3>2, <2>1, <2>2, CountEnd
    <3> QED
      BY <3>3, <2>1, <2>2, <1>1
  <2> QED
    BY <2>4, <2>5
<1>11. CASE TakeInput
  BY <1>2, <1>11 DEF TakeInput, callVars
<1>12. ASSUME UNCHANGED <<outcome, carry, alive>>, alive,
              Paired', BeginsWithTail' <=> BeginsWithTail
       PROVE  OK'
  <2>1. One(CutLine') = 0 /\ One(CutLine) = 0
    BY <1>12 DEF CutLine, One
  <2>2. One(Stray') = One(Stray)
    BY <1>12 DEF Stray, One
  <2>3. Count'
    BY <2>1, <2>2, <1>12, <1>0a, CountIdle DEF Owed
  <2> QED
    BY <2>3, <1>12, <1>0b
<1>13. ASSUME NEW msg \in Message, Emit(msg), UNCHANGED <<outcome, carry, alive>>
       PROVE  OK'
  <2>1. PICK p \in {"whole", "head"} :
          /\ stdout' = Append(stdout, [part |-> p, msg |-> msg])
          /\ rest' = IF p = "head" THEN {msg} ELSE {}
    BY <1>13, EmitFacts
  <2>2. [part |-> p, msg |-> msg] \in Piece /\ alive /\ rest = {}
    BY <1>13, EmitFacts DEF Piece
  <2>3. Paired' /\ (BeginsWithTail' <=> BeginsWithTail)
    BY <2>1, <2>2, <1>0, <1>0b, GivePiece
  <2> QED
    BY <2>2, <2>3, <1>12, <1>13
<1>14. CASE (\E ids \in todo : Respond(ids)) \/ Log
  <2>1. PipesOK
    BY <1>0 DEF LifeInv, PipesOK
  <2>2. UNCHANGED <<outcome, carry, alive>>
    BY <1>14 DEF Respond, Log, callVars
  <2> QED
    BY <1>13, <1>14, <2>1, <2>2, RespondMessages, LogMessage
<1>15. CASE EmitRest
  <2>1. PICK msg \in rest : stdout' = Append(stdout, [part |-> "tail", msg |-> msg])
    BY <1>15 DEF EmitRest
  <2>2. rest' = {} /\ alive /\ UNCHANGED <<outcome, carry, alive>>
    BY <1>15 DEF EmitRest, callVars
  <2>3. [part |-> "tail", msg |-> msg] \in Piece
    BY <1>0 DEF LifeInv, Piece
  <2>4. Paired' /\ (BeginsWithTail' <=> BeginsWithTail)
    BY <2>1, <2>2, <2>3, <1>0, <1>0b, GivePiece
  <2> QED
    BY <2>2, <2>4, <1>12
<1>16. CASE Die
  <2>1. alive /\ ~alive' /\ UNCHANGED <<outcome, carry, stdout, rest>>
    BY <1>16 DEF Die, callVars
  <2>2. Paired' /\ BeginsWithTail' = BeginsWithTail
    BY <2>1, <1>1
  <2>3. One(Stray') <= One(Stray) /\ One(CutLine) = 0 /\ One(~alive) = 0 /\ One(~alive') = 1
    BY <2>1, <2>2 DEF Stray, CutLine, One
  <2>4. Count'
    BY <2>1, <2>3, <1>0a, CountIdle DEF Owed
  <2> QED
    BY <2>1, <2>2, <2>4, <1>0b
<1>17. CASE UNCHANGED <<at, wanted, nextId, outcome, got, carry, stdin, stdout, serverVars>>
  BY <1>2, <1>17 DEF serverVars
<1>18. CASE \E o \in {"unsent", "torn", "dropped"} :
              /\ at # "lock" /\ End(o, {}) /\ (at = "reading" <=> o = "dropped")
              /\ UNCHANGED <<stdin, stdout, serverVars>>
  BY <1>4, <1>18 DEF Outcome
<1> QED
  BY <1>0, <1>3, <1>5, <1>6, <1>8, <1>9, <1>10, <1>11, <1>14, <1>15, <1>16, <1>17, <1>18, Steps

LEMMA SpoilInit ==
  ASSUME Init
  PROVE  SpoilInv
<1>1. LifeInv /\ stdout = <<>> /\ rest = {} /\ alive = TRUE /\ carry = FALSE
  BY LifeInit DEF Init
<1>2. Paired /\ One(Stray) = 0 /\ One(CutLine) = 0 /\ One(~alive) = 0
  BY <1>1, EmptySeq DEF Paired, Stray, CutLine, BeginsWithTail, One
<1>3. CutReads = {} /\ Garbled = {}
  BY DEF Init, CutReads, Garbled
<1> QED
  BY <1>1, <1>2, <1>3, FS_EmptySet DEF SpoilInv, Owed

\* A read that is cut off garbles at most one line, and the death of the server
\* one more (read_line and read_matching, transport.rs and client.rs).
THEOREM CutReadsSpoilOnce == Spec => []SpoilBound
<1>1. Init => SpoilInv
  BY SpoilInit
<1>2. SpoilInv /\ [Next]_vars => SpoilInv'
  BY SpoilStep
<1>3. SpoilInv => SpoilBound
  <2> SUFFICES ASSUME SpoilInv
               PROVE  SpoilBound
    OBVIOUS
  <2>1. Owed \in Nat /\ One(~alive) = (IF alive THEN 0 ELSE 1)
    BY DEF Owed, One
  <2>2. Cardinality(Garbled) + Owed <= Cardinality(CutReads) + One(~alive)
    BY DEF SpoilInv
  <2> HIDE DEF Owed
  <2> QED
    BY <2>1, <2>2, SetsAreFinite DEF SpoilBound
<1> QED
  BY <1>1, <1>2, <1>3, PTL DEF Spec

-----------------------------------------------------------------------------
(* As long as no read is cut off, the pipe serves the holder's call only *)

LEMMA StdoutTail ==
  ASSUME LifeInv, stdout # <<>>, stdout' = Tail(stdout)
  PROVE  /\ \A k \in DOMAIN stdout' : k + 1 \in DOMAIN stdout /\ stdout'[k] = stdout[k + 1]
         /\ \A k \in DOMAIN stdout \ {1} : k - 1 \in DOMAIN stdout' /\ stdout'[k - 1] = stdout[k]
         /\ 1 \in DOMAIN stdout /\ Head(stdout) = stdout[1]
<1> DEFINE n == Len(stdout)
<1>1. /\ n \in Nat \ {0} /\ Len(stdout') = n - 1 /\ Head(stdout) = stdout[1]
      /\ \A k \in 1 .. n - 1 : stdout'[k] = stdout[k + 1]
  BY PieceFacts
<1>2. DOMAIN stdout = 1 .. n /\ DOMAIN stdout' = 1 .. n - 1
  BY <1>1, PieceFacts, LenProperties DEF LifeInv
<1> HIDE DEF n
<1>3. \A k \in 1 .. n - 1 : k + 1 \in 1 .. n
  BY <1>1
<1>4. \A k \in (1 .. n) \ {1} : k - 1 \in 1 .. n - 1 /\ (k - 1) + 1 = k
  BY <1>1
<1> QED
  BY <1>1, <1>2, <1>3, <1>4

LEMMA StdoutAppend ==
  ASSUME LifeInv, NEW p \in Piece, stdout' = Append(stdout, p)
  PROVE  \E n : /\ n \in DOMAIN stdout' /\ stdout'[n] = p
                /\ DOMAIN stdout' = DOMAIN stdout \cup {n} /\ n \notin DOMAIN stdout
                /\ \A k \in DOMAIN stdout : stdout'[k] = stdout[k]
<1> DEFINE n == Len(stdout)
<1>1. /\ n \in Nat /\ Len(stdout') = n + 1 /\ stdout'[n + 1] = p
      /\ \A k \in 1 .. n : stdout'[k] = stdout[k]
      /\ DOMAIN stdout = 1 .. n /\ DOMAIN stdout' = 1 .. n + 1
  BY AppendProperties, LenProperties DEF LifeInv
<1> HIDE DEF n
<1>2. /\ n + 1 \in 1 .. n + 1 /\ n + 1 \notin 1 .. n
      /\ 1 .. n + 1 = (1 .. n) \cup {n + 1}
  BY <1>1
<1> QED
  BY <1>1, <1>2

LEMMA StdinAppend ==
  ASSUME LifeInv, NEW b \in Id \cup {Newline}, stdin' = Append(stdin, b)
  PROVE  /\ stdin' # <<>> /\ stdin'[Len(stdin')] = b /\ Len(stdin') \in DOMAIN stdin'
         /\ \A k \in 1 .. Len(stdin') - 1 : k \in DOMAIN stdin /\ stdin'[k] = stdin[k]
         /\ \A k \in DOMAIN stdin : k \in DOMAIN stdin' /\ stdin'[k] = stdin[k]
         /\ \A k \in DOMAIN stdin' : k = Len(stdin') \/ k \in DOMAIN stdin
<1> DEFINE n == Len(stdin)
<1>1. /\ n \in Nat /\ Len(stdin') = n + 1 /\ stdin'[n + 1] = b
      /\ \A k \in 1 .. n : stdin'[k] = stdin[k]
      /\ DOMAIN stdin = 1 .. n /\ DOMAIN stdin' = 1 .. n + 1 /\ stdin' # <<>>
  BY AppendProperties, LenProperties DEF LifeInv
<1> HIDE DEF n
<1>2. /\ n + 1 \in 1 .. n + 1 /\ (n + 1) - 1 = n
      /\ \A k \in 1 .. n : k \in 1 .. n + 1
      /\ \A k \in 1 .. n + 1 : k = n + 1 \/ k \in 1 .. n
  BY <1>1
<1> QED
  BY <1>1, <1>2

LEMMA StdinTail ==
  ASSUME LifeInv, stdin # <<>>, stdin' = Tail(stdin)
  PROVE  /\ \A k \in DOMAIN stdin' : k + 1 \in DOMAIN stdin /\ stdin'[k] = stdin[k + 1]
         /\ \A k \in DOMAIN stdin \ {1} : k - 1 \in DOMAIN stdin' /\ stdin'[k - 1] = stdin[k]
         /\ 1 \in DOMAIN stdin /\ Head(stdin) = stdin[1]
         /\ Len(stdin) \in Nat \ {0} /\ DOMAIN stdin = 1 .. Len(stdin)
         /\ DOMAIN stdin' = 1 .. Len(stdin')
         /\ Len(stdin') = Len(stdin) - 1
         /\ Len(stdin) # 1 => stdin' # <<>>
<1> DEFINE n == Len(stdin)  S == Id \cup {Newline}
<1>0. stdin \in Seq(S)
  BY DEF LifeInv
<1>1. /\ n \in Nat \ {0} /\ Len(stdin') = n - 1 /\ Head(stdin) = stdin[1]
      /\ \A k \in 1 .. Len(stdin') : stdin'[k] = stdin[k + 1]
      /\ stdin' \in Seq(S)
  BY <1>0, HeadTailProperties, EmptySeq
<1>2. DOMAIN stdin = 1 .. n /\ DOMAIN stdin' = 1 .. Len(stdin')
  BY <1>0, <1>1, LenProperties
<1>3. n # 1 => stdin' # <<>>
  <2>1. Len(<<>>) = 0
    OBVIOUS
  <2>2. stdin' = <<>> => Len(stdin') = 0
    BY <2>1
  <2> QED
    BY <1>1, <2>2
<1> HIDE DEF n, S
<1>4. \A k \in 1 .. n - 1 : k + 1 \in 1 .. n
  BY <1>1
<1>5. \A k \in (1 .. n) \ {1} : k - 1 \in 1 .. n - 1 /\ (k - 1) + 1 = k
  BY <1>1
<1>6. /\ \A k \in DOMAIN stdin' : k + 1 \in DOMAIN stdin /\ stdin'[k] = stdin[k + 1]
      /\ \A k \in DOMAIN stdin \ {1} : k - 1 \in DOMAIN stdin' /\ stdin'[k - 1] = stdin[k]
      /\ 1 \in DOMAIN stdin
  BY <1>1, <1>2, <1>4, <1>5
<1> QED
  BY <1>1, <1>2, <1>3, <1>6 DEF n

\* With the server alive and no read cut off, no call met a line that does not
\* parse, and none will.
LEMMA NothingStray ==
  ASSUME SpoilInv, alive, CutReads = {}
  PROVE  ~Stray /\ Garbled = {}
<1>1. /\ Cardinality(Garbled) + Owed <= Cardinality(CutReads) + One(~alive)
      /\ One(~alive) = 0 /\ Cardinality(CutReads) = 0
  BY FS_EmptySet DEF SpoilInv, One
<1>2. One(Stray) \in 0 .. 1 /\ One(CutLine) \in 0 .. 1 /\ Cardinality(Garbled) \in Nat
  BY SetsAreFinite DEF One
<1>3. One(Stray) = 0 /\ Cardinality(Garbled) = 0
  BY <1>1, <1>2 DEF Owed
<1> QED
  BY <1>3, SetsAreFinite, FS_EmptySet DEF One

Filled == Idle \/ InFlight \/ Received \/ AnswerOwed \/ AnswerSent

\* Taking a piece changes no more than that the answer may be gone.
LEMMA TakeKeepsFilled ==
  ASSUME LifeInv, stdout # <<>>, stdout' = Tail(stdout), Filled,
         UNCHANGED <<wanted, stdin, line, todo, rest>>
  PROVE  Filled'
<1>1. NoAnswer => NoAnswer'
  BY StdoutTail DEF NoAnswer
<1>2. (NoNewline => NoNewline') /\ (Asked => Asked')
  BY DEF NoNewline, Asked
<1>3. CASE Idle \/ InFlight \/ Received
  BY <1>1, <1>2, <1>3 DEF Filled, Idle, InFlight, Received
<1>4. CASE AnswerOwed
  BY <1>2, <1>4, StdoutTail DEF Filled, AnswerOwed
<1>5. CASE AnswerSent
  <2>1. PICK n \in DOMAIN stdout :
          /\ wanted \in stdout[n].msg.about
          /\ \A k \in DOMAIN stdout \ {n} :
               stdout[k].part # "head" => stdout[k].msg.kind = "note"
    BY <1>5 DEF AnswerSent
  <2>2. NoNewline' /\ todo' = {} /\ \A msg \in rest' : msg.kind = "note"
    BY <1>2, <1>5 DEF AnswerSent
  <2>3. DOMAIN stdout \subseteq Int
    BY LenProperties DEF LifeInv
  <2>4. CASE n = 1
    <3>1. \A k \in DOMAIN stdout' : k + 1 \in DOMAIN stdout \ {n}
      <4>1. DOMAIN stdout' \subseteq Nat \ {0}
        BY PieceFacts, LenProperties
      <4> QED
        BY <2>4, <4>1, StdoutTail
    <3>2. NoAnswer'
      BY <2>1, <2>2, <3>1, StdoutTail DEF NoAnswer
    <3> QED
      BY <2>2, <3>2 DEF Filled, Idle
  <2>5. CASE n # 1
    <3>1. n - 1 \in DOMAIN stdout' /\ wanted' \in stdout'[n - 1].msg.about
      BY <2>1, <2>5, StdoutTail
    <3>2. \A k \in DOMAIN stdout' \ {n - 1} : k + 1 \in DOMAIN stdout \ {n}
      <4>1. DOMAIN stdout' \subseteq Int
        BY PieceFacts, LenProperties
      <4> QED
        BY <2>3, <4>1, StdoutTail
    <3>3. \A k \in DOMAIN stdout' \ {n - 1} :
            stdout'[k].part # "head" => stdout'[k].msg.kind = "note"
      BY <2>1, <3>2, StdoutTail
    <3> QED
      BY <2>2, <3>1, <3>3 DEF Filled, AnswerSent
  <2> QED
    BY <2>4, <2>5
<1> QED
  BY <1>3, <1>4, <1>5 DEF Filled

\* An answer that is taken is the only one, and is about the holder's request.
LEMMA TakeAnswer ==
  ASSUME LifeInv, stdout # <<>>, stdout' = Tail(stdout), Filled,
         Head(stdout).part # "head", Head(stdout).msg.kind # "note",
         UNCHANGED <<stdin, line, todo, rest>>
  PROVE  Idle' /\ wanted \in Head(stdout).msg.about
<1>1. 1 \in DOMAIN stdout /\ Head(stdout) = stdout[1]
  BY StdoutTail
<1>2. AnswerSent
  BY <1>1 DEF Filled, Idle, InFlight, Received, AnswerOwed, NoAnswer
<1>3. /\ wanted \in stdout[1].msg.about
      /\ \A k \in DOMAIN stdout \ {1} :
           stdout[k].part # "head" => stdout[k].msg.kind = "note"
  BY <1>1, <1>2 DEF AnswerSent
<1>4. \A k \in DOMAIN stdout' : k + 1 \in DOMAIN stdout \ {1}
  <2>1. DOMAIN stdout' \subseteq Nat \ {0}
    BY PieceFacts, LenProperties
  <2> QED
    BY <2>1, StdoutTail
<1>5. NoAnswer'
  BY <1>2, <1>3, <1>4, StdoutTail DEF NoAnswer, AnswerSent
<1> QED
  BY <1>1, <1>2, <1>3, <1>5 DEF Idle, AnswerSent, NoNewline

\* A message of the server is a log line, or answers the one line it has.
LEMMA EmitNote ==
  ASSUME LifeInv, NEW msg \in Message, msg.kind = "note", Emit(msg),
         UNCHANGED <<wanted, stdin, line, todo>>
  PROVE  (Idle => Idle') /\ (Asked => Asked') /\ (Filled => Filled')
<1>1. PICK p \in {"whole", "head"} :
         /\ stdout' = Append(stdout, [part |-> p, msg |-> msg])
         /\ rest' = IF p = "head" THEN {msg} ELSE {}
  BY EmitFacts
<1>2. [part |-> p, msg |-> msg] \in Piece /\ rest = {}
  BY EmitFacts DEF Piece
<1>3. PICK n : /\ n \in DOMAIN stdout' /\ stdout'[n] = [part |-> p, msg |-> msg]
               /\ DOMAIN stdout' = DOMAIN stdout \cup {n} /\ n \notin DOMAIN stdout
               /\ \A k \in DOMAIN stdout : stdout'[k] = stdout[k]
  BY <1>1, <1>2, StdoutAppend
<1>4. stdout'[n].msg.kind = "note" /\ \A m \in rest' : m.kind = "note"
  BY <1>1, <1>3
<1>5. (NoAnswer => NoAnswer') /\ (NoNewline => NoNewline') /\ (Asked => Asked')
  BY <1>3, <1>4 DEF NoAnswer, NoNewline, Asked
<1>6. AnswerSent => AnswerSent'
  BY <1>3, <1>4, <1>5 DEF AnswerSent
<1>7. Idle => Idle'
  BY <1>5 DEF Idle
<1> QED
  BY <1>2, <1>5, <1>6, <1>7 DEF Filled, InFlight, Received, AnswerOwed

LEMMA EmitAnswer ==
  ASSUME LifeInv, NEW ids \in todo, NEW msg \in Message, msg.about = ids, Emit(msg), Filled,
         todo' = todo \ {ids}, UNCHANGED <<wanted, stdin, line>>
  PROVE  Filled'
<1>1. PICK p \in {"whole", "head"} :
         /\ stdout' = Append(stdout, [part |-> p, msg |-> msg])
         /\ rest' = IF p = "head" THEN {msg} ELSE {}
  BY EmitFacts
<1>2. [part |-> p, msg |-> msg] \in Piece
  BY DEF Piece
<1>3. PICK n : /\ n \in DOMAIN stdout' /\ stdout'[n] = [part |-> p, msg |-> msg]
               /\ DOMAIN stdout' = DOMAIN stdout \cup {n} /\ n \notin DOMAIN stdout
               /\ \A k \in DOMAIN stdout : stdout'[k] = stdout[k]
  BY <1>1, <1>2, StdoutAppend
<1>4. Received
  BY DEF Filled, Idle, InFlight, AnswerOwed, AnswerSent
<1>5. todo' = {} /\ wanted' \in msg.about /\ NoNewline' /\ NoAnswer
  BY <1>4 DEF Received, NoNewline
<1>6. CASE p = "whole"
  <2>1. \A m \in rest' : m.kind = "note"
    BY <1>1, <1>6
  <2>2. /\ wanted' \in stdout'[n].msg.about
        /\ \A k \in DOMAIN stdout' \ {n} :
             stdout'[k].part # "head" => stdout'[k].msg.kind = "note"
    BY <1>3, <1>5 DEF NoAnswer
  <2> QED
    BY <1>3, <1>5, <2>1, <2>2 DEF Filled, AnswerSent
<1>7. CASE p = "head"
  <2>1. \A k \in DOMAIN stdout' : stdout'[k].part # "head" => stdout'[k].msg.kind = "note"
    BY <1>3, <1>5, <1>7 DEF NoAnswer
  <2>2. rest' = {msg} /\ msg \in rest'
    BY <1>1, <1>7
  <2> QED
    BY <1>5, <2>1, <2>2 DEF Filled, AnswerOwed
<1> QED
  BY <1>6, <1>7

LEMMA EmitRestFilled ==
  ASSUME LifeInv, EmitRest
  PROVE  (Idle => Idle') /\ (Asked => Asked') /\ (Filled => Filled')
<1>1. PICK msg \in rest : stdout' = Append(stdout, [part |-> "tail", msg |-> msg])
  BY DEF EmitRest
<1>2. rest' = {} /\ UNCHANGED <<wanted, stdin, line, todo>>
  BY DEF EmitRest, callVars
<1>3. [part |-> "tail", msg |-> msg] \in Piece
  BY DEF LifeInv, Piece
<1>4. PICK n : /\ n \in DOMAIN stdout' /\ stdout'[n] = [part |-> "tail", msg |-> msg]
               /\ DOMAIN stdout' = DOMAIN stdout \cup {n} /\ n \notin DOMAIN stdout
               /\ \A k \in DOMAIN stdout : stdout'[k] = stdout[k]
  BY <1>1, <1>3, StdoutAppend
<1>5. stdout'[n].msg = msg
  BY <1>4
<1>6. (NoNewline => NoNewline') /\ (Asked => Asked')
  BY <1>2 DEF NoNewline, Asked
<1>7. NoAnswer => NoAnswer'
  BY <1>2, <1>4, <1>5 DEF NoAnswer
<1>8. AnswerSent => AnswerSent'
  BY <1>2, <1>4, <1>5, <1>6 DEF AnswerSent
<1>9. AnswerOwed => AnswerSent'
  <2> SUFFICES ASSUME AnswerOwed
               PROVE  AnswerSent'
    OBVIOUS
  <2>1. wanted' \in stdout'[n].msg.about
    BY <1>2, <1>5 DEF AnswerOwed
  <2>2. \A k \in DOMAIN stdout' \ {n} :
          stdout'[k].part # "head" => stdout'[k].msg.kind = "note"
    BY <1>4 DEF AnswerOwed
  <2> QED
    BY <1>2, <1>4, <1>6, <2>1, <2>2 DEF AnswerSent, AnswerOwed
<1> QED
  BY <1>2, <1>6, <1>7, <1>8, <1>9 DEF Filled, Idle, InFlight, Received

LEMMA TakeInputIdle ==
  ASSUME LifeInv, TakeInput, Idle
  PROVE  Idle'
<1>1. stdin # <<>> /\ stdin' = Tail(stdin) /\ UNCHANGED <<stdout, rest>>
  BY DEF TakeInput
<1>2. Head(stdin) # Newline /\ NoNewline'
  BY <1>1, StdinTail DEF Idle, NoNewline
<1> QED
  BY <1>1, <1>2 DEF TakeInput, Idle, NoAnswer

LEMMA TakeInputFilled ==
  ASSUME LifeInv, TakeInput, wanted \in Id
  PROVE  (Idle => Idle') /\ (Idle /\ Asked => Asked') /\ (Filled => Filled')
<1>1. /\ stdin # <<>> /\ stdin' = Tail(stdin) /\ UNCHANGED <<wanted, stdout, rest>>
      /\ Head(stdin) = Newline => todo' = todo \cup {line} /\ line' = {}
      /\ Head(stdin) # Newline => line' = line \cup {Head(stdin)} /\ todo' = todo
  BY DEF TakeInput, callVars
<1>2. NoAnswer => NoAnswer'
  BY <1>1 DEF NoAnswer
<1>3. wanted # Newline
  BY DEF Id, Newline
<1>4. ASSUME Head(stdin) # Newline, Asked
      PROVE  Asked'
  <2>1. CASE wanted \in line
    BY <2>1, <1>1, <1>4 DEF Asked
  <2>2. ASSUME NEW k \in DOMAIN stdin, stdin[k] = wanted
        PROVE  Asked'
    <3>1. CASE k = 1
      BY <3>1, <2>2, <1>1, <1>4, StdinTail DEF Asked
    <3>2. CASE k # 1
      <4>1. k - 1 \in DOMAIN stdin' /\ stdin'[k - 1] = wanted'
        BY <3>2, <2>2, <1>1, StdinTail
      <4> QED
        BY <4>1 DEF Asked
    <3> QED
      BY <3>1, <3>2
  <2> QED
    BY <2>1, <2>2, <1>4 DEF Asked
<1>5. ASSUME NoNewline
      PROVE  Head(stdin) # Newline /\ NoNewline'
  BY <1>1, <1>5, StdinTail DEF NoNewline
<1>6. Idle => Idle'
  BY TakeInputIdle
<1>7. Received => Received'
  BY <1>1, <1>2, <1>5 DEF Received
<1>8. AnswerOwed => AnswerOwed'
  BY <1>1, <1>5 DEF AnswerOwed
<1>9. AnswerSent => AnswerSent'
  BY <1>1, <1>5 DEF AnswerSent
<1>10. ASSUME InFlight
       PROVE  Filled'
  <2>1. /\ stdin[Len(stdin)] = Newline /\ Asked /\ todo = {} /\ NoAnswer'
        /\ \A k \in 1 .. Len(stdin) - 1 : stdin[k] # Newline
    BY <1>10, <1>2 DEF InFlight
  <2>2. /\ Len(stdin) \in Nat \ {0} /\ DOMAIN stdin = 1 .. Len(stdin)
        /\ Len(stdin') = Len(stdin) - 1 /\ DOMAIN stdin' = 1 .. Len(stdin')
        /\ Head(stdin) = stdin[1]
        /\ \A k \in DOMAIN stdin' : stdin'[k] = stdin[k + 1]
    BY <1>1, StdinTail
  <2>3. CASE Len(stdin) = 1
    <3>1. Head(stdin) = Newline
      BY <2>1, <2>2, <2>3
    <3>2. wanted \in line
      BY <2>1, <2>2, <2>3, <1>3 DEF Asked
    <3>3. todo' = {line} /\ line \in todo' /\ wanted' \in line
      BY <2>1, <3>1, <3>2, <1>1
    <3>4. NoNewline'
      <4>1. DOMAIN stdin' = {}
        BY <2>2, <2>3
      <4> QED
        BY <4>1 DEF NoNewline
    <3> QED
      BY <2>1, <3>3, <3>4 DEF Filled, Received
  <2>4. CASE Len(stdin) # 1
    <3>1. 1 \in 1 .. Len(stdin) - 1
      BY <2>2, <2>4
    <3>2. Head(stdin) # Newline
      BY <2>1, <2>2, <3>1
    <3>3. Asked' /\ todo' = {}
      BY <2>1, <3>2, <1>1, <1>4
    <3>4. /\ Len(stdin') \in DOMAIN stdin' /\ Len(stdin') + 1 = Len(stdin)
          /\ \A k \in 1 .. Len(stdin') - 1 : k \in DOMAIN stdin' /\ k + 1 \in 1 .. Len(stdin) - 1
      BY <2>2, <2>4
    <3>5. stdin'[Len(stdin')] = Newline
      BY <2>1, <2>2, <3>4
    <3>6. \A k \in 1 .. Len(stdin') - 1 : stdin'[k] # Newline
      BY <2>1, <2>2, <3>4
    <3>7. stdin' # <<>>
      BY <1>1, <2>4, StdinTail
    <3> QED
      BY <2>1, <3>3, <3>5, <3>6, <3>7 DEF Filled, InFlight
  <2> QED
    BY <2>3, <2>4
<1>11. Idle /\ Asked => Asked'
  BY <1>4, <1>5 DEF Idle
<1> QED
  BY <1>6, <1>7, <1>8, <1>9, <1>10, <1>11 DEF Filled

\* What holds of the pipes between two calls is what the next call begins with.
LEMMA QuietStep ==
  ASSUME SpoilInv, alive, CutReads = {}, Quiet, [Next]_vars, alive', CutReads' = {}
  PROVE  Quiet'
<1>0. LifeInv /\ PipesOK /\ at \in Await /\ (at # "lock" => wanted \in Id)
  BY DEF SpoilInv, LifeInv, PipesOK, CallInv
<1>0a. /\ at = "newline" => Idle /\ Asked
       /\ at = "reading" => Filled
       /\ at \notin {"newline", "reading"} => Idle
  BY DEF Quiet, Filled
<1>0b. ASSUME at' = "newline" => Idle' /\ Asked',
              at' = "reading" => Filled',
              at' \notin {"newline", "reading"} => Idle'
       PROVE  Quiet'
  BY <1>0b DEF Quiet, Filled
<1>1. ASSUME UNCHANGED <<stdin, stdout, line, todo, rest>>
      PROVE  /\ Idle => Idle'
             /\ wanted' = wanted => (Asked => Asked') /\ (Filled => Filled')
  <2>1. (NoAnswer => NoAnswer') /\ (NoNewline => NoNewline')
    BY <1>1 DEF NoAnswer, NoNewline
  <2>2. wanted' = wanted => (Asked => Asked')
    BY <1>1 DEF Asked
  <2>3. wanted' = wanted => (AnswerOwed => AnswerOwed') /\ (AnswerSent => AnswerSent')
    BY <1>1, <2>1 DEF AnswerOwed, AnswerSent
  <2> QED
    BY <1>1, <2>1, <2>2, <2>3 DEF Idle, Filled, InFlight, Received
<1>2. CASE BeginCall
  BY <1>2, <1>0a, <1>0b, <1>1 DEF BeginCall, serverVars
<1>3. CASE WriteBody
  <2>1. /\ at = "body" /\ at' = "newline" /\ wanted' = wanted /\ stdin' = Append(stdin, wanted)
        /\ UNCHANGED <<stdout, line, todo, rest>> /\ wanted \in Id
    BY <1>3, <1>0 DEF WriteBody, serverVars
  <2>2. Idle /\ wanted # Newline
    BY <2>1, <1>0a DEF Id, Newline
  <2>3. NoNewline' /\ Asked'
    BY <2>1, <2>2, <1>0, StdinAppend DEF Idle, NoNewline, Asked
  <2>4. Idle'
    BY <2>1, <2>2, <2>3 DEF Idle, NoAnswer
  <2> QED
    BY <2>1, <2>3, <2>4, <1>0b
<1>4. CASE WriteNewline
  <2>1. /\ at = "newline" /\ at' = "reading" /\ wanted' = wanted
        /\ stdin' = Append(stdin, Newline) /\ UNCHANGED <<stdout, line, todo, rest>>
    BY <1>4 DEF WriteNewline, serverVars
  <2>2. Idle /\ Asked
    BY <2>1, <1>0a
  <2>3. /\ stdin' # <<>> /\ stdin'[Len(stdin')] = Newline
        /\ \A k \in 1 .. Len(stdin') - 1 : stdin'[k] # Newline
    BY <2>1, <2>2, <1>0, StdinAppend DEF Idle, NoNewline
  <2>4. Asked'
    BY <2>1, <2>2, <1>0, StdinAppend DEF Asked
  <2>5. InFlight'
    BY <2>1, <2>2, <2>3, <2>4 DEF InFlight, Idle, NoAnswer
  <2> QED
    BY <2>1, <2>5, <1>0b DEF Filled
<1>5. CASE WriteFails \/ ReadEof \/ Die
  BY <1>5 DEF WriteFails, ReadEof, Die
<1>6. ASSUME at = "reading", NEW o \in {"timeout", "dropped"}, End(o, {})
      PROVE  FALSE
  <2>1. o \in Outcome
    BY DEF Outcome
  <2> QED
    BY <2>1, <1>0, <1>6, EndFacts
<1>7. CASE Timeout
  BY <1>6, <1>7 DEF Timeout
<1>8. CASE ReadHead
  BY <1>0, <1>0a, <1>0b, <1>8, TakeKeepsFilled DEF ReadHead, callVars, serverVars
<1>9. CASE ReadLine
  <2>1. /\ at = "reading" /\ stdout # <<>> /\ stdout' = Tail(stdout)
        /\ Head(stdout).part # "head" /\ UNCHANGED <<stdin, line, todo, rest>>
        /\ \/ /\ End(Head(stdout).msg.kind, Head(stdout).msg.about)
              /\ Head(stdout).msg.kind # "note"
           \/ UNCHANGED callVars
    BY <1>9, ReadLineFacts DEF serverVars
  <2>2. CASE UNCHANGED callVars
    BY <2>1, <2>2, <1>0, <1>0a, <1>0b, TakeKeepsFilled DEF callVars
  <2>3. CASE /\ End(Head(stdout).msg.kind, Head(stdout).msg.about)
             /\ Head(stdout).msg.kind # "note"
    <3>1. Idle'
      BY <2>1, <2>3, <1>0, <1>0a, TakeAnswer
    <3>2. at' = "lock"
      BY <2>3 DEF End
    <3> QED
      BY <3>1, <3>2, <1>0b
  <2> QED
    BY <2>1, <2>2, <2>3
<1>10. CASE ReadFragment
  BY <1>10, NothingStray DEF ReadFragment, Stray, BeginsWithTail
<1>11. CASE TakeInput
  <2>1. at' = at
    BY <1>11 DEF TakeInput, callVars
  <2>2. CASE at \in {"newline", "reading"}
    BY <2>1, <2>2, <1>0, <1>0a, <1>0b, <1>11, TakeInputFilled
  <2>3. CASE at \notin {"newline", "reading"}
    <3>1. Idle'
      BY <2>3, <1>0, <1>0a, <1>11, TakeInputIdle
    <3> QED
      BY <2>1, <2>3, <3>1, <1>0b
  <2> QED
    BY <2>2, <2>3
<1>12. ASSUME NEW ids \in todo, Respond(ids)
       PROVE  Quiet'
  <2>1. at = "reading" /\ at' = at
    BY <1>12, <1>0a DEF Idle, Respond, callVars
  <2>2. PICK msg \in Message : Emit(msg) /\ msg.about = ids
    BY <1>0, <1>12, RespondMessages
  <2>3. todo' = todo \ {ids} /\ UNCHANGED <<wanted, stdin, line>>
    BY <1>12 DEF Respond, callVars
  <2> QED
    BY <2>1, <2>2, <2>3, <1>0, <1>0a, <1>0b, EmitAnswer
<1>13. CASE Log
  <2>1. PICK msg \in Message : Emit(msg) /\ msg.kind = "note"
    BY <1>13, LogMessage
  <2>2. UNCHANGED <<at, wanted, stdin, line, todo>>
    BY <1>13 DEF Log, callVars
  <2> QED
    BY <2>1, <2>2, <1>0, <1>0a, <1>0b, EmitNote
<1>14. CASE EmitRest
  BY <1>0, <1>0a, <1>0b, <1>14, EmitRestFilled DEF EmitRest, callVars
<1>15. CASE UNCHANGED <<at, wanted, nextId, outcome, got, carry, stdin, stdout, serverVars>>
  BY <1>0a, <1>0b, <1>1, <1>15 DEF serverVars
<1>16. ASSUME NEW o \in {"unsent", "torn", "dropped"}, at # "lock", End(o, {}),
              at = "reading" <=> o = "dropped", UNCHANGED <<stdin, stdout, serverVars>>
       PROVE  Quiet'
  <2>1. at # "reading"
    BY <1>6, <1>16
  <2>2. Idle' /\ at' = "lock"
    BY <2>1, <1>0a, <1>1, <1>16 DEF serverVars, End
  <2> QED
    BY <2>2, <1>0b
<1> QED
  BY <1>0, <1>2, <1>3, <1>4, <1>5, <1>7, <1>8, <1>9, <1>10, <1>11, <1>12, <1>13, <1>14,
     <1>15, <1>16, Steps

LEMMA CutReadsStay ==
  ASSUME LifeInv, at # "lock", NEW o \in Outcome, NEW about, End(o, about)
  PROVE  CutReads \subseteq CutReads'
BY EndFacts

\* A call that ends keeps the property if its harm has a cause.
LEMMA HarmEnds ==
  ASSUME LifeInv, HarmHasACause, at # "lock", NEW o \in Outcome, NEW about, End(o, about),
         alive' => alive,
         (alive /\ o \in Spoiled /\ (o = "orphan" => wanted \notin about)) => CutReads # {}
  PROVE  HarmHasACause'
<1>1. /\ outcome'[wanted] = o /\ got'[wanted] = about
      /\ \A i \in Id \ {wanted} : outcome'[i] = outcome[i] /\ got'[i] = got[i]
      /\ \A i \in CutReads : i \in Id /\ i < wanted
      /\ CutReads \subseteq CutReads'
  BY EndFacts, CutReadsStay
<1>2. SUFFICES ASSUME NEW i \in Id, alive', outcome'[i] \in Spoiled,
                      outcome'[i] = "orphan" => i \notin got'[i]
               PROVE  \E j \in CutReads' : j < i
  BY DEF HarmHasACause
<1>3. CASE i = wanted
  BY <1>1, <1>2, <1>3
<1>4. CASE i # wanted
  <2>1. \E j \in CutReads : j < i
    BY <1>1, <1>2, <1>4 DEF HarmHasACause
  <2> QED
    BY <2>1, <1>1
<1> QED
  BY <1>3, <1>4

\* No step takes a cause away, or revives the server.
LEMMA HarmKept ==
  ASSUME HarmInv, [Next]_vars
  PROVE  HarmHasACause' /\ CutReads \subseteq CutReads' /\ (alive' => alive)
<1>0. SpoilInv /\ LifeInv /\ HarmHasACause /\ (alive /\ CutReads = {} => Quiet)
  BY DEF HarmInv, SpoilInv
<1>1. ASSUME UNCHANGED <<outcome, got>>, alive' => alive
      PROVE  HarmHasACause' /\ CutReads' = CutReads
  BY <1>0, <1>1 DEF HarmHasACause, CutReads
<1>2. ASSUME NEW o \in Outcome \ Spoiled, NEW about, at # "lock", End(o, about), alive' => alive
      PROVE  HarmHasACause' /\ CutReads \subseteq CutReads'
  BY <1>0, <1>2, HarmEnds, CutReadsStay
<1>3. {"io", "timeout", "closed", "reply", "unsent", "torn", "dropped"} \subseteq Outcome \ Spoiled
  BY DEF Outcome, Spoiled
<1>4. {"json", "orphan"} \subseteq Outcome
  BY DEF Outcome, Spoiled
<1>5. CASE BeginCall \/ WriteBody \/ WriteNewline \/ ReadHead
  BY <1>1, <1>5 DEF BeginCall, WriteBody, WriteNewline, ReadHead, callVars, serverVars
<1>6. CASE WriteFails \/ Timeout
  <2>1. \E o \in Outcome \ Spoiled : at # "lock" /\ End(o, {})
    BY <1>3, <1>6 DEF WriteFails, Timeout
  <2>2. alive' = alive
    BY <1>6 DEF WriteFails, Timeout, serverVars
  <2> QED
    BY <2>1, <2>2, <1>2
<1>7. CASE ReadLine
  <2> DEFINE msg == Head(stdout).msg
  <2>1. /\ at = "reading" /\ stdout # <<>> /\ stdout' = Tail(stdout)
        /\ Head(stdout).part # "head" /\ UNCHANGED <<stdin, serverVars>>
        /\ \/ End(msg.kind, msg.about) /\ msg.kind \in {"reply", "orphan"}
           \/ UNCHANGED callVars
    BY <1>7, ReadLineFacts
  <2>2. alive' = alive /\ UNCHANGED <<stdin, line, todo, rest>>
    BY <2>1 DEF serverVars
  <2>3. CASE UNCHANGED callVars
    BY <2>2, <2>3, <1>1 DEF callVars
  <2>4. CASE End(msg.kind, msg.about) /\ msg.kind = "reply"
    BY <2>1, <2>2, <2>4, <1>2, <1>3
  <2>5. CASE End(msg.kind, msg.about) /\ msg.kind = "orphan"
    <3>1. alive /\ wanted \notin msg.about => CutReads # {}
      <4> SUFFICES ASSUME alive, CutReads = {}
                   PROVE  wanted \in msg.about
        OBVIOUS
      <4>1. Filled
        BY <2>1, <1>0 DEF Quiet, Filled
      <4> QED
        BY <2>1, <2>2, <2>5, <4>1, <1>0, TakeAnswer
    <3>2. End("orphan", msg.about) /\ "orphan" \in Outcome /\ at # "lock"
      BY <2>1, <2>5, <1>4
    <3>3. HarmHasACause' /\ CutReads \subseteq CutReads'
      BY <3>1, <3>2, <2>2, <1>0, HarmEnds, CutReadsStay
    <3> QED
      BY <3>3, <2>2
  <2> QED
    BY <2>1, <2>3, <2>4, <2>5
<1>8. CASE ReadFragment
  <2>1. /\ at = "reading" /\ Stray /\ alive' = alive
        /\ End("json", Head(stdout).msg.about) \/ UNCHANGED callVars
    BY <1>8 DEF ReadFragment, Stray, BeginsWithTail, serverVars
  <2>2. CASE UNCHANGED callVars
    BY <2>1, <2>2, <1>1 DEF callVars
  <2>3. CASE End("json", Head(stdout).msg.about)
    <3>1. alive => CutReads # {}
      BY <2>1, <1>0, NothingStray
    <3>2. HarmHasACause' /\ CutReads \subseteq CutReads'
      BY <3>1, <2>1, <2>3, <1>0, <1>4, HarmEnds, CutReadsStay
    <3> QED
      BY <3>2, <2>1
  <2> QED
    BY <2>1, <2>2, <2>3
<1>9. CASE ReadEof
  <2>1. at = "reading" /\ ~alive /\ alive' = alive /\ End(IF carry THEN "json" ELSE "closed", {})
    BY <1>9 DEF ReadEof, serverVars
  <2>2. \E o \in Outcome : End(o, {})
    BY <2>1, <1>3, <1>4
  <2>3. HarmHasACause' /\ CutReads \subseteq CutReads'
    BY <2>1, <2>2, <1>0, HarmEnds, CutReadsStay
  <2> QED
    BY <2>1, <2>3
<1>10. CASE TakeInput \/ (\E ids \in todo : Respond(ids)) \/ Log \/ EmitRest \/ Die
  BY <1>1, <1>10 DEF TakeInput, Respond, Log, EmitRest, Emit, Die, callVars
<1>11. CASE UNCHANGED <<at, wanted, nextId, outcome, got, carry, stdin, stdout, serverVars>>
  BY <1>1, <1>11 DEF serverVars
<1>12. CASE \E o \in {"unsent", "torn", "dropped"} :
              /\ at # "lock" /\ End(o, {}) /\ (at = "reading" <=> o = "dropped")
              /\ UNCHANGED <<stdin, stdout, serverVars>>
  BY <1>2, <1>3, <1>12 DEF serverVars
<1> QED
  BY <1>0, <1>5, <1>6, <1>7, <1>8, <1>9, <1>10, <1>11, <1>12, Steps

LEMMA HarmStep ==
  ASSUME HarmInv, [Next]_vars
  PROVE  HarmInv'
<1>1. SpoilInv /\ (alive /\ CutReads = {} => Quiet)
  BY DEF HarmInv
<1>2. HarmHasACause' /\ CutReads \subseteq CutReads' /\ (alive' => alive)
  BY HarmKept
<1>3. alive' /\ CutReads' = {} => Quiet'
  BY <1>1, <1>2, QuietStep
<1> QED
  BY <1>1, <1>2, <1>3, SpoilStep DEF HarmInv

\* A call of a living server is harmed by lines that are not its own only after
\* an earlier call timed out or was dropped while it read (call_with_timeout,
\* client.rs; read_line, transport.rs).
THEOREM OnlyCutReadsHarm == Spec => []HarmHasACause
<1>1. Init => HarmInv
  <2> SUFFICES ASSUME Init
               PROVE  HarmInv
    OBVIOUS
  <2>1. SpoilInv
    BY SpoilInit
  <2>2. Idle /\ at = "lock"
    BY DEF Init, Idle, NoNewline, NoAnswer
  <2>3. HarmHasACause
    BY DEF Init, HarmHasACause, Spoiled
  <2> QED
    BY <2>1, <2>2, <2>3 DEF HarmInv, Quiet
<1>2. HarmInv /\ [Next]_vars => HarmInv'
  BY HarmStep
<1>3. HarmInv => HarmHasACause
  BY DEF HarmInv
<1> QED
  BY <1>1, <1>2, <1>3, PTL DEF Spec

=============================================================================
