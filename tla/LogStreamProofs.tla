---------------------------- MODULE LogStreamProofs ----------------------------
(***************************************************************************)
(* Safety of the log streams for every number of clients, lines and        *)
(* connections.  IdsInOrder is about what a client has; a step of the      *)
(* generator adds to what is on the wire, by its own position in the file: *)
(* IInv is about both, and about the file that removal may start anew.     *)
(* EndInv adds what event: end says of the lines.                          *)
(***************************************************************************)
EXTENDS LogStream, SequenceTheorems, TLAPS

\* The generator has subscribed, or is about to, and has not said event: end.
Following == {"subscribe", "clear", "read", "status", "final", "wait"}

\* How far the runner is bounds what it has written.
WrittenInv ==
    written <= (IF wpc \in {"work", "notify", "lastLine"} THEN MaxLines ELSE MaxLines + 1)

\* The file holds lines in the order of their writing.
LogInv ==
    /\ \A i \in 1 .. Len(log) : 1 <= log[i] /\ log[i] <= written
    /\ \A i, j \in 1 .. Len(log) : i < j => log[i] < log[j]

\* Events in the order of the file, each at its position, event: end the last,
\* and what the file has beyond them is younger.
InOrder(q) ==
    /\ \A k \in 1 .. Len(q) : q[k] = End => k = Len(q)
    /\ \A k \in 1 .. Len(q) : q[k] # End => q[k].id = k
    /\ \A k \in 1 .. Len(q) : q[k].line <= written
    /\ \A j, k \in 1 .. Len(q) : j < k /\ q[k] # End => q[j].line < q[k].line
    /\ \A k \in 1 .. Len(q), i \in 1 .. Len(log) : k < i => q[k].line < log[i]

NoEnd(q) == \A k \in 1 .. Len(q) : q[k] # End

\* What a client has and what is on its way.
Sent(s) == got[s] \o wire[s]

ClientInv(s) ==
    /\ InOrder(Sent(s))
    /\ ~ connected[s] => wire[s] = << >>

\* The position of a generator whose client is there is what it has sent.
PositionInv(s) ==
    connected[s] /\ spc[s] \in Following => lastId[s] = Len(Sent(s)) /\ NoEnd(Sent(s))

SubscriberInv == \A s \in subs : spc[s] \notin {"closed", "subscribe"}

IInv ==
    /\ TypeOK
    /\ WrittenInv
    /\ LogInv
    /\ \A s \in Streams : ClientInv(s) /\ PositionInv(s)
    /\ SubscriberInv

-----------------------------------------------------------------------------
(* Sequences of events *)

LEMMA EndIsEvent == End \in Event /\ End.id = 0 /\ End.line = 0
BY DEF End, Event

LEMMA SentSequence ==
    ASSUME TypeOK, NEW s \in Streams
    PROVE  /\ got[s] \in Seq(Event) /\ wire[s] \in Seq(Event)
           /\ Sent(s) \in Seq(Event)
           /\ Len(got[s]) \in Nat /\ Len(got[s]) <= Len(Sent(s))
           /\ \A k \in 1 .. Len(got[s]) : k \in 1 .. Len(Sent(s)) /\ Sent(s)[k] = got[s][k]
<1>1. got[s] \in Seq(Event) /\ wire[s] \in Seq(Event)
  BY DEF TypeOK
<1>2. /\ Sent(s) \in Seq(Event)
      /\ Len(Sent(s)) = Len(got[s]) + Len(wire[s])
      /\ \A k \in 1 .. Len(got[s]) + Len(wire[s]) :
            Sent(s)[k] = IF k <= Len(got[s]) THEN got[s][k] ELSE wire[s][k - Len(got[s])]
  BY <1>1, ConcatProperties DEF Sent
<1>3. Len(got[s]) \in Nat /\ Len(wire[s]) \in Nat
  BY <1>1
<1>4. \A m, n \in Nat : \A k \in 1 .. m : k \in 1 .. m + n /\ k <= m
  OBVIOUS
<1>5. \A k \in 1 .. Len(got[s]) : k \in 1 .. Len(Sent(s)) /\ Sent(s)[k] = got[s][k]
  <2>1. \A k \in 1 .. Len(got[s]) : k \in 1 .. Len(got[s]) + Len(wire[s]) /\ k <= Len(got[s])
    BY <1>3, <1>4
  <2>2. QED BY <1>2, <2>1
<1>6. \A m, n \in Nat : m <= m + n
  OBVIOUS
<1>7. QED BY <1>1, <1>2, <1>3, <1>5, <1>6

\* What a read returns: the lines of the file after a position, with their ids.
LEMMA ChunkIs ==
    ASSUME TypeOK, NEW s \in Streams
    PROVE  /\ Chunk(s) \in Seq(Event)
           /\ Chunk(s) # << >> => Len(Chunk(s)) = Len(log) - lastId[s]
           /\ \A k \in 1 .. Len(Chunk(s)) :
                 /\ lastId[s] + k \in 1 .. Len(log)
                 /\ Chunk(s)[k].id = lastId[s] + k
                 /\ Chunk(s)[k].line = log[lastId[s] + k]
<1>1. log \in Seq(Nat) /\ Len(log) \in Nat /\ lastId[s] \in Nat
  BY DEF TypeOK
<1>2. \A i \in 1 .. Len(log) : log[i] \in Nat
  BY <1>1
<1>3. CASE Len(log) > lastId[s]
  <2>1. PICK n \in Nat : n = Len(log) - lastId[s]
    BY <1>1, <1>3
  <2>2. Chunk(s) = [k \in 1 .. n |-> [id |-> lastId[s] + k, line |-> log[lastId[s] + k]]]
    BY <2>1 DEF Chunk
  <2>3. \A k \in 1 .. n : lastId[s] + k \in 1 .. Len(log)
    BY <1>1, <2>1
  <2>4. \A k \in 1 .. n : [id |-> lastId[s] + k, line |-> log[lastId[s] + k]] \in Event
    BY <1>1, <1>2, <2>3 DEF Event
  <2>5. Chunk(s) \in Seq(Event) /\ Len(Chunk(s)) = n
    BY <2>2, <2>4, IsASeq
  <2>6. QED BY <2>1, <2>2, <2>3, <2>5
<1>4. CASE ~ Len(log) > lastId[s]
  <2>1. 1 .. Len(log) - lastId[s] = 1 .. 0
    BY <1>1, <1>4
  <2>2. Chunk(s) = << >>
    BY <2>1 DEF Chunk
  <2>3. QED BY <2>2
<1>5. QED BY <1>3, <1>4

\* A read at the right position adds to what is in order.
LEMMA ChunkInOrder ==
    ASSUME TypeOK, LogInv, NEW s \in Streams, NEW q \in Seq(Event),
           InOrder(q), NoEnd(q), lastId[s] = Len(q)
    PROVE  /\ q \o Chunk(s) \in Seq(Event)
           /\ Len(q \o Chunk(s)) = lastId[s] + Len(Chunk(s))
           /\ InOrder(q \o Chunk(s))
           /\ NoEnd(q \o Chunk(s))
<1> DEFINE c == Chunk(s)
           r == q \o c
<1>1. c \in Seq(Event) /\ Len(q) \in Nat /\ Len(c) \in Nat
  BY ChunkIs
<1>2. /\ r \in Seq(Event) /\ Len(r) = Len(q) + Len(c)
      /\ \A k \in 1 .. Len(q) : r[k] = q[k]
      /\ \A k \in Len(q) + 1 .. Len(r) : r[k] = c[k - Len(q)]
  BY <1>1, ConcatProperties
<1>3. \A k \in Len(q) + 1 .. Len(r) : k - Len(q) \in 1 .. Len(c)
  BY <1>1, <1>2
<1>4. \A k \in Len(q) + 1 .. Len(r) :
        k \in 1 .. Len(log) /\ r[k].id = k /\ r[k].line = log[k]
  <2>1. SUFFICES ASSUME NEW k \in Len(q) + 1 .. Len(r)
                 PROVE  k \in 1 .. Len(log) /\ r[k].id = k /\ r[k].line = log[k]
    OBVIOUS
  <2>. DEFINE i == k - Len(q)
  <2>2. i \in 1 .. Len(c) /\ k = lastId[s] + i
    <3>1. Len(r) \in Int
      BY <1>1, <1>2
    <3>2. k \in Int
      BY <1>1, <2>1, <3>1
    <3>3. QED BY <1>1, <1>3, <2>1, <3>2
  <2>3. r[k] = c[i]
    BY <1>2, <2>1, <2>2
  <2>4. k \in 1 .. Len(log) /\ c[i].id = k /\ c[i].line = log[k]
    BY <2>2, ChunkIs
  <2>5. QED BY <2>3, <2>4
<1>5. \A k \in 1 .. Len(r) : k \in 1 .. Len(q) \/ k \in Len(q) + 1 .. Len(r)
  BY <1>1, <1>2
<1>6. NoEnd(r)
  <2>1. \A k \in Len(q) + 1 .. Len(r) : r[k].id = k /\ k # 0
    BY <1>1, <1>4
  <2>2. QED BY <1>2, <1>5, <2>1, EndIsEvent DEF NoEnd
<1>7. InOrder(r)
  <2>1. \A k \in 1 .. Len(r) : r[k] # End => r[k].id = k
    BY <1>2, <1>4, <1>5 DEF InOrder, NoEnd
  <2>2. \A k \in 1 .. Len(r) : r[k].line <= written
    BY <1>2, <1>4, <1>5 DEF InOrder, LogInv
  <2>3. \A j, k \in 1 .. Len(r) : j < k => r[j].line < r[k].line
    <3>1. SUFFICES ASSUME NEW j \in 1 .. Len(r), NEW k \in 1 .. Len(r), j < k
                   PROVE  r[j].line < r[k].line
      OBVIOUS
    <3>2. CASE k \in 1 .. Len(q)
      <4>1. j \in 1 .. Len(q)
        BY <1>1, <3>1, <3>2
      <4>2. QED BY <1>2, <3>1, <3>2, <4>1 DEF InOrder, NoEnd
    <3>3. CASE j \in 1 .. Len(q) /\ k \in Len(q) + 1 .. Len(r)
      BY <1>2, <1>4, <3>1, <3>3 DEF InOrder
    <3>4. CASE j \in Len(q) + 1 .. Len(r) /\ k \in Len(q) + 1 .. Len(r)
      BY <1>4, <3>1, <3>4 DEF LogInv
    <3>5. QED BY <1>1, <1>2, <1>5, <3>1, <3>2, <3>3, <3>4
  <2>4. \A k \in 1 .. Len(r), i \in 1 .. Len(log) : k < i => r[k].line < log[i]
    <3>1. SUFFICES ASSUME NEW k \in 1 .. Len(r), NEW i \in 1 .. Len(log), k < i
                   PROVE  r[k].line < log[i]
      OBVIOUS
    <3>2. CASE k \in 1 .. Len(q)
      BY <1>2, <3>1, <3>2 DEF InOrder
    <3>3. CASE k \in Len(q) + 1 .. Len(r)
      BY <1>4, <3>1, <3>3 DEF LogInv
    <3>4. QED BY <1>5, <3>2, <3>3
  <2>5. QED BY <1>6, <2>1, <2>2, <2>3, <2>4 DEF InOrder, NoEnd
<1>8. QED BY <1>1, <1>2, <1>6, <1>7

\* Nothing comes after event: end, and it disturbs no order.
LEMMA EndInOrder ==
    ASSUME TypeOK, LogInv, NEW q \in Seq(Event), InOrder(q), NoEnd(q)
    PROVE  InOrder(q \o <<End>>) /\ q \o <<End>> \in Seq(Event)
<1> DEFINE r == q \o <<End>>
<1>1. Len(q) \in Nat /\ <<End>> \in Seq(Event) /\ Len(<<End>>) = 1
  BY EndIsEvent
<1>2. /\ r \in Seq(Event) /\ Len(r) = Len(q) + 1
      /\ \A k \in 1 .. Len(q) : r[k] = q[k]
      /\ r[Len(q) + 1] = End
  <2>1. /\ r \in Seq(Event) /\ Len(r) = Len(q) + Len(<<End>>)
        /\ \A k \in 1 .. Len(r) : r[k] = IF k <= Len(q) THEN q[k] ELSE <<End>>[k - Len(q)]
    BY <1>1, ConcatProperties
  <2>2. QED BY <1>1, <2>1
<1>3. \A k \in 1 .. Len(r) : k \in 1 .. Len(q) \/ k = Len(q) + 1
  BY <1>1, <1>2
<1>4. written \in Nat /\ Len(log) \in Nat /\ \A i \in 1 .. Len(log) : log[i] \in Nat
  BY ConstantAssumption DEF TypeOK
<1>5. \A k \in 1 .. Len(r) : r[k] = End => k = Len(r)
  BY <1>1, <1>2, <1>3 DEF NoEnd
<1>6. \A k \in 1 .. Len(r) : r[k] # End => r[k].id = k
  BY <1>2, <1>3 DEF InOrder
<1>7. \A k \in 1 .. Len(r) : r[k].line <= written
  BY <1>2, <1>3, <1>4, EndIsEvent DEF InOrder
<1>8. \A j, k \in 1 .. Len(r) : j < k /\ r[k] # End => r[j].line < r[k].line
  <2>1. SUFFICES ASSUME NEW j \in 1 .. Len(r), NEW k \in 1 .. Len(r), j < k, r[k] # End
                 PROVE  r[j].line < r[k].line
    OBVIOUS
  <2>2. k \in 1 .. Len(q)
    BY <1>2, <1>3, <2>1
  <2>3. j \in 1 .. Len(q)
    BY <1>1, <2>1, <2>2
  <2>4. QED BY <1>2, <2>1, <2>2, <2>3 DEF InOrder
<1>9. \A k \in 1 .. Len(r), i \in 1 .. Len(log) : k < i => r[k].line < log[i]
  <2>1. SUFFICES ASSUME NEW k \in 1 .. Len(r), NEW i \in 1 .. Len(log), k < i
                 PROVE  r[k].line < log[i]
    OBVIOUS
  <2>2. CASE k \in 1 .. Len(q)
    BY <1>2, <2>1, <2>2 DEF InOrder
  <2>3. CASE k = Len(q) + 1
    BY <1>2, <1>4, <2>3, EndIsEvent DEF LogInv
  <2>4. QED BY <1>3, <2>2, <2>3
<1>10. QED BY <1>2, <1>5, <1>6, <1>7, <1>8, <1>9 DEF InOrder

-----------------------------------------------------------------------------
(* Steps *)

USE DEF vars, writerVars, serverVars, clientVars, At, Goto

LEMMA InitIInv == Init => IInv
<1>1. SUFFICES ASSUME Init PROVE IInv
  OBVIOUS
<1>2. TypeOK
  <2>1. << >> \in Seq(Nat) /\ << >> \in Seq(Event)
    BY EmptySeq
  <2>2. log \in Seq(Nat) /\ wire \in [Streams -> Seq(Event)] /\ got \in [Streams -> Seq(Event)]
    BY <1>1, <2>1 DEF Init
  <2>3. written \in 0 .. MaxLines + 1 /\ connects \in [Streams -> 0 .. MaxConnects]
    BY <1>1, ConstantAssumption DEF Init
  <2>4. lastId \in [Streams -> Nat]
    BY <1>1 DEF Init
  <2>5. /\ spc \in [Streams -> {"closed", "subscribe", "clear", "read", "status", "final",
                              "wait", "close"}]
        /\ event \in [Streams -> BOOLEAN] /\ connected \in [Streams -> BOOLEAN]
    BY <1>1 DEF Init
  <2>6. QED BY <1>1, <2>2, <2>3, <2>4, <2>5 DEF Init, TypeOK
<1>3. \A s \in Streams : Sent(s) = << >>
  BY <1>1, ConcatEmptySeq, EmptySeq DEF Init, Sent
<1>4. \A s \in Streams : ClientInv(s) /\ PositionInv(s)
  <2>1. Len(<< >>) = 0 /\ 1 .. 0 = {}
    BY EmptySeq
  <2>2. \A s \in Streams : 1 .. Len(Sent(s)) = {}
    BY <1>3, <2>1
  <2>3. \A s \in Streams : InOrder(Sent(s))
    BY <2>2 DEF InOrder
  <2>4. QED BY <1>1, <2>3 DEF Init, ClientInv, PositionInv
<1>5. WrittenInv /\ LogInv /\ SubscriberInv
  BY <1>1, ConstantAssumption DEF Init, WrittenInv, LogInv, SubscriberInv
<1>6. QED BY <1>2, <1>4, <1>5 DEF IInv

\* A stream that a step leaves alone.
LEMMA StreamStands ==
    ASSUME IInv, NEW s \in Streams, UNCHANGED <<log, written>>,
           got'[s] = got[s], wire'[s] = wire[s], connected'[s] = connected[s]
    PROVE  /\ ClientInv(s)'
           /\ lastId'[s] = lastId[s] /\ (spc'[s] \in Following => spc[s] \in Following) =>
                 PositionInv(s)'
<1>1. Sent(s)' = Sent(s)
  BY DEF Sent
<1>2. ClientInv(s)'
  BY <1>1 DEF IInv, ClientInv, InOrder
<1>3. ASSUME lastId'[s] = lastId[s], spc'[s] \in Following => spc[s] \in Following
      PROVE  PositionInv(s)'
  BY <1>1, <1>3 DEF IInv, PositionInv, NoEnd
<1>4. QED BY <1>2, <1>3

\* A line more is younger than everything.
LEMMA AppendKeeps ==
    ASSUME IInv, AppendLine, UNCHANGED <<serverVars, clientVars>>
    PROVE  /\ log' \in Seq(Nat) /\ written' = written + 1
           /\ LogInv' /\ SubscriberInv'
           /\ \A s \in Streams : ClientInv(s)' /\ PositionInv(s)'
<1>1. /\ log \in Seq(Nat) /\ written \in Nat /\ Len(log) \in Nat
      /\ \A i \in 1 .. Len(log) : log[i] \in Nat
  BY ConstantAssumption DEF IInv, TypeOK
<1>2. written' = written + 1 /\ log' = Append(log, written + 1)
  BY DEF AppendLine
<1>3. /\ log' \in Seq(Nat) /\ Len(log') = Len(log) + 1
      /\ \A i \in 1 .. Len(log) : log'[i] = log[i]
      /\ log'[Len(log) + 1] = written + 1
  BY <1>1, <1>2, AppendProperties
<1>4. \A i \in 1 .. Len(log') : i \in 1 .. Len(log) \/ i = Len(log) + 1
  BY <1>1, <1>3
<1>5. LogInv'
  <2>1. \A i \in 1 .. Len(log') : 1 <= log'[i] /\ log'[i] <= written'
    BY <1>1, <1>2, <1>3, <1>4 DEF IInv, LogInv
  <2>2. \A i, j \in 1 .. Len(log') : i < j => log'[i] < log'[j]
    <3>1. SUFFICES ASSUME NEW i \in 1 .. Len(log'), NEW j \in 1 .. Len(log'), i < j
                   PROVE  log'[i] < log'[j]
      OBVIOUS
    <3>2. i \in 1 .. Len(log)
      BY <1>1, <1>3, <3>1
    <3>3. CASE j \in 1 .. Len(log)
      BY <1>3, <3>1, <3>2, <3>3 DEF IInv, LogInv
    <3>4. CASE j = Len(log) + 1
      BY <1>1, <1>3, <3>2, <3>4 DEF IInv, LogInv
    <3>5. QED BY <1>4, <3>3, <3>4
  <2>3. QED BY <2>1, <2>2 DEF LogInv
<1>6. ASSUME NEW s \in Streams PROVE ClientInv(s)' /\ PositionInv(s)'
  <2>1. Sent(s)' = Sent(s)
    BY DEF Sent
  <2>2. Sent(s) \in Seq(Event) /\ InOrder(Sent(s))
    BY SentSequence DEF IInv, ClientInv
  <2>3. \A k \in 1 .. Len(Sent(s)) : Sent(s)[k].line \in Nat
    <3>1. \A k \in 1 .. Len(Sent(s)) : Sent(s)[k] \in Event
      BY <2>2, ElementOfSeq
    <3>2. QED BY <3>1 DEF Event
  <2>4. \A k \in 1 .. Len(Sent(s)) : Sent(s)[k].line <= written + 1
    BY <1>1, <2>2, <2>3 DEF InOrder
  <2>5. \A k \in 1 .. Len(Sent(s)), i \in 1 .. Len(log') :
          k < i => Sent(s)[k].line < log'[i]
    <3>1. SUFFICES ASSUME NEW k \in 1 .. Len(Sent(s)), NEW i \in 1 .. Len(log'), k < i
                   PROVE  Sent(s)[k].line < log'[i]
      OBVIOUS
    <3>2. CASE i \in 1 .. Len(log)
      BY <1>3, <2>2, <3>1, <3>2 DEF InOrder
    <3>3. CASE i = Len(log) + 1
      <4>1. Sent(s)[k].line <= written
        BY <2>2 DEF InOrder
      <4>2. QED BY <1>1, <1>3, <2>3, <3>3, <4>1
    <3>4. QED BY <1>4, <3>2, <3>3
  <2>6. InOrder(Sent(s))'
    BY <1>2, <2>1, <2>2, <2>4, <2>5 DEF InOrder
  <2>7. QED BY <2>1, <2>6 DEF IInv, ClientInv, PositionInv, NoEnd
<1>7. QED BY <1>2, <1>3, <1>5, <1>6 DEF IInv, SubscriberInv

\* A step of the runner or a request that leaves the file and the clients alone.
LEMMA WriterKeeps ==
    ASSUME IInv, UNCHANGED <<log, written, subs, spc, lastId, clientVars>>
    PROVE  LogInv' /\ SubscriberInv' /\ \A s \in Streams : ClientInv(s)' /\ PositionInv(s)'
<1>1. ASSUME NEW s \in Streams PROVE ClientInv(s)' /\ PositionInv(s)'
  BY StreamStands
<1>2. QED BY <1>1 DEF IInv, LogInv, SubscriberInv

LEMMA RunnerKeeps == IInv /\ Runner => IInv'
<1>1. SUFFICES ASSUME IInv, Runner PROVE IInv'
  OBVIOUS
<1>2. TypeOK /\ WrittenInv /\ written \in Int /\ MaxLines \in Nat
  BY <1>1, ConstantAssumption DEF IInv, TypeOK
<1> USE DEF RunnerStep, RunnerAppends, RunnerNotifies, RunnerEnds
<1>3. CASE WriteLine \/ WriteLastLine \/ CancelJob
  <2>1. AppendLine /\ UNCHANGED <<serverVars, clientVars, ended, stored, cpc>>
    BY <1>3 DEF WriteLine, WriteLastLine, CancelJob
  <2>2. /\ log' \in Seq(Nat) /\ written' = written + 1
        /\ LogInv' /\ SubscriberInv'
        /\ \A s \in Streams : ClientInv(s)' /\ PositionInv(s)'
    BY <1>1, <2>1, AppendKeeps
  <2>3. WrittenInv' /\ written' \in 0 .. MaxLines + 1
    BY <1>2, <1>3, <2>2 DEF WriteLine, WriteLastLine, CancelJob, WrittenInv, TypeOK
  <2>4. TypeOK'
    BY <1>2, <1>3, <2>1, <2>2, <2>3 DEF TypeOK, WriteLine, WriteLastLine, CancelJob
  <2>5. QED BY <2>2, <2>3, <2>4 DEF IInv
<1>4. CASE NotifyLine \/ NotifyLastLine \/ NotifyCancel \/ NotifySave
  <2>1. UNCHANGED <<log, written, subs, spc, lastId, clientVars>>
    BY <1>4 DEF NotifyLine, NotifyLastLine, NotifyCancel, NotifySave
  <2>2. WrittenInv'
    BY <1>2, <1>4, <2>1 DEF NotifyLine, NotifyLastLine, NotifyCancel, NotifySave, WrittenInv
  <2>3. TypeOK'
    BY <1>2, <1>4 DEF NotifyLine, NotifyLastLine, NotifyCancel, NotifySave, Notify, TypeOK
  <2>4. QED BY <1>1, <2>1, <2>2, <2>3, WriterKeeps DEF IInv
<1>5. CASE EndJob \/ SetCanceled \/ Save
  <2>1. UNCHANGED <<log, written, subs, spc, lastId, clientVars>>
    BY <1>5 DEF EndJob, SetCanceled, Save
  <2>2. WrittenInv'
    BY <1>2, <1>5, <2>1 DEF EndJob, SetCanceled, Save, WrittenInv
  <2>3. TypeOK'
    BY <1>2, <1>5 DEF EndJob, SetCanceled, Save, TypeOK
  <2>4. QED BY <1>1, <2>1, <2>2, <2>3, WriterKeeps DEF IInv
<1>6. QED BY <1>1, <1>3, <1>4, <1>5 DEF Runner

LEMMA CancellerKeeps == IInv /\ (CancelRead \/ Canceller) => IInv'
<1>1. SUFFICES ASSUME IInv, CancelRead \/ Canceller PROVE IInv'
  OBVIOUS
<1> USE DEF CancelRead, Canceller, CancelWrite, CancelSave, CancelNotify, CancelStep
<1>2. UNCHANGED <<log, written, subs, spc, lastId, clientVars, wpc>>
  BY <1>1
<1>. TypeOK
  BY <1>1 DEF IInv
<1>3. TypeOK'
  <2>1. CASE CancelRead \/ CancelWrite \/ CancelSave
    BY <1>2, <2>1 DEF TypeOK
  <2>2. CASE CancelNotify
    BY <2>2 DEF TypeOK, Notify
  <2>3. QED BY <1>1, <2>1, <2>2
<1>4. WrittenInv'
  BY <1>1, <1>2 DEF IInv, WrittenInv
<1>5. QED BY <1>1, <1>2, <1>3, <1>4, WriterKeeps DEF IInv

\* Removal forgets the file and the subscribers: nothing is behind a position.
LEMMA RemoveKeeps == IInv /\ Remove => IInv'
<1>1. SUFFICES ASSUME IInv, Remove PROVE IInv'
  OBVIOUS
<1>2. TypeOK'
  BY <1>1, EmptySeq DEF IInv, TypeOK, Remove, Notify
<1>3. ASSUME NEW s \in Streams PROVE ClientInv(s)' /\ PositionInv(s)'
  <2>1. Sent(s)' = Sent(s)
    BY <1>1 DEF Sent, Remove
  <2>2. InOrder(Sent(s))'
    BY <1>1, <2>1 DEF IInv, ClientInv, InOrder, Remove
  <2>3. QED BY <1>1, <2>1, <2>2 DEF IInv, ClientInv, PositionInv, NoEnd, Remove
<1>4. LogInv' /\ SubscriberInv' /\ WrittenInv'
  BY <1>1 DEF IInv, LogInv, SubscriberInv, WrittenInv, Remove
<1>5. QED BY <1>2, <1>3, <1>4 DEF IInv

\* Steps of one stream s leave the others alone.
Elsewhere(s) ==
    \A t \in Streams \ {s} :
        /\ spc'[t] = spc[t] /\ lastId'[t] = lastId[t] /\ connected'[t] = connected[t]
        /\ wire'[t] = wire[t] /\ got'[t] = got[t]

\* What is left to show of a step of s: its types, the subscribers, its client.
LEMMA StreamKeeps ==
    ASSUME IInv, NEW s \in Streams, Elsewhere(s), UNCHANGED <<log, written, wpc>>,
           TypeOK', SubscriberInv', ClientInv(s)', PositionInv(s)'
    PROVE  IInv'
<1>1. ASSUME NEW t \in Streams PROVE ClientInv(t)' /\ PositionInv(t)'
  <2>1. CASE t = s
    BY <2>1
  <2>2. CASE t # s
    <3>1. t \in Streams \ {s}
      BY <2>2
    <3>2. QED BY <3>1, StreamStands DEF Elsewhere
  <2>3. QED BY <2>1, <2>2
<1>2. WrittenInv' /\ LogInv'
  BY DEF IInv, WrittenInv, LogInv
<1>3. QED BY <1>1, <1>2 DEF IInv

\* Steps of a generator that send nothing.
LEMMA SilentKeeps ==
    ASSUME IInv, NEW s \in Streams,
           Subscribe(s) \/ Clear(s) \/ CheckStatus(s) \/ Wake(s) \/ Close(s) \/ Cancel(s)
    PROVE  IInv'
<1> USE DEF Subscribe, Clear, CheckStatus, Wake, Close, Cancel, Move
<1>1. TypeOK
  BY DEF IInv
<1>2. UNCHANGED <<log, written, wpc, lastId, clientVars>> /\ Elsewhere(s)
  BY <1>1 DEF TypeOK, Elsewhere
<1>3. TypeOK'
  <2>1. UNCHANGED <<writerVars, cpc, lastId, clientVars>>
    OBVIOUS
  <2>2. spc' \in [Streams -> {"closed", "subscribe", "clear", "read", "status", "final",
                           "wait", "close"}]
    BY <1>1 DEF TypeOK
  <2>3. event' \in [Streams -> BOOLEAN] /\ subs' \subseteq Streams
    BY <1>1 DEF TypeOK
  <2>4. QED BY <1>1, <2>1, <2>2, <2>3 DEF TypeOK
<1>4. SubscriberInv'
  BY <1>1 DEF IInv, TypeOK, SubscriberInv
<1>5. spc'[s] \in Following => spc[s] \in Following
  BY <1>1 DEF TypeOK, Following
<1>6. ClientInv(s)' /\ PositionInv(s)'
  BY <1>2, <1>5, StreamStands
<1>7. QED BY <1>2, <1>3, <1>4, <1>6, StreamKeeps

\* A client comes back with the last id it has: it has all up to there.
LEMMA ConnectKeeps ==
    ASSUME IInv, NEW s \in Streams, Connect(s)
    PROVE  IInv'
<1> DEFINE q == got[s]
<1>1. TypeOK /\ ClientInv(s) /\ wire[s] = << >> /\ q \in Seq(Event)
  BY DEF IInv, ClientInv, Connect, TypeOK
<1>2. Sent(s) = q
  BY <1>1, ConcatEmptySeq DEF Sent
<1>3. Len(q) \in Nat /\ (q # << >> => Len(q) \in 1 .. Len(q))
  BY <1>1, EmptySeq
<1>4. LastReceived(s) = Len(q) /\ NoEnd(q)
  <2>1. CASE q = << >>
    BY <2>1, EmptySeq DEF LastReceived, NoEnd
  <2>2. CASE q # << >>
    <3>1. q[Len(q)] # End
      BY <2>2 DEF Connect, Finished
    <3>2. q[Len(q)].id = Len(q)
      BY <1>1, <1>2, <1>3, <2>2, <3>1 DEF ClientInv, InOrder
    <3>3. NoEnd(q)
      BY <1>1, <1>2, <3>1 DEF ClientInv, InOrder, NoEnd
    <3>4. QED BY <2>2, <3>2, <3>3 DEF LastReceived
  <2>3. QED BY <2>1, <2>2
<1>5. /\ lastId' = [lastId EXCEPT ![s] = Len(q)] /\ UNCHANGED <<writerVars, cpc, subs, wire, got>>
      /\ connected' = [connected EXCEPT ![s] = TRUE] /\ spc' = [spc EXCEPT ![s] = "subscribe"]
      /\ event' = [event EXCEPT ![s] = FALSE] /\ connects' = [connects EXCEPT ![s] = @ + 1]
      /\ connects[s] < MaxConnects /\ spc[s] = "closed"
  BY <1>4 DEF Connect
<1>6. TypeOK'
  <2>1. lastId' \in [Streams -> Nat]
    BY <1>1, <1>3, <1>5 DEF TypeOK
  <2>2. connects' \in [Streams -> 0 .. MaxConnects]
    BY <1>1, <1>5, ConstantAssumption DEF TypeOK
  <2>3. QED BY <1>1, <1>5, <2>1, <2>2 DEF TypeOK
<1>7. Elsewhere(s) /\ SubscriberInv'
  BY <1>1, <1>5 DEF IInv, TypeOK, Elsewhere, SubscriberInv
<1>8. Sent(s)' = q
  BY <1>2, <1>5 DEF Sent
<1>9. ClientInv(s)'
  BY <1>1, <1>2, <1>5, <1>8 DEF ClientInv, InOrder
<1>10. PositionInv(s)'
  BY <1>1, <1>4, <1>5, <1>8 DEF PositionInv, NoEnd, TypeOK
<1>11. QED BY <1>5, <1>6, <1>7, <1>9, <1>10, StreamKeeps

\* Sequences appended to what is on the wire are appended to what was sent.
LEMMA SentAdds ==
    ASSUME TypeOK, NEW s \in Streams, NEW x \in Seq(Event), NEW y \in Seq(Event)
    PROVE  got[s] \o ((wire[s] \o x) \o y) = (Sent(s) \o x) \o y
<1>1. got[s] \in Seq(Event) /\ wire[s] \in Seq(Event) /\ wire[s] \o x \in Seq(Event)
  BY SentSequence, ConcatProperties
<1>2. \A u, v, w \in Seq(Event) : u \o (v \o w) = (u \o v) \o w
  BY ConcatAssociative
<1>3. got[s] \o ((wire[s] \o x) \o y) = (got[s] \o (wire[s] \o x)) \o y
  BY <1>1, <1>2
<1>4. got[s] \o (wire[s] \o x) = (got[s] \o wire[s]) \o x
  BY <1>1, <1>2
<1>5. QED BY <1>3, <1>4 DEF Sent

\* A generator sends what the file has beyond its position, and perhaps the end.
LEMMA SendKeeps ==
    ASSUME IInv, NEW s \in Streams, Read(s) \/ ReadFinal(s)
    PROVE  IInv'
<1> DEFINE c == Chunk(s)
           q == Sent(s)
<1>1. TypeOK /\ LogInv /\ ClientInv(s) /\ PositionInv(s) /\ spc[s] \in Following
  BY DEF IInv, Read, ReadFinal, Move, Following
<1>2. PICK last \in {<< >>, <<End>>} :
        /\ SendChunk(s, last)
        /\ Read(s) => last = << >>
        /\ ReadFinal(s) => spc' = [spc EXCEPT ![s] = "close"]
  BY DEF Read, ReadFinal, Move
<1>3. /\ UNCHANGED <<writerVars, cpc, subs, event, connected, got, connects>>
      /\ \E to \in {"status", "close"} : spc' = [spc EXCEPT ![s] = to]
  BY DEF Read, ReadFinal, Move
<1>4. /\ c \in Seq(Event) /\ last \in Seq(Event) /\ Len(c) \in Nat
      /\ got[s] \in Seq(Event) /\ wire[s] \in Seq(Event) /\ q \in Seq(Event)
      /\ wire[s] \o c \in Seq(Event)
  <2>1. c \in Seq(Event) /\ Len(c) \in Nat
    BY <1>1, ChunkIs
  <2>2. got[s] \in Seq(Event) /\ wire[s] \in Seq(Event) /\ q \in Seq(Event)
    BY <1>1, SentSequence
  <2>3. last \in Seq(Event)
    <3>1. << >> \in Seq(Event) /\ <<End>> \in Seq(Event)
      BY EndIsEvent
    <3>2. QED BY <1>2, <3>1
  <2>4. QED BY <2>1, <2>2, <2>3, ConcatProperties
<1>5. /\ lastId' = [lastId EXCEPT ![s] = @ + Len(c)]
      /\ wire' = [wire EXCEPT ![s] = IF connected[s] THEN (@ \o c) \o last ELSE @]
  BY <1>2 DEF SendChunk
<1>6. TypeOK'
  <2>1. lastId' \in [Streams -> Nat]
    BY <1>1, <1>4, <1>5 DEF TypeOK
  <2>2. (wire[s] \o c) \o last \in Seq(Event)
    BY <1>4, ConcatProperties
  <2>3. wire' \in [Streams -> Seq(Event)]
    BY <1>1, <1>5, <2>2 DEF TypeOK
  <2>4. QED BY <1>1, <1>3, <2>1, <2>3 DEF TypeOK
<1>7. Elsewhere(s) /\ SubscriberInv'
  BY <1>1, <1>3, <1>5 DEF IInv, TypeOK, Elsewhere, SubscriberInv
<1>8. CASE ~ connected[s]
  <2>1. Sent(s)' = q /\ wire'[s] = wire[s]
    BY <1>1, <1>3, <1>5, <1>8 DEF Sent, TypeOK
  <2>2. ClientInv(s)'
    BY <1>1, <1>3, <2>1 DEF ClientInv, InOrder
  <2>3. PositionInv(s)'
    BY <1>3, <1>8 DEF PositionInv
  <2>4. QED BY <1>3, <1>6, <1>7, <2>2, <2>3, StreamKeeps
<1>9. CASE connected[s]
  <2>1. lastId[s] = Len(q) /\ NoEnd(q) /\ InOrder(q)
    BY <1>1, <1>9 DEF PositionInv, ClientInv
  <2>2. /\ q \o c \in Seq(Event) /\ Len(q \o c) = lastId[s] + Len(c)
        /\ InOrder(q \o c) /\ NoEnd(q \o c)
    BY <1>1, <1>4, <2>1, ChunkInOrder
  <2>3. Sent(s)' = (q \o c) \o last
    <3>1. wire'[s] = (wire[s] \o c) \o last
      BY <1>1, <1>5, <1>9 DEF TypeOK
    <3>2. Sent(s)' = got[s] \o ((wire[s] \o c) \o last)
      BY <1>3, <3>1 DEF Sent
    <3>3. QED BY <1>1, <1>4, <3>2, SentAdds
  <2>4. CASE last = << >>
    <3>1. Sent(s)' = q \o c
      BY <2>2, <2>3, <2>4, ConcatEmptySeq
    <3>2. ClientInv(s)'
      BY <1>3, <1>9, <2>2, <3>1 DEF ClientInv, InOrder
    <3>3. lastId'[s] = lastId[s] + Len(c)
      BY <1>1, <1>5 DEF TypeOK
    <3>4. PositionInv(s)'
      BY <2>2, <3>1, <3>3 DEF PositionInv, NoEnd
    <3>5. QED BY <1>3, <1>6, <1>7, <3>2, <3>4, StreamKeeps
  <2>5. CASE last = <<End>>
    <3>1. InOrder((q \o c) \o <<End>>)
      BY <1>1, <2>2, EndInOrder
    <3>2. ClientInv(s)'
      BY <1>3, <1>9, <2>3, <2>5, <3>1 DEF ClientInv, InOrder
    <3>3. spc'[s] = "close"
      <4>1. <<End>> # << >>
        OBVIOUS
      <4>2. QED BY <1>1, <1>2, <2>5, <4>1 DEF TypeOK
    <3>4. PositionInv(s)'
      BY <3>3 DEF PositionInv, Following
    <3>5. QED BY <1>3, <1>6, <1>7, <3>2, <3>4, StreamKeeps
  <2>6. QED BY <2>4, <2>5
<1>10. QED BY <1>8, <1>9

\* Receiving moves an event over: what was sent is the same.
LEMMA HandOver ==
    ASSUME NEW q \in Seq(Event), NEW r \in Seq(Event), r # << >>
    PROVE  /\ Append(q, Head(r)) \in Seq(Event) /\ Tail(r) \in Seq(Event)
           /\ Append(q, Head(r)) \o Tail(r) = q \o r
<1>1. Head(r) \in Event /\ Tail(r) \in Seq(Event) /\ <<Head(r)>> \in Seq(Event)
  BY HeadTailProperties
<1>2. Append(q, Head(r)) = q \o <<Head(r)>> /\ Append(q, Head(r)) \in Seq(Event)
  BY <1>1, AppendIsConcat, AppendProperties
<1>3. <<Head(r)>> \o Tail(r) = r
  <2>1. Len(r) \in Nat \ {0} /\ Len(Tail(r)) = Len(r) - 1 /\ Len(<<Head(r)>>) = 1
    BY HeadTailProperties, EmptySeq
  <2>2. \A i \in 1 .. Len(Tail(r)) : Tail(r)[i] = r[i + 1]
    BY HeadTailProperties
  <2>3. /\ <<Head(r)>> \o Tail(r) \in Seq(Event)
        /\ Len(<<Head(r)>> \o Tail(r)) = Len(r)
        /\ \A i \in 1 .. Len(r) : (<<Head(r)>> \o Tail(r))[i]
                                     = IF i <= 1 THEN <<Head(r)>>[i] ELSE Tail(r)[i - 1]
    BY <1>1, <2>1, ConcatProperties
  <2>4. \A i \in 1 .. Len(r) : i <= 1 => i = 1
    BY <2>1
  <2>5. \A i \in 1 .. Len(r) : ~ i <= 1 => i - 1 \in 1 .. Len(Tail(r)) /\ (i - 1) + 1 = i
    BY <2>1
  <2>6. \A i \in 1 .. Len(r) : (<<Head(r)>> \o Tail(r))[i] = r[i]
    BY <2>2, <2>3, <2>4, <2>5
  <2>7. QED BY <2>3, <2>6, SeqEqual
<1>4. (q \o <<Head(r)>>) \o Tail(r) = q \o (<<Head(r)>> \o Tail(r))
  BY <1>1, ConcatAssociative
<1>5. QED BY <1>1, <1>2, <1>3, <1>4

LEMMA ReceiveKeeps ==
    ASSUME IInv, NEW s \in Streams, Receive(s)
    PROVE  IInv'
<1>1. TypeOK /\ got[s] \in Seq(Event) /\ wire[s] \in Seq(Event) /\ wire[s] # << >>
  BY DEF IInv, TypeOK, Receive
<1>2. /\ got' = [got EXCEPT ![s] = Append(@, Head(wire[s]))]
      /\ wire' = [wire EXCEPT ![s] = Tail(@)]
      /\ UNCHANGED <<writerVars, cpc, serverVars, connected, connects>> /\ connected[s]
  BY DEF Receive
<1>3. TypeOK'
  <2>1. got' \in [Streams -> Seq(Event)] /\ wire' \in [Streams -> Seq(Event)]
    BY <1>1, <1>2, HandOver DEF TypeOK
  <2>2. QED BY <1>1, <1>2, <2>1 DEF TypeOK
<1>4. Sent(s)' = Sent(s)
  <2>1. got'[s] = Append(got[s], Head(wire[s])) /\ wire'[s] = Tail(wire[s])
    BY <1>1, <1>2 DEF TypeOK
  <2>2. QED BY <1>1, <2>1, HandOver DEF Sent
<1>5. ClientInv(s)' /\ PositionInv(s)'
  BY <1>2, <1>4 DEF IInv, ClientInv, InOrder, PositionInv, NoEnd
<1>6. Elsewhere(s) /\ SubscriberInv'
  BY <1>1, <1>2 DEF IInv, TypeOK, Elsewhere, SubscriberInv
<1>7. QED BY <1>2, <1>3, <1>5, <1>6, StreamKeeps

\* What a client has is the beginning of what was sent.
LEMMA DisconnectKeeps ==
    ASSUME IInv, NEW s \in Streams, Disconnect(s)
    PROVE  IInv'
<1> DEFINE q == got[s]
           r == Sent(s)
<1>1. TypeOK /\ InOrder(r)
  BY DEF IInv, ClientInv
<1>2. /\ q \in Seq(Event) /\ r \in Seq(Event) /\ Len(q) \in Nat /\ Len(q) <= Len(r)
      /\ \A k \in 1 .. Len(q) : k \in 1 .. Len(r) /\ r[k] = q[k]
  BY <1>1, SentSequence
<1>3. /\ connected' = [connected EXCEPT ![s] = FALSE] /\ wire' = [wire EXCEPT ![s] = << >>]
      /\ UNCHANGED <<writerVars, cpc, serverVars, got, connects>>
  BY DEF Disconnect
<1>4. TypeOK'
  <2>1. wire' \in [Streams -> Seq(Event)]
    <3>1. << >> \in Seq(Event)
      BY EmptySeq
    <3>2. QED BY <1>1, <1>3, <3>1 DEF TypeOK
  <2>2. QED BY <1>1, <1>3, <2>1 DEF TypeOK
<1>5. wire'[s] = << >> /\ ~ connected'[s]
  BY <1>1, <1>3 DEF TypeOK
<1>6. Sent(s)' = q
  BY <1>2, <1>3, <1>5, ConcatEmptySeq DEF Sent
<1>7. InOrder(q)
  <2>1. Len(r) \in Nat
    BY <1>2
  <2>2. \A k \in 1 .. Len(q) : q[k] = End => k = Len(r)
    BY <1>1, <1>2 DEF InOrder
  <2>3. \A k \in 1 .. Len(q) : q[k] = End => k = Len(q)
    BY <1>2, <2>1, <2>2
  <2>4. QED BY <1>1, <1>2, <2>3 DEF InOrder
<1>8. ClientInv(s)' /\ PositionInv(s)'
  BY <1>3, <1>5, <1>6, <1>7 DEF ClientInv, InOrder, PositionInv
<1>9. Elsewhere(s) /\ SubscriberInv'
  BY <1>1, <1>3 DEF IInv, TypeOK, Elsewhere, SubscriberInv
<1>10. QED BY <1>3, <1>4, <1>8, <1>9, StreamKeeps

LEMMA NextKeeps == IInv /\ [Next]_vars => IInv'
<1>1. SUFFICES ASSUME IInv, [Next]_vars PROVE IInv'
  OBVIOUS
<1>2. CASE Runner
  BY <1>1, <1>2, RunnerKeeps
<1>3. CASE CancelRead \/ Canceller
  BY <1>1, <1>3, CancellerKeeps
<1>4. CASE Remove
  BY <1>1, <1>4, RemoveKeeps
<1>5. ASSUME NEW s \in Streams,
             Connect(s) \/ Serve(s) \/ Cancel(s) \/ Receive(s) \/ Disconnect(s)
      PROVE  IInv'
  BY <1>1, <1>5, ConnectKeeps, SilentKeeps, SendKeeps, ReceiveKeeps, DisconnectKeeps DEF Serve
<1>6. CASE UNCHANGED vars
  <2>1. UNCHANGED <<log, written, subs, spc, lastId, clientVars>> /\ UNCHANGED <<wpc, ended, stored, cpc, event>>
    BY <1>6
  <2>2. TypeOK' /\ WrittenInv'
    BY <1>1, <2>1 DEF IInv, TypeOK, WrittenInv
  <2>3. QED BY <1>1, <2>1, <2>2, WriterKeeps DEF IInv
<1>7. QED BY <1>1, <1>2, <1>3, <1>4, <1>5, <1>6 DEF Next

-----------------------------------------------------------------------------
(* What a client has when it is told the end *)

\* The runner has ended the job, and writes one line more at most.
Over == wpc \in {"lastLine", "notifyLast", "save", "notifySave", "done"}

\* The events are the file's, line by line; event: end is the last of them.
OfFile(q) == \A k \in 1 .. Len(q) : q[k] # End => k \in 1 .. Len(log) /\ q[k].line = log[k]
Told(q)   == q # << >> /\ q[Len(q)] = End

\* A file that removal started anew gets the runner's last line at most.
Renewed == Over /\ Len(log) <= 1 /\ (wpc = "lastLine" => log = << >>)

EndInv ==
    /\ ended => Over
    /\ \A s \in Streams : spc[s] = "final" => Over
    /\ (\A s \in Streams : OfFile(Sent(s))) \/ Renewed
    /\ \A s \in Streams : Told(Sent(s)) =>
          /\ Over
          /\ Len(log) <= Len(Sent(s))
          /\ wpc = "lastLine" => Len(log) < Len(Sent(s))

\* Who was told the end has all but the last line of the file, and the lines he has
\* are the file's: job_router.py:198 misses what runner.py:977-979 writes after the
\* status, and nothing else.
EndMissesLastLineOnly ==
    \A s \in Streams : Finished(s) =>
        \A n \in 1 .. Len(log) - 1 : n < Len(got[s]) /\ got[s][n].line = log[n]

LEMMA InitEndInv == Init => EndInv
<1>1. SUFFICES ASSUME Init PROVE EndInv
  OBVIOUS
<1>2. \A s \in Streams : got[s] = << >> /\ wire[s] = << >> /\ spc[s] # "final" /\ ~ ended
  BY <1>1 DEF Init
<1>3. << >> \in Seq(Event) /\ Len(<< >>) = 0
  BY EmptySeq
<1>4. \A s \in Streams : Sent(s) = << >>
  BY <1>2, <1>3, ConcatEmptySeq DEF Sent
<1>5. QED BY <1>1, <1>2, <1>3, <1>4 DEF Init, EndInv, OfFile, Told

\* A step that leaves the file and what was sent alone.
LEMMA EndStands ==
    ASSUME EndInv, log' = log, \A s \in Streams : Sent(s)' = Sent(s),
           ended' => ended \/ Over',
           \A s \in Streams : spc'[s] = "final" => spc[s] = "final" \/ ended,
           Over => Over' /\ (wpc' = "lastLine" => wpc = "lastLine")
    PROVE  EndInv'
<1>1. ended' => Over'
  BY DEF EndInv
<1>2. \A s \in Streams : spc'[s] = "final" => Over'
  BY DEF EndInv
<1>3. (\A s \in Streams : OfFile(Sent(s))') \/ Renewed'
  BY DEF EndInv, OfFile, Renewed
<1>4. \A s \in Streams : Told(Sent(s))' => Told(Sent(s))
  BY DEF Told
<1>5. QED BY <1>1, <1>2, <1>3, <1>4 DEF EndInv

LEMMA RunnerTells == IInv /\ EndInv /\ Runner => EndInv'
<1>1. SUFFICES ASSUME IInv, EndInv, Runner PROVE EndInv'
  OBVIOUS
<1> USE DEF RunnerStep, RunnerAppends, RunnerNotifies, RunnerEnds, Over
<1>2. UNCHANGED <<spc, got, wire>> /\ \A s \in Streams : Sent(s)' = Sent(s)
  BY <1>1 DEF Runner, WriteLine, NotifyLine, EndJob, WriteLastLine, NotifyLastLine,
              CancelJob, NotifyCancel, SetCanceled, Save, NotifySave, Sent
<1>3. CASE WriteLine \/ WriteLastLine \/ CancelJob
  <2>1. /\ log' = Append(log, written') /\ ended' = ended
        /\ \/ ~ Over /\ wpc' \in {"notify", "notifyCancel"}
           \/ wpc = "lastLine" /\ wpc' = "notifyLast"
    BY <1>3 DEF WriteLine, WriteLastLine, CancelJob, AppendLine
  <2>2. /\ Len(log) \in Nat /\ Len(log') = Len(log) + 1
        /\ \A k \in 1 .. Len(log) : k \in 1 .. Len(log') /\ log'[k] = log[k]
    <3>1. log \in Seq(Nat) /\ written' \in Nat
      BY <1>1, <1>3, ConstantAssumption
         DEF IInv, TypeOK, WriteLine, WriteLastLine, CancelJob, AppendLine
    <3>2. Len(log) \in Nat /\ Len(log') = Len(log) + 1
          /\ \A k \in 1 .. Len(log) : log'[k] = log[k]
      BY <2>1, <3>1, AppendProperties
    <3>3. QED BY <3>2
  <2>3. \A s \in Streams : OfFile(Sent(s)) => OfFile(Sent(s))'
    BY <1>2, <2>2 DEF OfFile
  <2>4. \A s \in Streams : Told(Sent(s))' => Told(Sent(s))
    BY <1>2 DEF Told
  <2>5. ASSUME NEW s \in Streams, Told(Sent(s))'
        PROVE  Over' /\ Len(log') <= Len(Sent(s)') /\ wpc' # "lastLine"
    <3>1. Over /\ wpc = "lastLine" /\ Len(log) < Len(Sent(s)) /\ wpc' = "notifyLast"
      BY <1>1, <2>1, <2>4, <2>5 DEF EndInv
    <3>2. Len(Sent(s)) \in Nat /\ Sent(s)' = Sent(s)
      BY <1>1, <1>2, SentSequence DEF IInv
    <3>3. QED BY <2>2, <3>1, <3>2
  <2>6. (\A s \in Streams : OfFile(Sent(s))') \/ Renewed'
    <3>1. CASE \A s \in Streams : OfFile(Sent(s))
      BY <2>3, <3>1
    <3>2. CASE Renewed
      <4>1. wpc = "lastLine" /\ wpc' = "notifyLast" /\ log = << >>
        BY <2>1, <3>2 DEF Renewed
      <4>2. Len(log') = 1
        BY <2>2, <4>1
      <4>3. QED BY <4>1, <4>2 DEF Renewed
    <3>3. QED BY <1>1, <3>1, <3>2 DEF EndInv
  <2>7. (ended' => Over') /\ \A s \in Streams : spc'[s] = "final" => Over'
    BY <1>1, <1>2, <2>1 DEF EndInv
  <2>8. QED BY <2>5, <2>6, <2>7 DEF EndInv
<1>4. CASE ~ (WriteLine \/ WriteLastLine \/ CancelJob)
  <2>1. /\ log' = log /\ (ended' => ended \/ Over')
        /\ Over => Over' /\ (wpc' = "lastLine" => wpc = "lastLine")
    BY <1>1, <1>4 DEF Runner, NotifyLine, EndJob, NotifyLastLine, NotifyCancel, SetCanceled,
                      Save, NotifySave
  <2>2. QED BY <1>1, <1>2, <2>1, EndStands
<1>5. QED BY <1>3, <1>4

LEMMA RequestTells == EndInv /\ (CancelRead \/ Canceller) => EndInv'
<1>1. SUFFICES ASSUME EndInv, CancelRead \/ Canceller PROVE EndInv'
  OBVIOUS
<1>2. UNCHANGED <<log, wpc, spc, got, wire>> /\ (ended' => ended)
  BY <1>1 DEF CancelRead, Canceller, CancelWrite, CancelSave, CancelNotify, CancelStep
<1>3. \A s \in Streams : Sent(s)' = Sent(s)
  BY <1>2 DEF Sent
<1>4. (Over => Over') /\ (wpc' = "lastLine" => wpc = "lastLine")
  BY <1>2 DEF Over
<1>5. QED BY <1>1, <1>2, <1>3, <1>4, EndStands

LEMMA RemoveTells == IInv /\ EndInv /\ Remove => EndInv'
<1>1. SUFFICES ASSUME IInv, EndInv, Remove PROVE EndInv'
  OBVIOUS
<1>2. log' = << >> /\ UNCHANGED <<wpc, ended, spc, got, wire>> /\ Over /\ Over'
  BY <1>1 DEF Remove, EndInv, Over
<1>3. Len(log') = 0
  BY <1>2
<1>4. \A s \in Streams : Sent(s)' = Sent(s)
  BY <1>2 DEF Sent
<1>5. ASSUME NEW s \in Streams, Told(Sent(s))' PROVE 0 < Len(Sent(s)')
  <2>1. Sent(s) \in Seq(Event) /\ Sent(s) # << >>
    BY <1>1, <1>4, <1>5, SentSequence DEF IInv, Told
  <2>2. QED BY <1>4, <2>1, EmptySeq
<1>6. ASSUME NEW s \in Streams, Told(Sent(s))'
      PROVE  Len(log') <= Len(Sent(s)') /\ Len(log') < Len(Sent(s)')
  <2>1. Len(Sent(s)') \in Nat
    BY <1>1, <1>4, SentSequence DEF IInv
  <2>2. QED BY <1>3, <1>5, <1>6, <2>1
<1>7. Renewed'
  BY <1>2, <1>3 DEF Renewed
<1>8. QED BY <1>2, <1>6, <1>7 DEF EndInv

LEMMA SilentTells ==
    ASSUME IInv, EndInv, NEW s \in Streams,
           Subscribe(s) \/ Clear(s) \/ CheckStatus(s) \/ Wake(s) \/ Close(s) \/ Cancel(s)
              \/ Connect(s) \/ Receive(s)
    PROVE  EndInv'
<1>1. TypeOK
  BY DEF IInv
<1>2. UNCHANGED <<log, wpc, ended>>
  BY DEF Subscribe, Clear, CheckStatus, Wake, Close, Cancel, Connect, Receive, Move
<1>3. \A t \in Streams : spc'[t] = "final" => spc[t] = "final" \/ ended
  BY <1>1 DEF TypeOK, Subscribe, Clear, CheckStatus, Wake, Close, Cancel, Connect, Receive, Move
<1>4. \A t \in Streams : Sent(t)' = Sent(t)
  <2>1. CASE Receive(s)
    <3>1. /\ got' = [got EXCEPT ![s] = Append(@, Head(wire[s]))]
          /\ wire' = [wire EXCEPT ![s] = Tail(@)] /\ wire[s] # << >>
      BY <2>1 DEF Receive
    <3>2. got[s] \in Seq(Event) /\ wire[s] \in Seq(Event)
      BY <1>1 DEF TypeOK
    <3>3. Sent(s)' = Sent(s)
      <4>1. got'[s] = Append(got[s], Head(wire[s])) /\ wire'[s] = Tail(wire[s])
        BY <1>1, <3>1 DEF TypeOK
      <4>2. QED BY <3>1, <3>2, <4>1, HandOver DEF Sent
    <3>4. \A t \in Streams \ {s} : Sent(t)' = Sent(t)
      BY <1>1, <3>1 DEF TypeOK, Sent
    <3>5. QED BY <3>3, <3>4
  <2>2. CASE ~ Receive(s)
    <3>1. UNCHANGED <<got, wire>>
      BY <2>2 DEF Subscribe, Clear, CheckStatus, Wake, Close, Cancel, Connect, Move
    <3>2. QED BY <3>1 DEF Sent
  <2>3. QED BY <2>1, <2>2
<1>5. (Over => Over') /\ (wpc' = "lastLine" => wpc = "lastLine")
  BY <1>2 DEF Over
<1>6. QED BY <1>2, <1>3, <1>4, <1>5, EndStands

\* What a generator's read puts on the wire of a client that is there.
LEMMA SendIs ==
    ASSUME TypeOK, NEW s \in Streams, connected[s]
    PROVE  /\ Read(s) => Sent(s)' = Sent(s) \o Chunk(s)
           /\ ReadFinal(s) => Sent(s)' = (Sent(s) \o Chunk(s)) \o <<End>>
<1> DEFINE c == Chunk(s)
<1>1. c \in Seq(Event) /\ <<End>> \in Seq(Event) /\ << >> \in Seq(Event)
  BY ChunkIs, EndIsEvent
<1>2. ASSUME NEW last \in Seq(Event), SendChunk(s, last), got' = got
      PROVE  Sent(s)' = (Sent(s) \o c) \o last
  <2>1. wire'[s] = (wire[s] \o c) \o last
    BY <1>2 DEF TypeOK, SendChunk
  <2>2. Sent(s)' = got[s] \o ((wire[s] \o c) \o last)
    BY <1>2, <2>1 DEF Sent
  <2>3. QED BY <1>1, <1>2, <2>2, SentAdds
<1>3. Sent(s) \o c \in Seq(Event)
  BY <1>1, SentSequence, ConcatProperties
<1>4. Read(s) => Sent(s)' = Sent(s) \o c
  <2>1. Read(s) => Sent(s)' = (Sent(s) \o c) \o << >>
    BY <1>1, <1>2 DEF Read
  <2>2. QED BY <1>3, <2>1, ConcatEmptySeq
<1>5. ReadFinal(s) => Sent(s)' = (Sent(s) \o c) \o <<End>>
  BY <1>1, <1>2 DEF ReadFinal
<1>6. QED BY <1>4, <1>5

\* A read that returns nothing has nothing to return.
LEMMA ChunkWhole ==
    ASSUME TypeOK, NEW s \in Streams, Chunk(s) = << >>
    PROVE  Len(log) <= lastId[s]
<1>1. Len(log) \in Nat /\ lastId[s] \in Nat
  BY DEF TypeOK
<1>2. SUFFICES ASSUME Len(log) > lastId[s] PROVE FALSE
  BY <1>1
<1>3. 1 \in DOMAIN Chunk(s)
  BY <1>1, <1>2 DEF Chunk
<1>4. DOMAIN << >> = {}
  OBVIOUS
<1>5. QED BY <1>3, <1>4

\* A step of one stream, by what its client was sent then.
LEMMA OthersTell ==
    ASSUME EndInv, NEW s \in Streams, UNCHANGED <<log, wpc, ended>>,
           \A t \in Streams \ {s} : Sent(t)' = Sent(t),
           \A t \in Streams : spc'[t] = "final" => spc[t] = "final",
           OfFile(Sent(s)) => OfFile(Sent(s))',
           Told(Sent(s))' => Over /\ Len(log) \in Nat /\ Len(Sent(s)') \in Nat
                                 /\ Len(log) < Len(Sent(s)')
    PROVE  EndInv'
<1>1. Over' <=> Over
  BY DEF Over
<1>2. (ended' => Over') /\ \A t \in Streams : spc'[t] = "final" => Over'
  BY <1>1 DEF EndInv
<1>3. \A t \in Streams \ {s} : (OfFile(Sent(t)) => OfFile(Sent(t))') /\ (Told(Sent(t))' => Told(Sent(t)))
  BY DEF OfFile, Told
<1>4. (\A t \in Streams : OfFile(Sent(t))') \/ Renewed'
  BY <1>1, <1>3 DEF EndInv, Renewed
<1>5. ASSUME NEW t \in Streams, Told(Sent(t))'
      PROVE  /\ Over' /\ Len(log') <= Len(Sent(t)')
             /\ wpc' = "lastLine" => Len(log') < Len(Sent(t)')
  <2>1. CASE t = s
    BY <1>1, <1>5, <2>1
  <2>2. CASE t # s
    BY <1>1, <1>3, <1>5, <2>2 DEF EndInv
  <2>3. QED BY <2>1, <2>2
<1>6. QED BY <1>2, <1>4, <1>5 DEF EndInv

\* What a read sends are lines of the file, and all of them are sent then.
LEMMA SendTells ==
    ASSUME IInv, EndInv, NEW s \in Streams, Read(s) \/ ReadFinal(s)
    PROVE  EndInv'
<1> DEFINE c == Chunk(s)
           q == Sent(s)
<1>1. TypeOK /\ LogInv /\ ClientInv(s) /\ PositionInv(s)
  BY DEF IInv
<1>2. /\ UNCHANGED <<log, wpc, ended>>
      /\ \A t \in Streams : spc'[t] # "final" \/ spc'[t] = spc[t]
      /\ \A t \in Streams \ {s} : Sent(t)' = Sent(t)
  BY <1>1 DEF TypeOK, Sent, Read, ReadFinal, Move, SendChunk
<1>3. /\ (Over => Over') /\ (wpc' = "lastLine" => wpc = "lastLine")
      /\ \A t \in Streams : spc'[t] = "final" => spc[t] = "final"
  BY <1>2 DEF Over
<1>4. CASE ~ connected[s]
  <2>1. Sent(s)' = Sent(s)
    BY <1>1, <1>4 DEF TypeOK, Sent, Read, ReadFinal, Move, SendChunk
  <2>2. \A t \in Streams : Sent(t)' = Sent(t)
    BY <1>2, <2>1
  <2>3. QED BY <1>2, <1>3, <2>2, EndStands
<1>5. CASE connected[s]
  <2>1. lastId[s] = Len(q) /\ NoEnd(q) /\ InOrder(q) /\ q \in Seq(Event)
    BY <1>1, <1>5, SentSequence DEF PositionInv, ClientInv, Following, Read, ReadFinal, Move
  <2>2. /\ q \o c \in Seq(Event) /\ NoEnd(q \o c) /\ Len(q \o c) = Len(q) + Len(c)
        /\ c \in Seq(Event) /\ Len(c) \in Nat /\ Len(q) \in Nat /\ Len(log) \in Nat
    <3>1. c \in Seq(Event) /\ Len(c) \in Nat
      BY <1>1, ChunkIs
    <3>2. QED BY <1>1, <2>1, <3>1, ChunkInOrder DEF TypeOK
  <2>3. OfFile(q) => OfFile(q \o c)
    <3>1. \A k \in 1 .. Len(q \o c) :
              (q \o c)[k] = IF k <= Len(q) THEN q[k] ELSE c[k - Len(q)]
      BY <2>1, <2>2, ConcatProperties
    <3>2. ASSUME OfFile(q), NEW k \in 1 .. Len(q \o c)
          PROVE  k \in 1 .. Len(log) /\ (q \o c)[k].line = log[k]
      <4>1. CASE k <= Len(q)
        <5>1. k \in 1 .. Len(q) /\ (q \o c)[k] = q[k]
          BY <2>2, <3>1, <4>1
        <5>2. QED BY <2>1, <3>2, <5>1 DEF OfFile, NoEnd
      <4>2. CASE ~ k <= Len(q)
        <5>1. k - Len(q) \in 1 .. Len(c) /\ (q \o c)[k] = c[k - Len(q)] /\ Len(q) + (k - Len(q)) = k
          BY <2>2, <3>1, <4>2
        <5>2. /\ lastId[s] + (k - Len(q)) \in 1 .. Len(log)
              /\ c[k - Len(q)].line = log[lastId[s] + (k - Len(q))]
          BY <1>1, <5>1, ChunkIs
        <5>3. QED BY <2>1, <5>1, <5>2
      <4>3. QED BY <4>1, <4>2
    <3>3. QED BY <3>2 DEF OfFile
  <2>4. Len(log) <= Len(q \o c)
    <3>1. c # << >> => Len(c) = Len(log) - Len(q)
      BY <1>1, <2>1, ChunkIs
    <3>2. c = << >> => Len(log) <= Len(q)
      BY <1>1, <2>1, <2>2, ChunkWhole
    <3>3. c = << >> => Len(c) = 0
      BY EmptySeq
    <3>4. QED BY <2>2, <3>1, <3>2, <3>3
  <2>5. CASE Read(s)
    <3>1. Sent(s)' = q \o c
      BY <1>1, <1>5, <2>5, SendIs
    <3>2. ~ Told(Sent(s))'
      <4>1. ~ Told(q \o c)
        BY <2>2, EmptySeq DEF Told, NoEnd
      <4>2. QED BY <3>1, <4>1 DEF Told
    <3>3. OfFile(q) => OfFile(Sent(s))'
      BY <1>2, <2>3, <3>1 DEF OfFile
    <3>4. QED BY <1>2, <1>3, <3>2, <3>3, OthersTell
  <2>6. CASE ReadFinal(s)
    <3> DEFINE r == (q \o c) \o <<End>>
    <3>1. Sent(s)' = r
      BY <1>1, <1>5, <2>6, SendIs
    <3>2. Over
      BY <2>6 DEF EndInv, ReadFinal, Move
    <3>3. /\ Len(r) = Len(q \o c) + 1 /\ r[Len(r)] = End
          /\ \A k \in 1 .. Len(r) : r[k] # End => k \in 1 .. Len(q \o c) /\ r[k] = (q \o c)[k]
      <4>1. r = Append(q \o c, End)
        BY <2>2, EndIsEvent, AppendIsConcat
      <4>2. QED BY <2>2, <4>1, EndIsEvent, AppendProperties
    <3>4. OfFile(q) => OfFile(Sent(s))'
      BY <1>2, <2>3, <3>1, <3>3 DEF OfFile
    <3>5. Len(log') < Len(Sent(s)')
      BY <1>2, <2>2, <2>4, <3>1, <3>3
    <3>6. QED BY <1>2, <1>3, <2>2, <3>2, <3>4, <3>5, OthersTell
  <2>7. QED BY <2>5, <2>6
<1>6. QED BY <1>4, <1>5

\* A broken connection loses what is on its way, not what the client has.
LEMMA DisconnectTells ==
    ASSUME IInv, EndInv, NEW s \in Streams, Disconnect(s)
    PROVE  EndInv'
<1> DEFINE q == got[s]
           r == Sent(s)
<1>1. TypeOK /\ InOrder(r)
  BY DEF IInv, ClientInv
<1>2. /\ q \in Seq(Event) /\ r \in Seq(Event) /\ Len(q) \in Nat /\ Len(r) \in Nat
      /\ Len(q) <= Len(r) /\ Len(log) \in Nat
      /\ \A k \in 1 .. Len(q) : k \in 1 .. Len(r) /\ r[k] = q[k]
  BY <1>1, SentSequence DEF TypeOK
<1>3. /\ wire'[s] = << >> /\ got' = got /\ UNCHANGED <<log, wpc, ended, spc>>
      /\ \A t \in Streams \ {s} : Sent(t)' = Sent(t)
  BY <1>1 DEF TypeOK, Disconnect, Sent
<1>4. Sent(s)' = q
  BY <1>2, <1>3, ConcatEmptySeq DEF Sent
<1>5. OfFile(r) => OfFile(Sent(s))'
  <2>1. OfFile(r) => OfFile(q)
    BY <1>2 DEF OfFile
  <2>2. QED BY <1>3, <1>4, <2>1 DEF OfFile
<1>6. CASE Told(q)
  <2>1. Len(q) \in 1 .. Len(q)
    BY <1>2, <1>6, EmptySeq DEF Told
  <2>2. Len(q) = Len(r) /\ \A k \in 1 .. Len(r) : r[k] = q[k]
    BY <1>1, <1>2, <1>6, <2>1 DEF InOrder, Told
  <2>3. r = q
    BY <1>2, <2>2, SeqEqual
  <2>4. \A t \in Streams : Sent(t)' = Sent(t)
    BY <1>3, <1>4, <2>3
  <2>5. (Over => Over') /\ (wpc' = "lastLine" => wpc = "lastLine")
    BY <1>3 DEF Over
  <2>6. QED BY <1>3, <2>4, <2>5, EndStands
<1>7. CASE ~ Told(q)
  <2>1. ~ Told(Sent(s))'
    BY <1>4, <1>7 DEF Told
  <2>2. QED BY <1>3, <1>5, <2>1, OthersTell
<1>8. QED BY <1>6, <1>7

LEMMA NextTells == IInv /\ EndInv /\ [Next]_vars => EndInv'
<1>1. SUFFICES ASSUME IInv, EndInv, [Next]_vars PROVE EndInv'
  OBVIOUS
<1>2. CASE Runner
  BY <1>1, <1>2, RunnerTells
<1>3. CASE CancelRead \/ Canceller
  BY <1>1, <1>3, RequestTells
<1>4. CASE Remove
  BY <1>1, <1>4, RemoveTells
<1>5. ASSUME NEW s \in Streams,
             Connect(s) \/ Serve(s) \/ Cancel(s) \/ Receive(s) \/ Disconnect(s)
      PROVE  EndInv'
  BY <1>1, <1>5, SilentTells, SendTells, DisconnectTells DEF Serve
<1>6. CASE UNCHANGED vars
  <2>1. UNCHANGED <<log, wpc, ended, spc, got, wire>>
    BY <1>6
  <2>2. \A s \in Streams : Sent(s)' = Sent(s)
    BY <2>1 DEF Sent
  <2>3. (Over => Over') /\ (wpc' = "lastLine" => wpc = "lastLine")
    BY <2>1 DEF Over
  <2>4. QED BY <1>1, <2>1, <2>2, <2>3, EndStands
<1>7. QED BY <1>1, <1>2, <1>3, <1>4, <1>5, <1>6 DEF Next

-----------------------------------------------------------------------------
(* Theorems *)

\* IInv holds in every state of the streams, whatever is cut off or removed.
THEOREM Inductive == Spec => []IInv
BY InitIInv, NextKeeps, PTL DEF Spec

\* Every variable has its type (jobstore.py, job_router.py:stream_logs).
THEOREM TypeCorrect == Spec => []TypeOK
<1>1. IInv => TypeOK
  BY DEF IInv
<1>2. QED BY <1>1, Inductive, PTL

\* No callback outlives its generator (job_router.py:215).
THEOREM NoCallbackIsLeft == Spec => []NoStaleSubscriber
<1>1. IInv => NoStaleSubscriber
  BY DEF IInv, SubscriberInv, NoStaleSubscriber
<1>2. QED BY <1>1, Inductive, PTL

\* Over all its connections a client sees ids without gap or repetition and
\* lines in the order of their writing (jobstore.py:195).
THEOREM IdsAreInOrder == Spec => []IdsInOrder
<1>1. ASSUME IInv, NEW s \in Streams, NEW k \in 1 .. Len(got[s]), got[s][k] # End
      PROVE  got[s][k].id = k /\ (k > 1 => got[s][k - 1].line < got[s][k].line)
  <2>1. TypeOK /\ InOrder(Sent(s))
    BY <1>1 DEF IInv, ClientInv
  <2>2. /\ Len(got[s]) \in Nat
        /\ \A j \in 1 .. Len(got[s]) : j \in 1 .. Len(Sent(s)) /\ Sent(s)[j] = got[s][j]
    BY <2>1, SentSequence
  <2>3. k \in 1 .. Len(Sent(s)) /\ Sent(s)[k] = got[s][k]
    BY <1>1, <2>2
  <2>4. k > 1 => k - 1 \in 1 .. Len(got[s]) /\ k - 1 < k
    BY <1>1, <2>2
  <2>5. QED BY <1>1, <2>1, <2>2, <2>3, <2>4 DEF InOrder
<1>2. IInv => IdsInOrder
  BY <1>1 DEF IdsInOrder
<1>3. QED BY <1>2, Inductive, PTL

\* event: end may come before the job's last line (EndAfterEverything fails), but
\* before no other, whatever is cut off, cancelled late or removed
\* (job_router.py:198-211, runner.py:977-979).
THEOREM EndMissesOneLineAtMost == Spec => []EndMissesLastLineOnly
<1>1. Spec => []EndInv
  BY InitIInv, InitEndInv, Inductive, NextTells, PTL DEF Spec
<1>2. ASSUME IInv, EndInv, NEW s \in Streams, Finished(s), NEW n \in 1 .. Len(log) - 1
      PROVE  n < Len(got[s]) /\ got[s][n].line = log[n]
  <2> DEFINE q == got[s]
             r == Sent(s)
  <2>1. TypeOK /\ InOrder(r)
    BY <1>2 DEF IInv, ClientInv
  <2>2. /\ q \in Seq(Event) /\ r \in Seq(Event) /\ Len(q) \in Nat /\ Len(r) \in Nat
        /\ Len(q) <= Len(r) /\ Len(log) \in Nat
        /\ \A k \in 1 .. Len(q) : k \in 1 .. Len(r) /\ r[k] = q[k]
    BY <2>1, SentSequence DEF TypeOK
  <2>3. q # << >> /\ Len(q) \in 1 .. Len(q) /\ q[Len(q)] = End
    BY <1>2, <2>2, EmptySeq DEF Finished
  <2>4. Len(q) = Len(r) /\ r[Len(r)] = End /\ Len(r) \in 1 .. Len(r)
    BY <2>1, <2>2, <2>3 DEF InOrder
  <2>5. Told(r) /\ Len(log) <= Len(r)
    <3>1. Told(r)
      BY <2>2, <2>4, EmptySeq DEF Told
    <3>2. QED BY <1>2, <3>1 DEF EndInv
  <2>6. n \in 1 .. Len(r) /\ n # Len(r) /\ n < Len(q) /\ n \in 1 .. Len(q) /\ Len(log) > 1
    BY <2>2, <2>4, <2>5
  <2>7. r[n] # End
    BY <2>1, <2>6 DEF InOrder
  <2>8. OfFile(r)
    BY <1>2, <2>2, <2>6 DEF EndInv, Renewed
  <2>9. QED BY <2>2, <2>6, <2>7, <2>8 DEF OfFile
<1>3. IInv /\ EndInv => EndMissesLastLineOnly
  BY <1>2 DEF EndMissesLastLineOnly
<1>4. QED BY <1>1, <1>3, Inductive, PTL
=============================================================================
