--------------------------- MODULE RoomFeedProofs ---------------------------
(***************************************************************************)
(* RoomFeed, for any sockets and any channel capacity: a control client    *)
(* that has read its channel shows the newest room or was told what it     *)
(* missed, and an input session reads its channel without a gap.           *)
(***************************************************************************)
EXTENDS RoomFeed, TLAPS

Event == [seq : Nat, view : BOOLEAN, to : SUBSET Sockets, epoch : Nat]

\* The parts of the state that the properties read.
RoomOK ==
  /\ open \in BOOLEAN /\ epoch \in 1..MaxEpoch /\ seq \in 0..MaxSeq /\ lastView \in 0..seq
  /\ inputs \in Nat
SessionsOK ==
  /\ phase \in [Sockets -> {"new", "subscribed", "joined", "loop", "closing", "ended"}]
  /\ lagged \in [Sockets -> BOOLEAN]
  /\ told \in [Control -> BOOLEAN] /\ shown \in [Control -> Nat] /\ known \in [Control -> Nat]
  /\ last \in [Input -> Nat]
  /\ \A c \in Control : shown[c] <= seq /\ known[c] <= epoch
QueuesOK ==
  /\ queue \in [Sockets -> Seq(Event)]
  /\ \A c \in Sockets : Len(queue[c]) <= Cap
  /\ \A c \in Sockets : \A i \in 1..Len(queue[c]) : queue[c][i].epoch <= epoch
TypeInv == RoomOK /\ SessionsOK /\ QueuesOK

\* The events of a control session go up, none is newer than the room, and the ones with a
\* view are for everybody and no newer than the newest view.
Ordered(c) ==
  /\ \A i, j \in 1..Len(queue[c]) : i < j => queue[c][i].seq < queue[c][j].seq
  /\ \A i \in 1..Len(queue[c]) :
       /\ queue[c][i].seq <= seq
       /\ queue[c][i].view => queue[c][i].seq <= lastView /\ queue[c][i].to = Control

\* The newest view waits in the channel of a session that has joined; when no view waits,
\* the client was shown it, or is or will be told that it lagged.
NewestWaits(c) == \E i \in 1..Len(queue[c]) : queue[c][i].view /\ queue[c][i].seq = lastView
NoneWaits(c) == \A i \in 1..Len(queue[c]) : ~queue[c][i].view
Informed(c) ==
  phase[c] \in {"joined", "loop"} =>
    NewestWaits(c) \/ (NoneWaits(c) /\ (shown[c] = lastView \/ lagged[c] \/ told[c]))

\* The events of an input session are the newest ones, in a row, and the row goes on where
\* the session stopped reading unless it lagged.
InARow(c) ==
  /\ phase[c] = "new" => queue[c] = << >> /\ ~lagged[c]
  /\ phase[c] \in {"subscribed", "joined", "loop"} =>
       /\ \A i \in 1..Len(queue[c]) : queue[c][i].seq = inputs - Len(queue[c]) + i
       /\ ~lagged[c] => last[c] = inputs - Len(queue[c])

\* The inductive invariant.
FeedInv ==
  /\ TypeInv
  /\ \A c \in Control : Ordered(c) /\ Informed(c)
  /\ \A c \in Input : InARow(c)

-----------------------------------------------------------------------------
(* Facts about states.                                                     *)

\* Nothing waits at the beginning.
LEMMA InitInv == Init => FeedInv
<1> SUFFICES ASSUME Init PROVE FeedInv
  OBVIOUS
<1>0. PICK active \in Actives : phase = [c \in Sockets |-> IF c \in active THEN "new" ELSE "ended"]
  BY DEF Init
<1>1. RoomOK
  BY FeedAssumption DEF Init, RoomOK
<1>2. SessionsOK
  BY <1>0 DEF Init, SessionsOK
<1>3. QueuesOK
  <2>1. \A c \in Sockets : queue[c] = << >>
    BY DEF Init
  <2>2. queue \in [Sockets -> Seq(Event)]
    BY DEF Init
  <2>3. Len(<< >>) = 0
    OBVIOUS
  <2> QED
    BY <2>1, <2>2, <2>3, FeedAssumption DEF QueuesOK
<1>4. ASSUME NEW c \in Control PROVE Ordered(c) /\ Informed(c)
  <2>1. queue[c] = << >> /\ Len(<< >>) = 0
    BY DEF Init, Sockets
  <2>2. phase[c] \notin {"joined", "loop"}
    BY <1>0 DEF Sockets
  <2> QED
    BY <2>1, <2>2 DEF Ordered, Informed
<1>5. ASSUME NEW c \in Input PROVE InARow(c)
  <2>1. queue[c] = << >> /\ ~lagged[c]
    BY DEF Init, Sockets
  <2>2. phase[c] \notin {"subscribed", "joined", "loop"}
    BY <1>0 DEF Sockets
  <2> QED
    BY <2>1, <2>2 DEF InARow
<1> QED
  BY <1>1, <1>2, <1>3, <1>4, <1>5 DEF FeedInv, TypeInv

\* The invariant implies what the run checks.
LEMMA InvImplies == FeedInv => ShowsNewest
<1> SUFFICES ASSUME FeedInv PROVE ShowsNewest
  OBVIOUS
<1>1. FeedTypeOK
  <2>1. \A c \in Control : shown[c] \in 0..seq /\ known[c] \in 0..epoch
    <3>1. seq \in Nat /\ epoch \in Nat
      BY FeedAssumption DEF FeedInv, TypeInv, RoomOK
    <3>2. \A c \in Control : shown[c] \in Nat /\ known[c] \in Nat /\ shown[c] <= seq /\ known[c] <= epoch
      BY Zenon DEF FeedInv, TypeInv, SessionsOK
    <3>3. ASSUME NEW c \in Control PROVE shown[c] \in 0..seq
      BY <3>1, <3>2
    <3>4. ASSUME NEW c \in Control PROVE known[c] \in 0..epoch
      BY <3>1, <3>2
    <3> QED
      BY <3>3, <3>4
  <2> QED
    BY <2>1 DEF FeedInv, TypeInv, RoomOK, SessionsOK, QueuesOK, FeedTypeOK
<1>2. ASSUME NEW c \in Control, phase[c] = "loop", queue[c] = << >>, ~lagged[c]
      PROVE  shown[c] = lastView \/ told[c]
  <2>1. Len(queue[c]) = 0
    BY <1>2
  <2>2. Informed(c)
    BY DEF FeedInv
  <2> QED
    BY <1>2, <2>1, <2>2 DEF Informed, NewestWaits
<1> QED
  BY <1>1, <1>2 DEF ShowsNewest

-----------------------------------------------------------------------------
(* The channels.                                                           *)

\* What one receiver keeps when e is sent to it.
Push(q, e) == IF Len(q) = Cap THEN Append(Tail(q), e) ELSE Append(q, e)
Lost(q) == IF Len(q) = Cap THEN 1 ELSE 0

\* A send puts the event behind the ones that are kept, and loses at most the oldest.
LEMMA PushFacts ==
  ASSUME NEW q \in Seq(Event), NEW e \in Event, Len(q) <= Cap
  PROVE  /\ Push(q, e) \in Seq(Event)
         /\ Len(Push(q, e)) = Len(q) - Lost(q) + 1 /\ Len(Push(q, e)) <= Cap
         /\ Push(q, e)[Len(Push(q, e))] = e
         /\ \A i \in 1..(Len(Push(q, e)) - 1) : Push(q, e)[i] = q[i + Lost(q)]
<1>1. CASE Len(q) = Cap
  <2>1. q # << >> /\ Len(q) > 0
    BY <1>1, FeedAssumption
  <2>2. Tail(q) \in Seq(Event) /\ Len(Tail(q)) = Len(q) - 1
    BY <2>1
  <2>3. \A i \in 1..(Len(q) - 1) : Tail(q)[i] = q[i + 1]
    BY <2>1
  <2>4. Push(q, e) = Append(Tail(q), e) /\ Lost(q) = 1
    BY <1>1 DEF Push, Lost
  <2>5. /\ Append(Tail(q), e) \in Seq(Event) /\ Len(Append(Tail(q), e)) = Len(q)
        /\ Append(Tail(q), e)[Len(q)] = e
        /\ \A i \in 1..(Len(q) - 1) : Append(Tail(q), e)[i] = Tail(q)[i]
    BY <2>1, <2>2
  <2> QED
    BY <1>1, <2>3, <2>4, <2>5
<1>2. CASE Len(q) # Cap
  <2>1. Push(q, e) = Append(q, e) /\ Lost(q) = 0
    BY <1>2 DEF Push, Lost
  <2>2. /\ Append(q, e) \in Seq(Event) /\ Len(Append(q, e)) = Len(q) + 1
        /\ Append(q, e)[Len(q) + 1] = e
        /\ \A i \in 1..Len(q) : Append(q, e)[i] = q[i]
    OBVIOUS
  <2>3. Len(q) + 1 <= Cap
    BY <1>2, FeedAssumption
  <2> QED
    BY <2>1, <2>2, <2>3
<1> QED
  BY <1>1, <1>2

\* A receiver takes the oldest event.
LEMMA TailFacts ==
  ASSUME NEW q \in Seq(Event), q # << >>
  PROVE  /\ Tail(q) \in Seq(Event) /\ Len(q) \in Nat \ {0} /\ Len(Tail(q)) = Len(q) - 1
         /\ Head(q) = q[1] /\ q[1] \in Event
         /\ \A i \in 1..(Len(q) - 1) : Tail(q)[i] = q[i + 1]
OBVIOUS

\* What waits in a channel is an event.
LEMMA EventsAreTyped ==
  ASSUME TypeInv, NEW c \in Sockets, NEW i \in 1..Len(queue[c])
  PROVE  /\ queue[c] \in Seq(Event) /\ Len(queue[c]) \in Nat /\ queue[c][i] \in Event
         /\ queue[c][i].seq \in Nat /\ queue[c][i].epoch \in Nat
<1>1. queue[c] \in Seq(Event)
  BY DEF TypeInv, QueuesOK
<1>2. queue[c][i] \in Event /\ Len(queue[c]) \in Nat
  BY <1>1
<1> QED
  BY <1>1, <1>2 DEF Event

\* The receiver of c after e was sent to it.
Received(c, e) ==
  /\ Len(queue[c]) \in Nat /\ Len(queue'[c]) = Len(queue[c]) - Lost(queue[c]) + 1
  /\ Lost(queue[c]) \in {0, 1} /\ Lost(queue[c]) <= Len(queue[c])
  /\ queue'[c][Len(queue'[c])] = e
  /\ \A i \in 1..(Len(queue'[c]) - 1) : queue'[c][i] = queue[c][i + Lost(queue[c])]
  /\ lagged'[c] = (lagged[c] \/ Lost(queue[c]) = 1)

\* A send of one event to the receivers cs keeps every channel within its capacity.
LEMMA SendTyped ==
  ASSUME TypeInv, NEW cs \in SUBSET Sockets, NEW e \in Event, queue' = Queued(cs, e),
         lagged' = Overrun(cs), epoch' \in Nat, epoch <= epoch', e.epoch <= epoch'
  PROVE  /\ QueuesOK' /\ lagged' \in [Sockets -> BOOLEAN]
         /\ \A c \in cs : Received(c, e)
         /\ \A c \in Sockets \ cs : queue'[c] = queue[c] /\ lagged'[c] = lagged[c]
<1>1. \A c \in cs : queue'[c] = Push(queue[c], e)
  BY DEF Queued, Push
<1>2. \A c \in Sockets \ cs : queue'[c] = queue[c]
  BY DEF Queued
<1>3. lagged' \in [Sockets -> BOOLEAN]
  BY DEF Overrun
<1>4. \A c \in cs : lagged'[c] = (lagged[c] \/ Lost(queue[c]) = 1)
  BY DEF Overrun, Lost
<1>5. \A c \in Sockets \ cs : lagged'[c] = lagged[c]
  BY DEF Overrun, TypeInv, SessionsOK
<1>6. \A c \in Sockets : queue[c] \in Seq(Event) /\ Len(queue[c]) <= Cap
  BY DEF TypeInv, QueuesOK
<1>9. ASSUME NEW c \in cs
      PROVE  queue'[c] \in Seq(Event) /\ Len(queue'[c]) <= Cap /\ Received(c, e)
  <2>0. queue'[c] = Push(queue[c], e) /\ lagged'[c] = (lagged[c] \/ Lost(queue[c]) = 1)
    BY <1>1, <1>4
  <2>1. queue[c] \in Seq(Event) /\ Len(queue[c]) <= Cap
    BY <1>6
  <2>2. /\ Push(queue[c], e) \in Seq(Event) /\ Len(Push(queue[c], e)) <= Cap
        /\ Len(Push(queue[c], e)) = Len(queue[c]) - Lost(queue[c]) + 1
        /\ Push(queue[c], e)[Len(Push(queue[c], e))] = e
        /\ \A i \in 1..(Len(Push(queue[c], e)) - 1) :
             Push(queue[c], e)[i] = queue[c][i + Lost(queue[c])]
    BY <2>1, PushFacts
  <2>3. Len(queue[c]) \in Nat /\ Lost(queue[c]) \in {0, 1} /\ Lost(queue[c]) <= Len(queue[c])
    BY <2>1, FeedAssumption DEF Lost
  <2> QED
    BY <2>0, <2>2, <2>3, Zenon DEF Received
<1>7. ASSUME NEW c \in Sockets
      PROVE  /\ queue'[c] \in Seq(Event) /\ Len(queue'[c]) <= Cap
             /\ \A i \in 1..Len(queue'[c]) : queue'[c][i].epoch <= epoch'
  <2>1. CASE c \in cs
    <3>2. /\ queue'[c] \in Seq(Event) /\ Len(queue'[c]) <= Cap /\ Received(c, e)
      BY <1>9, <2>1, Zenon
    <3>3. ASSUME NEW i \in 1..Len(queue'[c]) PROVE queue'[c][i].epoch <= epoch'
      <4>1. CASE i = Len(queue'[c])
        BY <3>2, <4>1 DEF Received
      <4>2. CASE i # Len(queue'[c])
        <5>1. i \in 1..(Len(queue'[c]) - 1) /\ Len(queue'[c]) \in Nat /\ Len(queue[c]) \in Nat
          BY <1>6, <3>2, <4>2
        <5>2. i + Lost(queue[c]) \in 1..Len(queue[c])
          BY <3>2, <5>1 DEF Received
        <5>3. queue[c][i + Lost(queue[c])].epoch <= epoch
          BY <5>2 DEF TypeInv, QueuesOK
        <5>4. queue[c][i + Lost(queue[c])].epoch \in Nat
          BY <5>2, EventsAreTyped
        <5>5. queue'[c][i] = queue[c][i + Lost(queue[c])]
          BY <3>2, <5>1 DEF Received
        <5> QED
          BY <5>3, <5>4, <5>5 DEF TypeInv, RoomOK
      <4> QED
        BY <4>1, <4>2
    <3> QED
      BY <3>2, <3>3
  <2>2. CASE c \notin cs
    <3>1. queue'[c] = queue[c]
      BY <1>2, <2>2
    <3>2. \A i \in 1..Len(queue[c]) : queue[c][i].epoch <= epoch /\ queue[c][i].epoch \in Nat
      BY EventsAreTyped DEF TypeInv, QueuesOK
    <3> QED
      BY <1>6, <3>1, <3>2 DEF TypeInv, RoomOK
  <2> QED
    BY <2>1, <2>2
<1>8. QueuesOK'
  BY <1>7 DEF QueuesOK, Queued
<1> QED
  BY <1>2, <1>3, <1>5, <1>8, <1>9

\* An event of the room keeps the order of a control session's channel.  With a view it
\* becomes the newest that waits; without one it leaves what the session will show alone,
\* or the session will be told.
LEMMA ReceivedInOrder ==
  ASSUME FeedInv, NEW c \in Control, NEW e \in Event, Received(c, e), e.seq = seq + 1, seq' = seq + 1,
         lastView' = IF e.view THEN seq + 1 ELSE lastView, e.view => e.to = Control
  PROVE  /\ Ordered(c)'
         /\ e.view => NewestWaits(c)'
         /\ ~e.view /\ phase[c] \in {"joined", "loop"} =>
              NewestWaits(c)' \/ (NoneWaits(c)' /\ (shown[c] = lastView \/ lagged'[c] \/ told[c]))
<1> DEFINE q == queue[c]
           r == queue'[c]
           k == Lost(queue[c])
           n == Len(queue'[c])
<1>1. /\ Len(q) \in Nat /\ n = Len(q) - k + 1 /\ k \in {0, 1} /\ k <= Len(q) /\ r[n] = e
      /\ \A i \in 1..(n - 1) : r[i] = q[i + k]
      /\ lagged'[c] = (lagged[c] \/ k = 1)
  BY DEF Received
<1>2. c \in Sockets /\ seq \in Nat /\ lastView \in Nat /\ lastView <= seq
  BY FeedAssumption DEF Sockets, FeedInv, TypeInv, RoomOK
<1>3. \A i \in 1..Len(q) : q[i].seq \in Nat
  BY <1>2, EventsAreTyped DEF FeedInv
<1>4. Ordered(c)
  BY DEF FeedInv
<1>5. /\ \A i, j \in 1..Len(q) : i < j => q[i].seq < q[j].seq
      /\ \A i \in 1..Len(q) : q[i].seq <= seq /\ (q[i].view => q[i].seq <= lastView /\ q[i].to = Control)
  BY <1>4 DEF Ordered
<1> HIDE DEF q, r, k, n
<1>6. n \in Nat /\ n > 0 /\ \A i \in 1..(n - 1) : i + k \in 1..Len(q)
  BY <1>1
<1>7. ASSUME NEW i \in 1..n
      PROVE  \/ i = n /\ r[i] = e
             \/ i \in 1..(n - 1) /\ i + k \in 1..Len(q) /\ r[i] = q[i + k]
  BY <1>1, <1>6
<1>8. Ordered(c)'
  <2>1. ASSUME NEW i \in 1..n, NEW j \in 1..n, i < j PROVE r[i].seq < r[j].seq
    <3>1. i \in 1..(n - 1) /\ i + k \in 1..Len(q) /\ r[i] = q[i + k]
      BY <1>1, <1>6, <2>1
    <3>2. CASE j = n
      BY <1>1, <1>2, <1>3, <1>5, <3>1, <3>2
    <3>3. CASE j # n
      <4>1. j + k \in 1..Len(q) /\ r[j] = q[j + k] /\ i + k < j + k
        BY <1>1, <1>6, <2>1, <3>3
      <4> QED
        BY <1>5, <3>1, <4>1
    <3> QED
      BY <3>2, <3>3
  <2>2. ASSUME NEW i \in 1..n
        PROVE  r[i].seq <= seq' /\ (r[i].view => r[i].seq <= lastView' /\ r[i].to = Control)
    <3>1. CASE r[i] = e
      BY <1>2, <3>1
    <3>2. CASE i + k \in 1..Len(q) /\ r[i] = q[i + k]
      <4>1. r[i].seq \in Nat /\ r[i].seq <= seq /\ (r[i].view => r[i].seq <= lastView /\ r[i].to = Control)
        BY <1>3, <1>5, <3>2
      <4> QED
        BY <1>2, <4>1
    <3> QED
      BY <1>7, <3>1, <3>2
  <2> QED
    BY <2>1, <2>2 DEF Ordered, r, n
<1>9. ASSUME e.view PROVE NewestWaits(c)'
  <2>1. n \in 1..n /\ r[n].view /\ r[n].seq = lastView'
    BY <1>1, <1>6, <1>9
  <2> QED
    BY <2>1 DEF NewestWaits, r, n
<1>10. ASSUME ~e.view, phase[c] \in {"joined", "loop"}
       PROVE  NewestWaits(c)' \/ (NoneWaits(c)' /\ (shown[c] = lastView \/ lagged'[c] \/ told[c]))
  <2>0. lastView' = lastView
    BY <1>10
  <2>1. CASE NewestWaits(c)
    <3>1. PICK m \in 1..Len(q) : q[m].view /\ q[m].seq = lastView
      BY <2>1 DEF NewestWaits, q
    <3>2. CASE m > k
      <4>1. m - k \in 1..(n - 1) /\ (m - k) + k = m
        BY <1>1, <3>1, <3>2
      <4>2. m - k \in 1..n /\ r[m - k] = q[m]
        BY <1>1, <1>6, <4>1
      <4> QED
        BY <2>0, <3>1, <4>2 DEF NewestWaits, r, n
    <3>3. CASE m <= k
      <4>1. k = 1 /\ m = 1
        BY <1>1, <3>1, <3>3
      <4>2. ASSUME NEW i \in 1..n PROVE ~r[i].view
        <5>1. CASE r[i] = e
          BY <1>10, <5>1
        <5>2. CASE i + k \in 1..Len(q) /\ r[i] = q[i + k]
          <6>1. q[m].seq < q[i + k].seq /\ q[i + k].seq \in Nat
            BY <1>3, <1>5, <4>1, <5>2
          <6>2. ~q[i + k].view
            BY <1>2, <1>5, <3>1, <5>2, <6>1
          <6> QED
            BY <5>2, <6>2
        <5> QED
          BY <1>7, <5>1, <5>2
      <4> QED
        BY <1>1, <4>1, <4>2 DEF NoneWaits, r, n
    <3> QED
      BY <1>1, <3>2, <3>3
  <2>2. CASE NoneWaits(c) /\ (shown[c] = lastView \/ lagged[c] \/ told[c])
    <3>1. ASSUME NEW i \in 1..n PROVE ~r[i].view
      <4>1. \A j \in 1..Len(q) : ~q[j].view
        BY <2>2 DEF NoneWaits, q
      <4> QED
        BY <1>7, <1>10, <4>1
    <3>2. shown[c] = lastView \/ lagged'[c] \/ told[c]
      BY <1>1, <2>2
    <3> QED
      BY <3>1, <3>2 DEF NoneWaits, r, n
  <2> QED
    BY <1>10, <2>1, <2>2 DEF FeedInv, Informed
<1> QED
  BY <1>8, <1>9, <1>10

-----------------------------------------------------------------------------
(* The steps.                                                              *)

Phases == {"new", "subscribed", "joined", "loop", "closing", "ended"}

\* A control socket is no input socket.
LEMMA SocketFacts ==
  /\ \A c \in Control : c \in Sockets /\ c \notin Input
  /\ \A c \in Input : c \in Sockets /\ c \notin Control
BY FeedAssumption DEF Sockets

\* Every operation that emits a room event keeps the invariant, the joins among them.
LEMMA EmitStep ==
  ASSUME FeedInv, NEW view \in BOOLEAN, NEW to \in SUBSET Sockets, view => to = Control,
         epoch' \in {epoch, epoch + 1}, epoch' <= MaxEpoch, Emit(view, to),
         UNCHANGED <<open, inputs, told, last>>, phase' \in [Sockets -> Phases],
         \A c \in Sockets : \/ phase'[c] = phase[c]
                            \/ phase[c] = "subscribed" /\ phase'[c] = "joined" /\ view
                            \/ phase'[c] = "ended",
         shown' \in [Control -> Nat], known' \in [Control -> Nat],
         \A c \in Control : \/ shown'[c] = shown[c] /\ known'[c] = known[c]
                            \/ shown'[c] = seq + 1 /\ known'[c] = epoch' /\ phase[c] = "subscribed"
  PROVE  FeedInv'
<1> DEFINE e == [seq |-> seq + 1, view |-> view, to |-> to, epoch |-> epoch']
           cs == Subscribed \cap Control
<1>1. /\ seq \in Nat /\ epoch \in Nat /\ epoch > 0 /\ lastView \in Nat /\ lastView <= seq
      /\ inputs \in Nat /\ open \in BOOLEAN
  BY FeedAssumption DEF FeedInv, TypeInv, RoomOK
<1>2. /\ seq < MaxSeq /\ seq' = seq + 1 /\ queue' = Queued(cs, e) /\ lagged' = Overrun(cs)
      /\ lastView' = IF view THEN seq + 1 ELSE lastView
  BY DEF Emit
<1>3. epoch' \in Nat /\ epoch <= epoch'
  BY <1>1
<1>4. e \in Event /\ e.epoch <= epoch' /\ e.seq = seq + 1 /\ e.view = view /\ e.to = to
  BY <1>1, <1>3 DEF Event
<1>5. cs \in SUBSET Sockets
  BY DEF Subscribed
<1> HIDE DEF e, cs
<1>6. /\ QueuesOK' /\ lagged' \in [Sockets -> BOOLEAN]
      /\ \A c \in cs : Received(c, e)
      /\ \A c \in Sockets \ cs : queue'[c] = queue[c] /\ lagged'[c] = lagged[c]
  BY <1>2, <1>3, <1>4, <1>5, SendTyped DEF FeedInv
<1>7. RoomOK'
  BY <1>1, <1>2, <1>3, FeedAssumption DEF RoomOK
<1>8. SessionsOK'
  <2>1. told \in [Control -> BOOLEAN] /\ last \in [Input -> Nat]
    BY DEF FeedInv, TypeInv, SessionsOK
  <2>2. ASSUME NEW c \in Control PROVE shown'[c] <= seq' /\ known'[c] <= epoch'
    <3>1. shown[c] \in Nat /\ known[c] \in Nat /\ shown[c] <= seq /\ known[c] <= epoch
      BY DEF FeedInv, TypeInv, SessionsOK
    <3> QED
      BY <1>1, <1>2, <1>3, <3>1
  <2> QED
    BY <1>6, <2>1, <2>2 DEF SessionsOK, Phases
<1>9. ASSUME NEW c \in Control PROVE Ordered(c)' /\ Informed(c)'
  <2>1. CASE c \in cs
    <3>1. /\ Ordered(c)'
          /\ e.view => NewestWaits(c)'
          /\ ~e.view /\ phase[c] \in {"joined", "loop"} =>
               NewestWaits(c)' \/ (NoneWaits(c)' /\ (shown[c] = lastView \/ lagged'[c] \/ told[c]))
      BY <1>2, <1>4, <1>6, <2>1, ReceivedInOrder
    <3>2. CASE view
      BY <1>4, <3>1, <3>2 DEF Informed
    <3>3. CASE ~view /\ phase'[c] \in {"joined", "loop"}
      <4>1. phase'[c] = phase[c] /\ shown'[c] = shown[c] /\ told'[c] = told[c] /\ lastView' = lastView
        BY <1>2, <3>3, SocketFacts
      <4> QED
        BY <1>4, <3>1, <3>3, <4>1 DEF Informed
    <3>4. CASE ~view /\ phase'[c] \notin {"joined", "loop"}
      BY <3>1, <3>4 DEF Informed
    <3> QED
      BY <3>2, <3>3, <3>4
  <2>2. CASE c \notin cs
    <3>1. queue'[c] = queue[c]
      BY <1>6, <2>2, SocketFacts
    <3>2. phase[c] \notin {"subscribed", "joined", "loop"}
      BY <2>2, SocketFacts DEF cs, Subscribed
    <3>3. Informed(c)'
      BY <3>2, SocketFacts DEF Informed
    <3>4. \A i \in 1..Len(queue[c]) : queue[c][i].seq \in Nat
      BY EventsAreTyped, SocketFacts DEF FeedInv
    <3>5. \A i \in 1..Len(queue[c]) :
             queue[c][i].seq <= seq' /\ (queue[c][i].view => queue[c][i].seq <= lastView' /\ queue[c][i].to = Control)
      <4>1. Ordered(c)
        BY DEF FeedInv
      <4> QED
        BY <1>1, <1>2, <3>4, <4>1 DEF Ordered
    <3>6. Ordered(c)'
      <4>1. Ordered(c)
        BY DEF FeedInv
      <4> QED
        BY <3>1, <3>5, <4>1 DEF Ordered
    <3> QED
      BY <3>3, <3>6
  <2> QED
    BY <2>1, <2>2
<1>10. ASSUME NEW c \in Input PROVE InARow(c)'
  <2>1. queue'[c] = queue[c] /\ lagged'[c] = lagged[c] /\ last'[c] = last[c] /\ inputs' = inputs
    BY <1>6, SocketFacts DEF cs
  <2>2. InARow(c) /\ c \in Sockets
    BY SocketFacts DEF FeedInv
  <2> QED
    BY <2>1, <2>2 DEF InARow
<1> QED
  BY <1>6, <1>7, <1>8, <1>9, <1>10 DEF FeedInv, TypeInv

\* A step of a session that neither sends nor reads: it subscribes, begins its loop, leaves it
\* or ends; and the changes of the registry that no client hears of.
LEMMA SilentStep ==
  ASSUME FeedInv, UNCHANGED <<epoch, lastView, inputs, queue, lagged, known, shown, told>>,
         open' \in BOOLEAN, seq' \in {seq, seq + 1}, seq' <= MaxSeq,
         phase' \in [Sockets -> Phases], last' \in [Input -> Nat],
         \A c \in Sockets : \/ phase'[c] = phase[c]
                            \/ phase[c] = "joined" /\ phase'[c] = "loop"
                            \/ phase'[c] \in {"closing", "ended"}
                            \/ phase[c] = "new" /\ phase'[c] = "subscribed",
         \A c \in Input : \/ last'[c] = last[c] /\ (phase[c] # "new" \/ phase'[c] # "subscribed")
                          \/ last'[c] = inputs /\ phase[c] = "new"
  PROVE  FeedInv'
<1>1. seq \in Nat /\ epoch \in Nat /\ lastView \in Nat /\ inputs \in Nat
  BY FeedAssumption DEF FeedInv, TypeInv, RoomOK
<1>2. RoomOK'
  BY <1>1, FeedAssumption DEF RoomOK, FeedInv, TypeInv
<1>3. SessionsOK'
  <2>1. ASSUME NEW c \in Control PROVE shown'[c] <= seq' /\ known'[c] <= epoch'
    <3>1. shown[c] \in Nat /\ known[c] \in Nat /\ shown[c] <= seq /\ known[c] <= epoch
      BY DEF FeedInv, TypeInv, SessionsOK
    <3> QED
      BY <1>1, <3>1
  <2> QED
    BY <2>1 DEF SessionsOK, FeedInv, TypeInv, Phases
<1>4. QueuesOK'
  BY DEF QueuesOK, FeedInv, TypeInv
<1>5. ASSUME NEW c \in Control PROVE Ordered(c)' /\ Informed(c)'
  <2>1. Ordered(c) /\ Informed(c) /\ c \in Sockets
    BY SocketFacts DEF FeedInv
  <2>2. \A i \in 1..Len(queue[c]) : queue[c][i].seq \in Nat
    BY EventsAreTyped, SocketFacts DEF FeedInv
  <2>3. \A i \in 1..Len(queue[c]) : queue[c][i].seq <= seq'
    BY <1>1, <2>1, <2>2 DEF Ordered
  <2>4. Ordered(c)'
    BY <2>1, <2>3 DEF Ordered
  <2>5. phase'[c] \in {"joined", "loop"} => phase[c] \in {"joined", "loop"}
    BY <2>1
  <2>6. Informed(c)'
    BY <2>1, <2>5 DEF Informed, NewestWaits, NoneWaits
  <2> QED
    BY <2>4, <2>6
<1>6. ASSUME NEW c \in Input PROVE InARow(c)'
  <2>1. InARow(c) /\ c \in Sockets
    BY SocketFacts DEF FeedInv
  <2>2. CASE phase[c] = "new" /\ phase'[c] = "subscribed"
    <3>1. queue[c] = << >> /\ Len(queue[c]) = 0 /\ last'[c] = inputs
      BY <2>1, <2>2 DEF InARow
    <3> QED
      BY <1>1, <2>2, <3>1 DEF InARow
  <2>3. CASE ~(phase[c] = "new" /\ phase'[c] = "subscribed")
    <3>1. /\ phase'[c] = "new" => phase[c] = "new"
          /\ phase'[c] \in {"subscribed", "joined", "loop"} =>
               phase[c] \in {"subscribed", "joined", "loop"} /\ last'[c] = last[c]
      BY <2>1, <2>3
    <3> QED
      BY <2>1, <3>1 DEF InARow
  <2> QED
    BY <2>2, <2>3
<1> QED
  BY <1>2, <1>3, <1>4, <1>5, <1>6 DEF FeedInv, TypeInv

\* An input event, for whichever sockets, keeps the row of every input session.
LEMMA EmitInputStep ==
  ASSUME FeedInv, NEW to \in SUBSET Sockets, EmitInput(to)
  PROVE  FeedInv'
<1> DEFINE e == [seq |-> inputs + 1, view |-> FALSE, to |-> to, epoch |-> epoch]
           cs == Subscribed \cap Input
<1>1. seq \in Nat /\ epoch \in Nat /\ lastView \in Nat /\ inputs \in Nat
  BY FeedAssumption DEF FeedInv, TypeInv, RoomOK
<1>2. /\ inputs' = inputs + 1 /\ queue' = Queued(cs, e) /\ lagged' = Overrun(cs)
      /\ UNCHANGED <<open, epoch, seq, lastView, phase, known, shown, told, last>>
  BY DEF EmitInput, client
<1>3. e \in Event /\ e.epoch <= epoch' /\ e.seq = inputs + 1
  BY <1>1, <1>2 DEF Event
<1>4. cs \in SUBSET Sockets /\ epoch' \in Nat /\ epoch <= epoch'
  BY <1>1, <1>2 DEF Subscribed
<1> HIDE DEF e, cs
<1>5. /\ QueuesOK' /\ lagged' \in [Sockets -> BOOLEAN]
      /\ \A c \in cs : Received(c, e)
      /\ \A c \in Sockets \ cs : queue'[c] = queue[c] /\ lagged'[c] = lagged[c]
  BY <1>2, <1>3, <1>4, SendTyped DEF FeedInv
<1>6. RoomOK' /\ SessionsOK'
  BY <1>1, <1>2, <1>5, SMTT(30) DEF RoomOK, SessionsOK, FeedInv, TypeInv
<1>7. ASSUME NEW c \in Control PROVE Ordered(c)' /\ Informed(c)'
  <2>1. queue'[c] = queue[c] /\ lagged'[c] = lagged[c] /\ Ordered(c) /\ Informed(c)
    BY <1>5, SocketFacts DEF cs, FeedInv
  <2> QED
    BY <1>2, <2>1 DEF Ordered, Informed, NewestWaits, NoneWaits
<1>8. ASSUME NEW c \in Input PROVE InARow(c)'
  <2>1. InARow(c) /\ c \in Sockets
    BY SocketFacts DEF FeedInv
  <2>2. CASE c \in cs
    <3>1. Received(c, e) /\ phase'[c] \in {"subscribed", "joined", "loop"}
      BY <1>2, <1>5, <2>2 DEF cs, Subscribed
    <3> DEFINE q == queue[c]
               r == queue'[c]
               k == Lost(queue[c])
               n == Len(queue'[c])
    <3>2. /\ Len(q) \in Nat /\ n = Len(q) - k + 1 /\ k \in {0, 1} /\ k <= Len(q) /\ r[n] = e
          /\ \A i \in 1..(n - 1) : r[i] = q[i + k]
          /\ lagged'[c] = (lagged[c] \/ k = 1)
      BY <3>1 DEF Received
    <3>3. /\ \A i \in 1..Len(q) : q[i].seq = inputs - Len(q) + i
          /\ ~lagged[c] => last[c] = inputs - Len(q)
      BY <1>2, <2>1, <3>1 DEF InARow
    <3> HIDE DEF q, r, k, n
    <3>4. ASSUME NEW i \in 1..n PROVE r[i].seq = inputs' - n + i
      <4>1. CASE i = n
        BY <1>1, <1>2, <1>3, <3>2, <4>1
      <4>2. CASE i # n
        <5>1. i \in 1..(n - 1) /\ i + k \in 1..Len(q)
          BY <3>2, <4>2
        <5>2. r[i].seq = inputs - Len(q) + (i + k)
          BY <3>2, <3>3, <5>1
        <5> QED
          BY <1>1, <1>2, <3>2, <5>1, <5>2
      <4> QED
        BY <4>1, <4>2
    <3>5. ASSUME ~lagged'[c] PROVE last'[c] = inputs' - n
      <4>1. ~lagged[c] /\ k = 0
        BY <3>2, <3>5
      <4> QED
        BY <1>1, <1>2, <3>2, <3>3, <4>1
    <3> QED
      BY <3>1, <3>4, <3>5 DEF InARow, r, n
  <2>3. CASE c \notin cs
    <3>1. phase'[c] = phase[c] /\ phase[c] \notin {"subscribed", "joined", "loop"}
      BY <1>2, <2>1, <2>3 DEF cs, Subscribed
    <3>2. queue'[c] = queue[c] /\ lagged'[c] = lagged[c]
      BY <1>5, <2>1, <2>3
    <3> QED
      BY <2>1, <3>1, <3>2 DEF InARow
  <2> QED
    BY <2>2, <2>3
<1> QED
  BY <1>5, <1>6, <1>7, <1>8 DEF FeedInv, TypeInv

\* A session that learns it lagged tells its client, or closes.
LEMMA ReadLagStep ==
  ASSUME FeedInv, NEW d \in Sockets, ReadLag(d) PROVE FeedInv'
<1>1. /\ UNCHANGED <<open, epoch, seq, lastView, inputs, queue, known, shown, last>>
      /\ lagged' = [lagged EXCEPT ![d] = FALSE]
      /\ phase[d] = "loop" /\ lagged[d]
  BY DEF ReadLag
<1>2. /\ d \in Control => told' = [told EXCEPT ![d] = TRUE] /\ phase' = phase
      /\ d \in Input => told' = told /\ phase' = [phase EXCEPT ![d] = "closing"]
  BY SocketFacts DEF ReadLag, LagEnds, TellsLag
<1>3. RoomOK' /\ QueuesOK'
  BY <1>1 DEF RoomOK, QueuesOK, FeedInv, TypeInv
<1>4. SessionsOK'
  <2>1. lagged' \in [Sockets -> BOOLEAN] /\ told' \in [Control -> BOOLEAN] /\ phase' \in [Sockets -> Phases]
    BY <1>1, <1>2 DEF FeedInv, TypeInv, SessionsOK, Sockets, Phases
  <2> QED
    BY <1>1, <2>1 DEF SessionsOK, FeedInv, TypeInv, Phases
<1>5. ASSUME NEW c \in Control PROVE Ordered(c)' /\ Informed(c)'
  <2>1. Ordered(c) /\ Informed(c) /\ c \in Sockets
    BY SocketFacts DEF FeedInv
  <2>2. Ordered(c)'
    BY <1>1, <2>1 DEF Ordered
  <2>3. CASE c = d
    <3>1. told'[c] /\ phase'[c] = "loop"
      BY <1>1, <1>2, <2>3 DEF FeedInv, TypeInv, SessionsOK
    <3> QED
      BY <1>1, <2>1, <2>2, <2>3, <3>1 DEF Informed, NewestWaits, NoneWaits
  <2>4. CASE c # d
    <3>1. told'[c] = told[c] /\ phase'[c] = phase[c] /\ lagged'[c] = lagged[c]
      BY <1>1, <1>2, <2>1, <2>4 DEF FeedInv, TypeInv, SessionsOK, Sockets
    <3> QED
      BY <1>1, <2>1, <2>2, <3>1 DEF Informed, NewestWaits, NoneWaits
  <2> QED
    BY <2>3, <2>4
<1>6. ASSUME NEW c \in Input PROVE InARow(c)'
  <2>1. InARow(c) /\ c \in Sockets
    BY SocketFacts DEF FeedInv
  <2>2. CASE c = d
    <3>1. phase'[c] = "closing"
      BY <1>2, <2>1, <2>2 DEF FeedInv, TypeInv, SessionsOK
    <3> QED
      BY <3>1 DEF InARow
  <2>3. CASE c # d
    <3>1. phase'[c] = phase[c] /\ lagged'[c] = lagged[c]
      BY <1>1, <1>2, <2>1, <2>3 DEF FeedInv, TypeInv, SessionsOK, Sockets
    <3> QED
      BY <1>1, <2>1, <3>1 DEF InARow
  <2> QED
    BY <2>2, <2>3
<1> QED
  BY <1>3, <1>4, <1>5, <1>6 DEF FeedInv, TypeInv

\* A control session that reads an event shows its client the newest view, or leaves it waiting.
LEMMA ReadShows ==
  ASSUME FeedInv, NEW c \in Control, ReadEvent(c)
  PROVE  Ordered(c)' /\ Informed(c)' /\ shown'[c] \in Nat /\ shown'[c] <= seq
         /\ known'[c] \in Nat /\ known'[c] <= epoch
<1> DEFINE q == queue[c]
           r == queue'[c]
           e == Head(queue[c])
<1>0. c \in Sockets /\ c \notin Input /\ seq \in Nat /\ lastView \in Nat /\ epoch \in Nat
  BY SocketFacts, FeedAssumption DEF FeedInv, TypeInv, RoomOK
<1>1. q \in Seq(Event) /\ q # << >> /\ r = Tail(q)
  BY <1>0 DEF ReadEvent, FeedInv, TypeInv, QueuesOK
<1>2. /\ Len(q) \in Nat \ {0} /\ Len(r) = Len(q) - 1 /\ e = q[1] /\ e \in Event
      /\ \A i \in 1..(Len(q) - 1) : r[i] = q[i + 1]
  BY <1>1, TailFacts
<1>3. /\ ~lagged[c] /\ phase[c] = "loop"
      /\ UNCHANGED <<epoch, seq, lastView, phase, lagged>>
      /\ IF e.view /\ c \in e.to
         THEN shown' = [shown EXCEPT ![c] = e.seq] /\ known' = [known EXCEPT ![c] = e.epoch]
         ELSE shown' = shown /\ known' = known /\ told' = told
  BY DEF ReadEvent
<1>4. \A i \in 1..Len(q) : q[i].seq \in Nat /\ q[i].epoch \in Nat /\ q[i].epoch <= epoch
  BY <1>0, EventsAreTyped DEF FeedInv, TypeInv, QueuesOK
<1>5. /\ shown[c] \in Nat /\ shown[c] <= seq /\ known[c] \in Nat /\ known[c] <= epoch
      /\ shown \in [Control -> Nat] /\ known \in [Control -> Nat]
  BY DEF FeedInv, TypeInv, SessionsOK
<1>6. /\ \A i, j \in 1..Len(q) : i < j => q[i].seq < q[j].seq
      /\ \A i \in 1..Len(q) : q[i].seq <= seq /\ (q[i].view => q[i].seq <= lastView /\ q[i].to = Control)
  BY DEF FeedInv, Ordered
<1> HIDE DEF q, r, e
<1>7. \A i \in 1..Len(r) : i + 1 \in 1..Len(q) /\ r[i] = q[i + 1]
  BY <1>2
<1>8. 1 \in 1..Len(q)
  BY <1>2
<1>9. Ordered(c)'
  <2>1. ASSUME NEW i \in 1..Len(r), NEW j \in 1..Len(r), i < j PROVE r[i].seq < r[j].seq
    <3>1. i + 1 < j + 1
      BY <1>2, <2>1
    <3> QED
      BY <1>6, <1>7, <3>1
  <2>2. \A i \in 1..Len(r) : r[i].seq <= seq /\ (r[i].view => r[i].seq <= lastView /\ r[i].to = Control)
    BY <1>6, <1>7
  <2> QED
    BY <1>3, <2>1, <2>2 DEF Ordered, r
<1>10. ASSUME NEW m \in 1..Len(q), m # 1, q[m].view, q[m].seq = lastView PROVE NewestWaits(c)'
  <2>1. m - 1 \in 1..Len(r) /\ (m - 1) + 1 = m
    BY <1>2, <1>10
  <2>2. r[m - 1] = q[m]
    BY <1>7, <2>1
  <2> QED
    BY <1>3, <1>10, <2>1, <2>2 DEF NewestWaits, r
<1>11. CASE e.view
  <2>1. q[1].view /\ q[1].to = Control
    BY <1>2, <1>6, <1>8, <1>11
  <2>2. /\ shown' = [shown EXCEPT ![c] = q[1].seq] /\ known' = [known EXCEPT ![c] = q[1].epoch]
    BY <1>2, <1>3, <2>1
  <2>3. shown'[c] = q[1].seq /\ known'[c] = q[1].epoch
    BY <1>5, <2>2
  <2>4. shown'[c] \in Nat /\ shown'[c] <= seq /\ known'[c] \in Nat /\ known'[c] <= epoch
    BY <1>4, <1>6, <1>8, <2>3
  <2>5. Informed(c)'
    <3>1. ~NoneWaits(c)
      BY <1>8, <2>1 DEF NoneWaits, q
    <3>2. PICK m \in 1..Len(q) : q[m].view /\ q[m].seq = lastView
      BY <1>3, <3>1 DEF FeedInv, Informed, NewestWaits, q
    <3>3. CASE m = 1
      <4>1. \A i \in 1..Len(r) : ~r[i].view
        <5>1. ASSUME NEW i \in 1..Len(r), r[i].view PROVE FALSE
          <6>1. i + 1 \in 1..Len(q) /\ 1 < i + 1 /\ q[i + 1].view
            BY <1>2, <1>7, <5>1
          <6>2. q[1].seq < q[i + 1].seq /\ q[i + 1].seq <= lastView /\ q[i + 1].seq \in Nat
            BY <1>4, <1>6, <1>8, <6>1
          <6> QED
            BY <1>0, <3>2, <3>3, <6>2
        <5> QED
          BY <5>1
      <4>2. shown'[c] = lastView'
        BY <1>3, <2>3, <3>2, <3>3
      <4> QED
        BY <4>1, <4>2 DEF Informed, NoneWaits, r
    <3>4. CASE m # 1
      BY <1>10, <3>2, <3>4 DEF Informed
    <3> QED
      BY <3>3, <3>4
  <2> QED
    BY <1>9, <2>4, <2>5
<1>12. CASE ~e.view
  <2>1. shown' = shown /\ known' = known /\ told' = told
    BY <1>3, <1>12
  <2>2. ~q[1].view
    BY <1>2, <1>12
  <2>3. Informed(c)'
    <3>1. CASE NewestWaits(c)
      <4>1. PICK m \in 1..Len(q) : q[m].view /\ q[m].seq = lastView
        BY <3>1 DEF NewestWaits, q
      <4> QED
        BY <1>10, <2>2, <4>1 DEF Informed
    <3>2. CASE NoneWaits(c) /\ (shown[c] = lastView \/ lagged[c] \/ told[c])
      <4>1. \A i \in 1..Len(r) : ~r[i].view
        BY <1>7, <3>2 DEF NoneWaits, q
      <4> QED
        BY <1>3, <2>1, <3>2, <4>1 DEF Informed, NoneWaits, r
    <3> QED
      BY <1>3, <3>1, <3>2 DEF FeedInv, Informed
  <2> QED
    BY <1>5, <1>9, <2>1, <2>3
<1> QED
  BY <1>11, <1>12

\* An input session reads the event behind the last one it read.
LEMMA ReadGoesOn ==
  ASSUME FeedInv, NEW c \in Input, ReadEvent(c)
  PROVE  InARow(c)' /\ last'[c] \in Nat /\ last'[c] = last[c] + 1
<1> DEFINE q == queue[c]
           r == queue'[c]
<1>0. c \in Sockets /\ inputs \in Nat /\ last \in [Input -> Nat]
  BY SocketFacts DEF FeedInv, TypeInv, RoomOK, SessionsOK
<1>1. q \in Seq(Event) /\ q # << >> /\ r = Tail(q)
  BY <1>0 DEF ReadEvent, FeedInv, TypeInv, QueuesOK
<1>2. /\ Len(q) \in Nat \ {0} /\ Len(r) = Len(q) - 1 /\ Head(q) = q[1]
      /\ \A i \in 1..(Len(q) - 1) : r[i] = q[i + 1]
  BY <1>1, TailFacts
<1>3. /\ ~lagged[c] /\ phase[c] = "loop" /\ UNCHANGED <<phase, lagged, inputs>>
      /\ last' = [last EXCEPT ![c] = Head(q).seq]
  BY DEF ReadEvent
<1>4. /\ \A i \in 1..Len(q) : q[i].seq = inputs - Len(q) + i
      /\ last[c] = inputs - Len(q)
  BY <1>3 DEF FeedInv, InARow
<1> HIDE DEF q, r
<1>5. 1 \in 1..Len(q) /\ q[1].seq = inputs - Len(q) + 1
  BY <1>2, <1>4
<1>6. last'[c] = last[c] + 1 /\ last'[c] \in Nat
  <2>1. last'[c] = q[1].seq
    BY <1>0, <1>2, <1>3
  <2>2. last[c] \in Nat
    BY <1>0
  <2> QED
    BY <1>0, <1>2, <1>4, <1>5, <2>1, <2>2
<1>7. ASSUME NEW i \in 1..Len(r) PROVE r[i].seq = inputs - Len(r) + i
  <2>1. i + 1 \in 1..Len(q) /\ r[i] = q[i + 1]
    BY <1>2
  <2>2. r[i].seq = inputs - Len(q) + (i + 1)
    BY <1>4, <2>1
  <2> QED
    BY <1>0, <1>2, <2>2
<1>8. last'[c] = inputs - Len(r)
  BY <1>0, <1>2, <1>4, <1>6
<1> QED
  BY <1>3, <1>6, <1>7, <1>8 DEF InARow, r

LEMMA ReadEventStep ==
  ASSUME FeedInv, NEW d \in Sockets, ReadEvent(d) PROVE FeedInv'
<1>1. /\ UNCHANGED <<open, epoch, seq, lastView, inputs, phase, lagged>>
      /\ queue' = [queue EXCEPT ![d] = Tail(@)]
      /\ queue[d] # << >>
      /\ d \in Control => last' = last
      /\ d \in Input => shown' = shown /\ known' = known /\ told' = told
  BY SocketFacts DEF ReadEvent
<1>2. /\ d \in Control => \A c \in Control \ {d} :
           shown'[c] = shown[c] /\ known'[c] = known[c] /\ told'[c] = told[c]
      /\ d \in Input => \A c \in Input \ {d} : last'[c] = last[c]
      /\ DOMAIN shown' = Control /\ DOMAIN known' = Control /\ told' \in [Control -> BOOLEAN]
      /\ last' = [last EXCEPT ![d] = last'[d]] \/ last' = last
      /\ shown' = [shown EXCEPT ![d] = shown'[d]] /\ known' = [known EXCEPT ![d] = known'[d]]
  BY DEF ReadEvent, FeedInv, TypeInv, SessionsOK
<1>3. d \in Control => shown'[d] \in Nat /\ shown'[d] <= seq /\ known'[d] \in Nat /\ known'[d] <= epoch
  BY ReadShows
<1>4. d \in Input => last'[d] \in Nat
  BY ReadGoesOn
<1>5. RoomOK'
  BY <1>1 DEF RoomOK, FeedInv, TypeInv
<1>6. SessionsOK'
  <2>1. shown' \in [Control -> Nat] /\ known' \in [Control -> Nat]
    BY <1>2, <1>3 DEF FeedInv, TypeInv, SessionsOK
  <2>2. last' \in [Input -> Nat]
    BY <1>2, <1>4 DEF FeedInv, TypeInv, SessionsOK
  <2>3. \A c \in Control : shown'[c] <= seq' /\ known'[c] <= epoch'
    BY <1>1, <1>2, <1>3, SocketFacts DEF FeedInv, TypeInv, SessionsOK, Sockets
  <2> QED
    BY <1>1, <1>2, <2>1, <2>2, <2>3 DEF FeedInv, TypeInv, SessionsOK
<1>7. QueuesOK'
  <2>1. ASSUME NEW c \in Sockets
        PROVE  /\ queue'[c] \in Seq(Event) /\ Len(queue'[c]) <= Cap
               /\ \A i \in 1..Len(queue'[c]) : queue'[c][i].epoch <= epoch
    <3>1. /\ queue[c] \in Seq(Event) /\ Len(queue[c]) <= Cap
          /\ \A i \in 1..Len(queue[c]) : queue[c][i].epoch <= epoch
      BY DEF FeedInv, TypeInv, QueuesOK
    <3>2. CASE c = d
      <4>1. queue'[c] = Tail(queue[c]) /\ queue[c] # << >>
        BY <1>1, <3>2 DEF FeedInv, TypeInv, QueuesOK
      <4>2. /\ Tail(queue[c]) \in Seq(Event) /\ Len(queue[c]) \in Nat \ {0}
            /\ Len(Tail(queue[c])) = Len(queue[c]) - 1
            /\ \A i \in 1..(Len(queue[c]) - 1) : Tail(queue[c])[i] = queue[c][i + 1]
        BY <3>1, <4>1, TailFacts
      <4>3. Len(queue[c]) - 1 <= Cap
        BY <3>1, <4>2, FeedAssumption
      <4>4. ASSUME NEW i \in 1..(Len(queue[c]) - 1) PROVE Tail(queue[c])[i].epoch <= epoch
        <5>1. i + 1 \in 1..Len(queue[c])
          BY <4>2
        <5> QED
          BY <3>1, <4>2, <5>1
      <4> QED
        BY <4>1, <4>2, <4>3, <4>4
    <3>3. CASE c # d
      <4>1. queue'[c] = queue[c]
        BY <1>1, <3>3 DEF FeedInv, TypeInv, QueuesOK
      <4> QED
        BY <3>1, <4>1
    <3> QED
      BY <3>2, <3>3
  <2>2. DOMAIN queue' = Sockets /\ queue' = [c \in Sockets |-> queue'[c]]
    BY <1>1 DEF FeedInv, TypeInv, QueuesOK
  <2>3. queue' \in [Sockets -> Seq(Event)]
    BY <2>1, <2>2
  <2> QED
    BY <1>1, <2>1, <2>3 DEF QueuesOK
<1>8. \A c \in Sockets \ {d} : queue'[c] = queue[c]
  BY <1>1 DEF FeedInv, TypeInv, QueuesOK
<1>9. ASSUME NEW c \in Control PROVE Ordered(c)' /\ Informed(c)'
  <2>1. CASE c = d
    BY <2>1, ReadShows
  <2>2. CASE c # d
    <3>1. queue'[c] = queue[c] /\ shown'[c] = shown[c] /\ told'[c] = told[c]
      BY <1>1, <1>2, <1>8, <2>2, SocketFacts DEF Sockets
    <3>2. Ordered(c) /\ Informed(c)
      BY DEF FeedInv
    <3> QED
      BY <1>1, <3>1, <3>2 DEF Ordered, Informed, NewestWaits, NoneWaits
  <2> QED
    BY <2>1, <2>2
<1>10. ASSUME NEW c \in Input PROVE InARow(c)'
  <2>1. CASE c = d
    BY <2>1, ReadGoesOn
  <2>2. CASE c # d
    <3>1. queue'[c] = queue[c] /\ last'[c] = last[c]
      BY <1>1, <1>2, <1>8, <2>2, SocketFacts DEF Sockets
    <3>2. InARow(c)
      BY DEF FeedInv
    <3> QED
      BY <1>1, <3>1, <3>2 DEF InARow
  <2> QED
    BY <2>1, <2>2
<1> QED
  BY <1>5, <1>6, <1>7, <1>9, <1>10 DEF FeedInv, TypeInv

\* The room changes: an event with a view for everybody, or one for somebody else.
LEMMA RoomStep ==
  ASSUME FeedInv, RoomChanges \/ RecordDebugEvent \/ RemoveRoom PROVE FeedInv'
<1>0. /\ seq \in Nat /\ seq <= MaxSeq /\ epoch \in Nat /\ epoch <= MaxEpoch /\ open \in BOOLEAN
      /\ phase \in [Sockets -> Phases] /\ last \in [Input -> Nat]
      /\ shown \in [Control -> Nat] /\ known \in [Control -> Nat]
  BY FeedAssumption DEF FeedInv, TypeInv, RoomOK, SessionsOK, Phases
<1>1. CASE RoomChanges
  <2>0. UNCHANGED <<open, inputs, phase, task, known, shown, told, last>>
    BY <1>1 DEF RoomChanges, client
  <2>1. CASE epoch' \in {epoch, epoch + 1} /\ epoch' <= MaxEpoch /\ Emit(TRUE, Control)
    <3>1. Control \in SUBSET Sockets
      BY DEF Sockets
    <3> QED
      BY <1>0, <2>0, <2>1, <3>1, EmitStep
  <2>2. CASE epoch' = epoch /\ Emit(FALSE, {})
    BY <1>0, <2>0, <2>2, EmitStep
  <2> QED
    BY <1>1, <2>1, <2>2 DEF RoomChanges
<1>2. CASE RecordDebugEvent
  <2>1. /\ UNCHANGED <<open, epoch, lastView, inputs, phase, queue, lagged, known, shown, told, last>>
        /\ seq' = seq + 1 /\ seq < MaxSeq
    BY <1>2 DEF RecordDebugEvent, session
  <2>2. seq' <= MaxSeq
    BY <1>0, <2>1, FeedAssumption
  <2>3. \A c \in Input : phase[c] # "new" \/ phase'[c] # "subscribed"
    BY <2>1
  <2> QED
    BY <1>0, <2>1, <2>2, <2>3, SilentStep
<1>3. CASE RemoveRoom
  <2>1. /\ UNCHANGED <<epoch, seq, lastView, inputs, phase, queue, lagged, known, shown, told, last>>
        /\ open' \in BOOLEAN
    BY <1>3 DEF RemoveRoom, session
  <2>2. \A c \in Input : phase[c] # "new" \/ phase'[c] # "subscribed"
    BY <2>1
  <2> QED
    BY <1>0, <2>1, <2>2, SilentStep
<1> QED
  BY <1>1, <1>2, <1>3

\* A step in the life of session d.
LEMMA LifeStep ==
  ASSUME FeedInv, NEW d \in Sockets,
         Subscribe(d) \/ Join(d) \/ JoinRefused(d) \/ EnterLoop(d) \/ LeaveLoop(d) \/ Disconnect(d)
  PROVE  FeedInv'
<1>0. /\ seq \in Nat /\ seq <= MaxSeq /\ epoch \in Nat /\ epoch <= MaxEpoch /\ open \in BOOLEAN
      /\ phase \in [Sockets -> Phases] /\ last \in [Input -> Nat] /\ inputs \in Nat
      /\ shown \in [Control -> Nat] /\ known \in [Control -> Nat]
  BY FeedAssumption DEF FeedInv, TypeInv, RoomOK, SessionsOK, Phases
<1>c. Control \in SUBSET Sockets
  BY DEF Sockets
<1>1. CASE Subscribe(d)
  <2>1. /\ UNCHANGED <<open, epoch, seq, lastView, inputs, queue, lagged, known, shown, told>>
        /\ phase[d] = "new" /\ phase' = [phase EXCEPT ![d] = "subscribed"]
        /\ last' = IF d \in Input THEN [last EXCEPT ![d] = inputs] ELSE last
    BY <1>1 DEF Subscribe
  <2>2. phase' \in [Sockets -> Phases] /\ last' \in [Input -> Nat]
    BY <1>0, <2>1 DEF Phases
  <2>3. \A c \in Sockets : phase'[c] = phase[c] \/ (phase[c] = "new" /\ phase'[c] = "subscribed")
    BY <1>0, <2>1
  <2>4. \A c \in Input : \/ last'[c] = last[c] /\ (phase[c] # "new" \/ phase'[c] # "subscribed")
                         \/ last'[c] = inputs /\ phase[c] = "new"
    BY <1>0, <2>1, SocketFacts
  <2> QED
    BY <1>0, <2>1, <2>2, <2>3, <2>4, SilentStep
<1>2. CASE Join(d)
  <2>1. /\ UNCHANGED <<open, inputs, told, last>> /\ phase[d] = "subscribed"
        /\ phase' = [phase EXCEPT ![d] = "joined"]
        /\ epoch' \in {epoch, epoch + 1} /\ epoch' <= MaxEpoch /\ Emit(TRUE, Control)
        /\ \/ /\ d \in Control
              /\ shown' = [shown EXCEPT ![d] = seq + 1] /\ known' = [known EXCEPT ![d] = epoch']
           \/ UNCHANGED <<shown, known>>
    BY <1>2 DEF Join
  <2>2. phase' \in [Sockets -> Phases]
    BY <1>0, <2>1 DEF Phases
  <2>3. \A c \in Sockets : phase'[c] = phase[c] \/ (phase[c] = "subscribed" /\ phase'[c] = "joined")
    BY <1>0, <2>1
  <2>4. epoch' \in Nat
    BY <1>0, <2>1
  <2>5. shown' \in [Control -> Nat] /\ known' \in [Control -> Nat]
    BY <1>0, <2>1, <2>4
  <2>6. \A c \in Control : \/ shown'[c] = shown[c] /\ known'[c] = known[c]
                           \/ shown'[c] = seq + 1 /\ known'[c] = epoch' /\ phase[c] = "subscribed"
    BY <1>0, <2>1
  <2> QED
    BY <1>c, <2>1, <2>2, <2>3, <2>5, <2>6, EmitStep
<1>3. CASE JoinRefused(d) \/ EnterLoop(d) \/ LeaveLoop(d)
  <2>1. /\ UNCHANGED <<open, epoch, seq, lastView, inputs, queue, lagged, known, shown, told, last>>
        /\ \/ phase' = [phase EXCEPT ![d] = "ended"]
           \/ phase' = [phase EXCEPT ![d] = "closing"]
           \/ phase' = [phase EXCEPT ![d] = "loop"] /\ phase[d] = "joined"
    BY <1>3 DEF JoinRefused, EnterLoop, LeaveLoop, client
  <2>2. phase' \in [Sockets -> Phases]
    BY <1>0, <2>1 DEF Phases
  <2>3. \A c \in Sockets : \/ phase'[c] = phase[c]
                           \/ phase[c] = "joined" /\ phase'[c] = "loop"
                           \/ phase'[c] \in {"closing", "ended"}
    BY <1>0, <2>1
  <2>4. \A c \in Input : phase[c] # "new" \/ phase'[c] # "subscribed"
    BY <2>3, SocketFacts
  <2> QED
    BY <1>0, <2>1, <2>2, <2>3, <2>4, SilentStep
<1>4. CASE Disconnect(d)
  <2>1. /\ phase' = [phase EXCEPT ![d] = "ended"]
        /\ UNCHANGED <<open, inputs, known, shown, told, last>>
    BY <1>4 DEF Disconnect, client
  <2>2. phase' \in [Sockets -> Phases]
    BY <1>0, <2>1 DEF Phases
  <2>3. \A c \in Sockets : phase'[c] = phase[c] \/ phase'[c] = "ended"
    BY <1>0, <2>1
  <2>4. CASE epoch' \in {epoch, epoch + 1} /\ epoch' <= MaxEpoch /\ Emit(TRUE, Control)
    BY <1>0, <1>c, <2>1, <2>2, <2>3, <2>4, EmitStep
  <2>5. CASE UNCHANGED <<epoch, seq, lastView, queue, lagged>>
    <3>1. \A c \in Input : phase[c] # "new" \/ phase'[c] # "subscribed"
      BY <2>3, SocketFacts
    <3> QED
      BY <1>0, <2>1, <2>2, <2>3, <2>5, <3>1, SilentStep
  <2> QED
    BY <1>4, <2>4, <2>5 DEF Disconnect
<1> QED
  BY <1>1, <1>2, <1>3, <1>4

\* A message of control session d: its epoch check and its operation.
LEMMA MessageStep ==
  ASSUME FeedInv, NEW d \in Control,
         ApplyMessage(d) \/ \E m \in Messages : \E e \in 1..known[d] : CheckEpochs(d, m, e)
  PROVE  FeedInv'
<1>0. /\ seq \in Nat /\ seq <= MaxSeq /\ epoch \in Nat /\ epoch <= MaxEpoch /\ open \in BOOLEAN
      /\ phase \in [Sockets -> Phases] /\ last \in [Input -> Nat]
      /\ shown \in [Control -> Nat] /\ known \in [Control -> Nat]
  BY FeedAssumption DEF FeedInv, TypeInv, RoomOK, SessionsOK, Phases
<1>1. CASE UNCHANGED <<open, epoch, seq, lastView, inputs, phase, queue, lagged, known, shown, told, last>>
  <2>1. \A c \in Input : phase[c] # "new" \/ phase'[c] # "subscribed"
    BY <1>1
  <2> QED
    BY <1>0, <1>1, <2>1, SilentStep
<1>2. CASE ApplyMessage(d)
  <2>1. UNCHANGED <<open, inputs, phase, known, shown, told, last>>
    BY <1>2 DEF ApplyMessage
  <2>2. CASE UNCHANGED <<epoch, seq, lastView, queue, lagged>>
    BY <1>1, <2>1, <2>2
  <2>3. ASSUME NEW k, NEW to, to \in Audience(d, k), Emit(HasView(k), to),
               epoch' \in {epoch, epoch + 1}, epoch' <= MaxEpoch
        PROVE  FeedInv'
    <3>1. HasView(k) => k \notin PeerEvents /\ k \notin GrantEvents
      BY DEF HasView, SetupEvents, RepairEvents, PeerEvents, GrantEvents
    <3>2. HasView(k) => to = Control
      BY <2>3, <3>1 DEF Audience
    <3>3. to \in SUBSET Sockets
      BY <2>3 DEF Audience, Sockets
    <3>4. HasView(k) \in BOOLEAN
      BY DEF HasView
    <3> QED
      BY <1>0, <2>1, <2>3, <3>2, <3>3, <3>4, EmitStep
  <2> QED
    BY <1>2, <2>2, <2>3 DEF ApplyMessage
<1>3. ASSUME NEW m, NEW e, CheckEpochs(d, m, e) PROVE FeedInv'
  BY <1>1, <1>3 DEF CheckEpochs
<1> QED
  BY <1>2, <1>3

\* Every step keeps the invariant.
LEMMA InvStep == FeedInv /\ [Next]_vars => FeedInv'
<1> SUFFICES ASSUME FeedInv, [Next]_vars PROVE FeedInv'
  OBVIOUS
<1>1. CASE UNCHANGED vars
  BY <1>1 DEF vars, FeedInv, TypeInv, RoomOK, SessionsOK, QueuesOK, Ordered, Informed, NewestWaits,
              NoneWaits, InARow
<1>2. CASE ServerFrame
  BY <1>2, EmitInputStep DEF ServerFrame, Sockets
<1>3. CASE RoomChanges \/ RecordDebugEvent \/ RemoveRoom
  BY <1>3, RoomStep
<1>4. ASSUME NEW c \in Sockets,
             \/ Subscribe(c) \/ Join(c) \/ JoinRefused(c) \/ EnterLoop(c) \/ Disconnect(c)
             \/ ReadLag(c) \/ ReadEvent(c) \/ ReadClosed(c)
      PROVE  FeedInv'
  BY <1>4, LifeStep, ReadLagStep, ReadEventStep DEF ReadClosed
<1>5. ASSUME NEW c \in Input, RelayBatch(c) \/ InputEnds(c) PROVE FeedInv'
  <2>1. c \in Sockets /\ Input \ {c} \in SUBSET Sockets
    BY SocketFacts DEF Sockets
  <2> QED
    BY <1>5, <2>1, EmitInputStep, LifeStep DEF RelayBatch, InputEnds
<1>6. ASSUME NEW c \in Control,
             \/ ApplyMessage(c) \/ PeerCloses(c)
             \/ \E m \in Messages : \E e \in 1..known[c] : CheckEpochs(c, m, e)
      PROVE  FeedInv'
  BY <1>6, MessageStep, LifeStep, SocketFacts DEF PeerCloses
<1> QED
  BY <1>1, <1>2, <1>3, <1>4, <1>5, <1>6, Zenon DEF Next

-----------------------------------------------------------------------------
(* The theorems.                                                           *)

\* A client that has read its channel shows the newest state of the room or was told that it
\* missed some, for any number of sockets and any capacity: subscribing before the join
\* leaves no update in between (handle_websocket_session, handle_room_event).
THEOREM ClientsShowNewest == Spec => []ShowsNewest
<1>1. Spec => []FeedInv
  BY InitInv, InvStep, PTL DEF Spec
<1> QED
  BY <1>1, InvImplies, PTL

\* Only a read moves the cursor of a looping input session.
LEMMA CursorStep ==
  ASSUME FeedInv, Next, NEW c \in Input, phase[c] = "loop"
  PROVE  last'[c] = last[c] \/ last'[c] = last[c] + 1
<1>1. ASSUME NEW d \in Sockets, ReadEvent(d) PROVE last'[c] = last[c] \/ last'[c] = last[c] + 1
  <2>1. CASE d = c
    BY <1>1, <2>1, ReadGoesOn
  <2>2. CASE d # c
    BY <1>1, <2>2 DEF ReadEvent, FeedInv, TypeInv, SessionsOK
  <2> QED
    BY <2>1, <2>2
<1>2. ASSUME NEW d \in Sockets, Subscribe(d) PROVE last'[c] = last[c]
  BY <1>2 DEF Subscribe, FeedInv, TypeInv, SessionsOK
<1>3. ASSUME NEW d \in Sockets,
             Join(d) \/ JoinRefused(d) \/ EnterLoop(d) \/ Disconnect(d) \/ ReadLag(d) \/ LeaveLoop(d)
      PROVE  last' = last
  BY <1>3 DEF Join, JoinRefused, EnterLoop, Disconnect, ReadLag, LeaveLoop, client
<1>4. CASE ServerFrame \/ RoomChanges \/ RecordDebugEvent \/ RemoveRoom
  BY <1>4 DEF ServerFrame, EmitInput, RoomChanges, RecordDebugEvent, RemoveRoom, client, session
<1>5. ASSUME NEW d \in Input, RelayBatch(d) PROVE last' = last
  BY <1>5 DEF RelayBatch, EmitInput, client
<1>6. ASSUME NEW d \in Control, ApplyMessage(d) PROVE last' = last
  BY <1>6 DEF ApplyMessage
<1>7. ASSUME NEW d, NEW m, NEW e, CheckEpochs(d, m, e) PROVE last' = last
  BY <1>7 DEF CheckEpochs
<1>8. ASSUME NEW d \in Sockets, ReadClosed(d) \/ InputEnds(d) \/ PeerCloses(d) PROVE last' = last
  BY <1>3, <1>8 DEF ReadClosed, InputEnds, PeerCloses
<1> QED
  BY <1>1, <1>2, <1>3, <1>4, <1>5, <1>6, <1>7, <1>8, SocketFacts, Zenon DEF Next

\* No step moves the cursor of a looping input session past an event it has not read: a
\* session that lagged closes instead (handle_websocket_input_session).
THEOREM InputSessionsReadWithoutGap == Spec => NoInputGap
<1>1. Spec => []FeedInv
  BY InitInv, InvStep, PTL DEF Spec
<1>2. ASSUME FeedInv, [Next]_vars
      PROVE  [\A c \in Input : last'[c] > last[c] /\ phase[c] = "loop" => last'[c] = last[c] + 1]_vars
  <2> SUFFICES ASSUME Next, NEW c \in Input, last'[c] > last[c], phase[c] = "loop"
               PROVE  last'[c] = last[c] + 1
    BY <1>2
  <2>1. last[c] \in Nat
    BY <1>2 DEF FeedInv, TypeInv, SessionsOK
  <2>2. last'[c] = last[c] \/ last'[c] = last[c] + 1
    BY <1>2, CursorStep
  <2> QED
    BY <2>1, <2>2
<1> QED
  BY <1>1, <1>2, PTL DEF Spec, NoInputGap
=============================================================================
