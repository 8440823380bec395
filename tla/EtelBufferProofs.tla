-------------------------- MODULE EtelBufferProofs --------------------------
(***************************************************************************)
(* Proofs about EtelBuffer, for every number of slots.                     *)
(***************************************************************************)
EXTENDS EtelBuffer, SequenceTheorems, TLAPS

LEMMA AfterType ==
  ASSUME NEW p \in 0..Slots - 1
  PROVE  After(p) \in 0..Slots - 1 /\ (Slots = 1 => p = 0 /\ After(p) = 0)
  BY SlotsPositive DEF After

LEMMA FlagsStep == FlagsConsistent /\ [Next]_vars => FlagsConsistent'
<1> SUFFICES ASSUME FlagsConsistent, [Next]_vars PROVE FlagsConsistent'
  OBVIOUS
<1> USE SlotsPositive DEF FlagsConsistent
<1>1. /\ After(read) \in 0..Slots - 1 /\ After(write) \in 0..Slots - 1
      /\ Slots = 1 => /\ read = 0 /\ After(read) = 0
                      /\ write = 0 /\ After(write) = 0
  BY AfterType
<1>2. ASSUME NEW v \in Value, EventBuffered(v) PROVE FlagsConsistent'
  BY <1>1, <1>2 DEF EventBuffered, IncWrite
<1>3. ASSUME NEW v \in Value, EventCompleted(v) PROVE FlagsConsistent'
  BY <1>1, <1>3 DEF EventCompleted, WriteBack, IncRead
<1>4. ASSUME NEW same \in BOOLEAN, ReadBuffered(same) PROVE FlagsConsistent'
  <2>1. /\ read' = After(read) /\ UNCHANGED <<slot, write>>
        /\ overFlow' = FALSE /\ bufferFull' = FALSE
        /\ readByClient' = TRUE /\ nulled' = TRUE
    BY <1>4 DEF ReadBuffered, WriteBack, IncRead
  <2>2. {overFlow, bufferFull, readByClient, nulled}' \subseteq BOOLEAN
    BY <2>1
  <2>3. Slots = 1 => readByClient' = ~bufferFull'
    BY <2>1
  <2> QED  BY <2>1, <2>2, <2>3, <1>1
<1>5. CASE ReArm
  <2>1. read = write /\ ~bufferFull
    <3>1. CASE Slots > 1
      BY <3>1, <1>5 DEF ReArm, Empty
    <3>2. CASE Slots = 1
      <4>1. readByClient /\ readByClient = ~bufferFull
        BY <3>2, <1>5 DEF ReArm, Empty
      <4> QED  BY <4>1, <3>2, <1>1
    <3> QED  BY <3>1, <3>2
  <2>2. /\ UNCHANGED <<buffer, readByClient>> /\ nulled' = FALSE
    BY <1>5 DEF ReArm
  <2> QED  BY <2>1, <2>2 DEF buffer
<1> QED  BY <1>2, <1>3, <1>4, <1>5 DEF Next, vars, buffer

\* For any number of slots, the buffer's flags agree with its positions, and a client
\* that waits waits on an empty buffer.
THEOREM FlagsAlwaysConsistent == Spec => []FlagsConsistent
<1>1. Init => FlagsConsistent
  BY SlotsPositive DEF Init, FlagsConsistent
<1> QED  BY <1>1, FlagsStep, PTL DEF Spec

-----------------------------------------------------------------------------
\* The filled slots as a sequence.
FilledIsSeq ==
  /\ Unread \in 0..Slots
  /\ \A i \in 1..Unread : Position(i) \in 0..Slots - 1
  /\ Filled \in Seq(Value) /\ Len(Filled) = Unread
  /\ \A i \in 1..Unread : Filled[i] = slot[Position(i)]

LEMMA FilledSeq == FlagsConsistent => FilledIsSeq
<1> SUFFICES ASSUME FlagsConsistent PROVE FilledIsSeq
  OBVIOUS
<1>1. Unread \in 0..Slots
  BY SlotsPositive DEF FlagsConsistent, Unread
<1>2. \A i \in 1..Unread : Position(i) \in 0..Slots - 1
  BY <1>1, SlotsPositive DEF FlagsConsistent, Position
<1> DEFINE n == Unread
<1>3. n \in Nat /\ Filled \in [1..n -> Value]
  BY <1>1, <1>2, SlotsPositive DEF FlagsConsistent, Filled
<1>4. \A i \in 1..Unread : Filled[i] = slot[Position(i)]
  BY DEF Filled
<1> HIDE DEF n
<1>5. Filled \in Seq(Value) /\ Len(Filled) = n
  BY <1>3
<1> QED  BY <1>1, <1>2, <1>4, <1>5 DEF n, FilledIsSeq

\* The next value goes behind the filled slots, which stay where they are; a full
\* buffer gives up the oldest.
LEMMA BufferEvent ==
  ASSUME FlagsConsistent, FlagsConsistent', NEW v \in Value, EventBuffered(v)
  PROVE  Queue!Event(v)
<1> USE SlotsPositive
<1>1. FilledIsSeq
  BY FilledSeq
<1>2. FilledIsSeq'
  BY FilledSeq, PTL
<1>3. /\ write \in 0..Slots - 1 /\ read \in 0..Slots - 1 /\ slot \in [0..Slots - 1 -> Value]
      /\ slot' = [slot EXCEPT ![write] = v] /\ write' = After(write)
      /\ nulled /\ nulled' = nulled /\ delivered' = delivered
  BY DEF EventBuffered, IncWrite, FlagsConsistent
<1>4. CASE ~bufferFull
  <2>1. overFlow' = overFlow /\ read' = read /\ bufferFull' = (After(write) = read)
    BY <1>4 DEF EventBuffered, IncWrite, FlagsConsistent
  <2>0. PICK n : n = Unread
    OBVIOUS
  <2>2. n \in Nat /\ n < Slots /\ Unread' = n + 1
    <3>1. n = (IF read <= write THEN write - read ELSE write + Slots - read)
      BY <2>0, <1>3, <1>4 DEF Unread
    <3>2. n \in Nat /\ n < Slots
      BY <3>1, <1>3
    <3>3. CASE After(write) = read
      <4>1. Unread' = Slots
        BY <3>3, <2>1 DEF Unread
      <4>2. n = Slots - 1
        BY <3>1, <3>3, <1>3 DEF After
      <4> QED  BY <4>1, <4>2, <3>2
    <3>4. CASE After(write) # read
      <4>1. ~bufferFull'
        BY <3>4, <2>1
      <4>2. Unread' = IF read <= After(write) THEN After(write) - read
                                             ELSE After(write) + Slots - read
        BY <4>1, <2>1, <1>3 DEF Unread
      <4> QED  BY <4>2, <3>1, <3>4, <1>3 DEF After
    <3> QED  BY <3>2, <3>3, <3>4
  <2>3. \A i \in 1..n : Position(i)' = Position(i) /\ Position(i) # write
    BY <2>1, <1>3, <1>4, <2>0, <1>1 DEF Position, Unread, FilledIsSeq
  <2>4. Position(n + 1)' = write
    BY <2>1, <1>3, <1>4, <2>0, <1>1 DEF Position, Unread, FilledIsSeq
  <2>5. Append(Filled, v) \in Seq(Value) /\ Len(Append(Filled, v)) = n + 1
        /\ \A i \in 1..n : Append(Filled, v)[i] = Filled[i]
        /\ Append(Filled, v)[n + 1] = v
    BY <2>0, <1>1 DEF FilledIsSeq
  <2>6. \A i \in 1..n + 1 : Filled'[i] = Append(Filled, v)[i]
    BY <2>2, <2>3, <2>4, <2>5, <2>0, <1>1, <1>2, <1>3 DEF FilledIsSeq
  <2>7. Filled' = Append(Filled, v)
    BY <2>2, <2>5, <2>6, <1>2, SeqEqual DEF FilledIsSeq
  <2> QED  BY <2>1, <2>2, <2>7, <2>0, <1>1, <1>3 DEF Queue!Event, FilledIsSeq
<1>5. CASE bufferFull
  <2>1. read = write /\ read' = After(write) /\ overFlow' = TRUE /\ bufferFull' = TRUE
    BY <1>5 DEF EventBuffered, IncWrite, FlagsConsistent
  <2>2. Unread = Slots /\ Unread' = Slots
    BY <2>1, <1>5 DEF Unread
  <2>3. \A i \in 1..Slots - 1 : Position(i)' = Position(i + 1) /\ Position(i + 1) # write
    BY <2>1, <1>3 DEF Position, After
  <2>4. Position(Slots)' = write
    BY <2>1, <1>3 DEF Position, After
  <2> DEFINE t == Tail(Filled)
  <2>5. /\ t \in Seq(Value) /\ Len(t) = Slots - 1
        /\ \A i \in 1..Slots - 1 : t[i] = Filled[i + 1]
    BY <2>2, <1>1, HeadTailProperties DEF FilledIsSeq
  <2> HIDE DEF t
  <2>6. Append(t, v) \in Seq(Value) /\ Len(Append(t, v)) = Slots
        /\ \A i \in 1..Slots - 1 : Append(t, v)[i] = t[i]
        /\ Append(t, v)[Slots] = v
    BY <2>5
  <2>7. \A i \in 1..Slots : Filled'[i] = Append(t, v)[i]
    BY <2>2, <2>3, <2>4, <2>5, <2>6, <1>1, <1>2, <1>3 DEF FilledIsSeq
  <2>8. Filled' = Append(t, v)
    BY <2>2, <2>6, <2>7, <1>2, SeqEqual DEF FilledIsSeq
  <2>9. ~(Len(Filled) < Slots) /\ Filled' = Append(Tail(Filled), v) /\ overFlow' = TRUE
    BY <2>1, <2>2, <2>8, <1>1 DEF FilledIsSeq, t
  <2> QED  BY <2>9, <1>3 DEF Queue!Event
<1> QED  BY <1>4, <1>5 DEF FlagsConsistent

\* A waiting client's buffer is empty and stays empty.
LEMMA BufferCompleted ==
  ASSUME FlagsConsistent, FlagsConsistent', NEW v \in Value, EventCompleted(v)
  PROVE  Queue!Event(v)
<1>1. FilledIsSeq /\ FilledIsSeq'
  BY FilledSeq, PTL
<1>2. /\ ~nulled /\ nulled' = TRUE /\ overFlow' = FALSE /\ bufferFull' = FALSE
      /\ read = write /\ ~bufferFull /\ read' = write'
      /\ write \in 0..Slots - 1
      /\ write' \in 0..Slots - 1 /\ overFlow = FALSE
      /\ slot' = [slot EXCEPT ![write] = v] /\ slot \in [0..Slots - 1 -> Value]
      /\ delivered' = <<slot'[read], "KErrNone">>
  BY DEF EventCompleted, WriteBack, IncRead, FlagsConsistent
<1>3. Unread = 0 /\ Unread' = 0
  <2>1. PICK p : p = write'
    OBVIOUS
  <2>2. p \in 0..Slots - 1 /\ read' = p /\ ~bufferFull'
    BY <2>1, <1>2
  <2>3. Unread' = p - p
    BY <2>1, <2>2, SlotsPositive DEF Unread
  <2>4. Unread = write - write
    BY <1>2, SlotsPositive DEF Unread
  <2>5. p \in Int /\ write \in Int
    BY <2>2, <1>2, SlotsPositive
  <2>6. p - p = 0 /\ write - write = 0
    BY <2>5
  <2> QED  BY <2>3, <2>4, <2>6
<1>4. Filled = <<>> /\ Filled' = <<>>
  BY <1>1, <1>3, EmptySeq DEF FilledIsSeq
<1>5. delivered' = <<v, "KErrNone">>
  BY <1>2
<1> QED  BY <1>2, <1>4, <1>5 DEF Queue!Event

\* The client takes the oldest of the filled slots.
LEMMA BufferRead ==
  ASSUME FlagsConsistent, FlagsConsistent', NEW same \in BOOLEAN, ReadBuffered(same)
  PROVE  Queue!Read(same)
<1> USE SlotsPositive
<1>1. FilledIsSeq /\ FilledIsSeq'
  BY FilledSeq, PTL
<1>2. /\ nulled = TRUE /\ nulled' = TRUE /\ overFlow' = FALSE /\ bufferFull' = FALSE
      /\ read' = After(read) /\ write' = write /\ slot' = slot
      /\ delivered' = <<slot[read], IF (overFlow /\ Slots > 1) \/ ~same
                                    THEN "KErrOverflow" ELSE "KErrNone">>
      /\ read \in 0..Slots - 1 /\ write \in 0..Slots - 1
  BY DEF ReadBuffered, WriteBack, IncRead, FlagsConsistent
<1>3. bufferFull \/ read # write
  <2>1. CASE Slots > 1
    BY <2>1 DEF ReadBuffered, Empty
  <2>2. CASE Slots = 1
    <3>1. ~readByClient /\ readByClient = ~bufferFull
      BY <2>2 DEF ReadBuffered, Empty, FlagsConsistent
    <3> QED  BY <3>1
  <2> QED  BY <2>1, <2>2
<1>4. PICK n : n = Unread
  OBVIOUS
<1>5. n \in 1..Slots /\ Unread' = n - 1
  <2>1. CASE bufferFull
    <3>1. read = write /\ n = Slots
      BY <2>1, <1>4 DEF FlagsConsistent, Unread
    <3> QED  BY <3>1, <1>2 DEF Unread, After
  <2>2. CASE ~bufferFull
    <3>1. n = IF read <= write THEN write - read ELSE write + Slots - read
      BY <2>2, <1>2, <1>4 DEF Unread
    <3>2. Unread' = IF After(read) <= write THEN write - After(read)
                                            ELSE write + Slots - After(read)
      BY <1>2 DEF Unread
    <3> QED  BY <3>1, <3>2, <2>2, <1>2, <1>3 DEF After
  <2> QED  BY <2>1, <2>2
<1>6. /\ Position(1) = read
      /\ \A i \in 1..n - 1 : Position(i)' = Position(i + 1)
  BY <1>2, <1>5 DEF Position, After
<1> DEFINE t == Tail(Filled)
<1>7. /\ Filled # <<>> /\ Head(Filled) = slot[read]
      /\ t \in Seq(Value) /\ Len(t) = n - 1
      /\ \A i \in 1..n - 1 : t[i] = Filled[i + 1]
  BY <1>1, <1>4, <1>5, <1>6, EmptySeq, HeadTailProperties DEF FilledIsSeq
<1> HIDE DEF t
<1>8. ASSUME NEW i \in 1..n - 1 PROVE Filled'[i] = t[i]
  <2>1. i \in 1..Unread' /\ i + 1 \in 1..Unread
    BY <1>4, <1>5
  <2>2. Filled'[i] = slot[Position(i)'] /\ Filled[i + 1] = slot[Position(i + 1)]
    BY <2>1, <1>1, <1>2 DEF FilledIsSeq
  <2> QED  BY <2>2, <1>6, <1>7
<1>9. Filled' = t
  BY <1>1, <1>5, <1>7, <1>8, SeqEqual DEF FilledIsSeq
<1> QED  BY <1>2, <1>7, <1>9 DEF Queue!Read, t

LEMMA BufferReArm ==
  ASSUME FlagsConsistent, FlagsConsistent', ReArm PROVE Queue!Await
<1>1. FilledIsSeq
  BY FilledSeq
<1>2. /\ nulled = TRUE /\ nulled' = FALSE
      /\ UNCHANGED <<slot, read, write, overFlow, bufferFull, delivered>>
  BY DEF ReArm, buffer, FlagsConsistent
<1>3. Unread = 0
  BY <1>2, SlotsPositive DEF FlagsConsistent, Unread
<1>4. Filled = <<>> /\ Filled' = Filled
  BY <1>1, <1>2, <1>3, EmptySeq DEF FilledIsSeq, Filled, Unread, Position
<1> QED  BY <1>2, <1>4 DEF Queue!Await

\* For any number of slots the circular buffer implements the queue: a client reads
\* the events in their order, only the oldest are lost, and it is told of a loss.
THEOREM BufferImplementsQueue == Spec => ImplementsQueue
<1>1. Init => Queue!Init
  <2> SUFFICES ASSUME Init PROVE Queue!Init
    OBVIOUS
  <2>1. FlagsConsistent /\ FilledIsSeq /\ Unread = 0
    <3>1. FlagsConsistent
      BY SlotsPositive DEF Init, FlagsConsistent
    <3> QED  BY <3>1, FilledSeq, SlotsPositive DEF Init, Unread
  <2>2. Filled = <<>>
    BY <2>1, EmptySeq DEF FilledIsSeq
  <2> QED  BY <2>2 DEF Init, Queue!Init
<1>2. FlagsConsistent /\ FlagsConsistent' /\ [Next]_vars => [Queue!Next]_(Queue!vars)
  <2> SUFFICES ASSUME FlagsConsistent, FlagsConsistent', [Next]_vars
               PROVE  [Queue!Next]_(Queue!vars)
    OBVIOUS
  <2>1. CASE UNCHANGED vars
    BY <2>1 DEF vars, buffer, Queue!vars, Filled, Unread, Position
  <2> QED  BY <2>1, BufferEvent, BufferCompleted, BufferRead, BufferReArm DEF Next, Queue!Next
<1> QED  BY <1>1, <1>2, FlagsAlwaysConsistent, PTL DEF Spec, ImplementsQueue, Queue!Spec
=============================================================================
