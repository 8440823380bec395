------------------------------ MODULE EtelBuffer ------------------------------
(***************************************************************************)
(* The circular buffer (CBuffer) of the entry of a re-posted request, as   *)
(* the TSY's events and the client's requests move it.                     *)
(* Source: telephonyserver/etelserverandcore/SETEL/ET_PHONE.CPP.  All the  *)
(* entries that share a notification have a buffer of their own and take   *)
(* the same events; EtelRequests keeps the number of unread slots only.    *)
(***************************************************************************)
EXTENDS Naturals, Sequences

CONSTANTS
  Value,   \* what the TSY may report
  Slots    \* NumberOfSlotsL of the request

ASSUME SlotsPositive == Slots \in Nat \ {0}

VARIABLES
  slot,           \* iBuf8 or iBuf16: the data of each slot
  read, write,    \* iRead, iWrite
  overFlow,       \* iOverFlow
  bufferFull,     \* iBufferFull
  readByClient,   \* iReadByClient of the entry
  nulled,         \* iMessageNulled of the entry
  delivered       \* client: data and error of its last completion

buffer == <<slot, read, write, overFlow, bufferFull>>
vars == <<buffer, readByClient, nulled, delivered>>

\* NewReqL: the client's first request, just posted.
Init ==
  /\ slot \in [0..Slots - 1 -> Value]
  /\ read = 0 /\ write = 0 /\ overFlow = FALSE /\ bufferFull = FALSE
  /\ readByClient = TRUE /\ nulled = FALSE
  /\ delivered = <<>>

After(p) == IF p + 1 = Slots THEN 0 ELSE p + 1

IncRead ==
  /\ read' = After(read)
  /\ overFlow' = FALSE /\ bufferFull' = FALSE

\* IncWrite after the TSY has written v into the slot it was given.
IncWrite(v) ==
  /\ slot' = [slot EXCEPT ![write] = v]
  /\ write' = After(write)
  /\ bufferFull' = (bufferFull \/ (~overFlow /\ After(write) = read))
  /\ overFlow' = (overFlow \/ bufferFull)
  /\ read' = IF overFlow \/ bufferFull THEN After(write) ELSE read

\* WriteBackAndCompleteBufferedReq from slot contents d, with error e.
WriteBack(d, e) ==
  /\ delivered' = <<d[read], e>>
  /\ readByClient' = TRUE /\ nulled' = TRUE

\* ReqCompleted with KErrNone: IncWrite, then UpdateAndCompleteIfNecessary.
\* When the client waits its buffer is empty: IncWrite leaves iRead alone, and
\* IncRead clears what IncWrite sets.
EventBuffered(v) ==
  /\ nulled
  /\ IncWrite(v)
  /\ readByClient' = FALSE
  /\ UNCHANGED <<nulled, delivered>>

EventCompleted(v) ==
  /\ ~nulled
  /\ slot' = [slot EXCEPT ![write] = v]
  /\ write' = After(write)
  /\ WriteBack(slot', "KErrNone")
  /\ IncRead

\* CompleteOrBufferRead: is there nothing the client has not read?
Unfilled == read = write                                         \* mutant
Empty == IF Slots > 1 THEN read = write /\ ~bufferFull ELSE readByClient

\* A request of other descriptor sizes (~same) gets the buffered value too, but
\* with KErrOverflow; on an empty buffer it cancels the entry (not modelled).
ReadBuffered(same) ==
  /\ nulled /\ ~Empty
  /\ WriteBack(slot, IF (overFlow /\ Slots > 1) \/ ~same
                     THEN "KErrOverflow" ELSE "KErrNone")
  /\ IncRead
  /\ UNCHANGED <<slot, write>>

ReArm ==
  /\ nulled /\ Empty
  /\ nulled' = FALSE
  /\ UNCHANGED <<buffer, readByClient, delivered>>

Next ==
  \/ \E v \in Value : EventBuffered(v) \/ EventCompleted(v)
  \/ \E same \in BOOLEAN : ReadBuffered(same)
  \/ ReArm

Spec == Init /\ [][Next]_vars

-----------------------------------------------------------------------------
\* The flags agree with the two positions, a client only waits on an empty
\* buffer, and the two ways CompleteOrBufferRead has to find a buffer empty (the
\* positions, and iReadByClient for a single slot) agree.
FlagsConsistent ==
  /\ slot \in [0..Slots - 1 -> Value]
  /\ read \in 0..Slots - 1 /\ write \in 0..Slots - 1
  /\ {overFlow, bufferFull, readByClient, nulled} \subseteq BOOLEAN
  /\ overFlow => bufferFull
  /\ bufferFull => read = write
  /\ ~nulled => read = write /\ ~bufferFull
  /\ Slots = 1 => readByClient = ~bufferFull

\* The number of filled slots, the i-th of them and what they hold.
Unread == IF bufferFull THEN Slots
          ELSE IF read <= write THEN write - read ELSE write + Slots - read
Position(i) == IF read + i <= Slots THEN read + i - 1 ELSE read + i - 1 - Slots
Filled == [i \in 1..Unread |-> slot[Position(i)]]

\* The buffer implements the queue: the client reads the events in the order they
\* came, the oldest are the ones that are dropped, and KErrOverflow is reported
\* with the first event read after a loss and never otherwise.
Queue == INSTANCE NotificationQueue
           WITH queue <- Filled, lost <- overFlow, waiting <- ~nulled
ImplementsQueue == Queue!Spec
=============================================================================
