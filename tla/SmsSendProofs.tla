---------------------------- MODULE SmsSendProofs ----------------------------
(***************************************************************************)
(* Proofs about SmsSend, for every set of clients, messages of any number  *)
(* of PDUs, and every set of faults.                                       *)
(***************************************************************************)
EXTENDS SmsSend, SequenceTheorems, TLAPS

\* The message of a client is in the queue once, and its client waits.
QueueInv ==
  /\ \A n \in 1..Len(queue) : answer[queue[n]] = "waiting"
  /\ \A m, n \in 1..Len(queue) : queue[m] = queue[n] => m = n

\* The machine works for the first of an active queue, which it has not completed.
FlowInv ==
  /\ active => queue # <<>>
  /\ signal # None => active /\ st = "Idle"
  /\ st # "Idle" => active /\ queue # <<>> /\ cur = Head(queue)
OnInv == alive /\ active => on

\* As long as nothing has failed the store knows how much has been sent.
Working ==
  \/ st = "SendPDU"
  \/ st \in {"Segmenting", "UpdatingStore"} /\ status = "ok"
  \/ st = "UpdatingLog" /\ sendError = "ok"
WorkInv ==
  /\ Working => encoded = Size[cur] /\ store[cur] = sent /\ sent <= Size[cur]
  /\ st = "SendPDU" => sent < encoded

\* What the store says has gone has been accepted, and nothing else, unless
\* something could not be recorded.
RecordInv ==
  \A c \in Client :
    /\ accepted[c] \subseteq 1..Size[c]
    /\ store[c] # None => /\ store[c] \in 0..Size[c] /\ 1..store[c] \subseteq accepted[c]
                          /\ c \in unrecorded \/ accepted[c] = 1..store[c]

OkInv ==
  /\ \A c \in Client : answer[c] = "ok" => accepted[c] = 1..Size[c]
  /\ signal = "ok" => accepted[Head(queue)] = 1..Size[Head(queue)]

SendInv == SendTypeOK /\ QueueInv /\ FlowInv /\ WorkInv /\ RecordInv /\ OkInv

-----------------------------------------------------------------------------
\* The queue without the message of a client.
LEMMA WithoutSeq ==
  ASSUME NEW q \in Seq(Client), NEW c \in Client
  PROVE  /\ Without(q, c) \in Seq(Client)
         /\ \A n \in 1..Len(Without(q, c)) : \E m \in 1..Len(q) :
              Without(q, c)[n] = q[m]
         /\ q # <<>> /\ Head(q) # c => Without(q, c) # <<>> /\ Head(Without(q, c)) = Head(q)
         /\ (\A m, n \in 1..Len(q) : q[m] = q[n] => m = n) =>
              /\ \A m, n \in 1..Len(Without(q, c)) :
                   Without(q, c)[m] = Without(q, c)[n] => m = n
              /\ \A n \in 1..Len(Without(q, c)) : Without(q, c)[n] # c
<1> DEFINE w == Without(q, c)
<1>1. CASE c \notin Range(q)
  <2>1. w = q
    BY <1>1 DEF Without
  <2>2. \A n \in 1..Len(q) : q[n] # c
    BY <1>1 DEF Range
  <2> HIDE DEF w
  <2>3. w # <<>> => w[1] = Head(w)
    BY <2>1
  <2> QED  BY <2>1, <2>2, <2>3 DEF w
<1>2. CASE c \in Range(q)
  <2> DEFINE k == CHOOSE n \in DOMAIN q : q[n] = c
  <2>1. k \in 1..Len(q) /\ q[k] = c
    BY <1>2 DEF Range
  <2>2. w = SubSeq(q, 1, k - 1) \o SubSeq(q, k + 1, Len(q))
    BY <1>2 DEF Without, RemoveAt
  <2> HIDE DEF k, w
  <2> DEFINE a == SubSeq(q, 1, k - 1)
             b == SubSeq(q, k + 1, Len(q))
  <2>a. Len(q) \in Nat /\ k \in Nat /\ k > 0 /\ k <= Len(q)
    BY <2>1
  <2>b. a \in Seq(Client) /\ Len(a) = k - 1 /\ \A n \in 1..Len(a) : a[n] = q[n]
    BY <2>a
  <2>c. b \in Seq(Client) /\ Len(b) = Len(q) - k /\ \A n \in 1..Len(b) : b[n] = q[k + n]
    BY <2>a
  <2>d. w = a \o b
    BY <2>2
  <2> HIDE DEF a, b
  <2>3. w \in Seq(Client) /\ Len(w) = Len(q) - 1
    BY <2>a, <2>b, <2>c, <2>d
  <2>4. ASSUME NEW n \in 1..Len(w) PROVE w[n] = IF n < k THEN q[n] ELSE q[n + 1]
    <3>1. CASE n < k
      BY <2>a, <2>b, <2>c, <2>d, <2>3, <3>1
    <3>2. CASE ~(n < k)
      <4>1. n - Len(a) \in 1..Len(b) /\ w[n] = b[n - Len(a)]
        BY <2>a, <2>b, <2>c, <2>d, <2>3, <3>2
      <4>2. k + (n - Len(a)) = n + 1
        BY <2>a, <2>b
      <4> QED  BY <2>c, <3>2, <4>1, <4>2
    <3> QED  BY <3>1, <3>2
  <2>5. \A n \in 1..Len(w) : \E m \in 1..Len(q) : w[n] = q[m] /\ m # k
    <3> TAKE n \in 1..Len(w)
    <3>1. CASE n < k
      BY <2>1, <2>3, <2>4, <3>1
    <3>2. CASE ~(n < k)
      <4>1. w[n] = q[n + 1] /\ n + 1 \in 1..Len(q) /\ n + 1 # k
        BY <2>1, <2>3, <2>4, <3>2
      <4> QED  BY <4>1
    <3> QED  BY <3>1, <3>2
  <2>6. ASSUME q # <<>>, Head(q) # c PROVE w # <<>> /\ Head(w) = Head(q)
    <3>1. k # 1 /\ Len(w) >= 1
      BY <2>1, <2>3, <2>6
    <3>2. w[1] = q[1]
      BY <2>1, <2>4, <3>1
    <3> QED  BY <2>3, <2>6, <3>1, <3>2
  <2>7. ASSUME \A m, n \in 1..Len(q) : q[m] = q[n] => m = n
        PROVE  /\ \A m, n \in 1..Len(w) : w[m] = w[n] => m = n
               /\ \A n \in 1..Len(w) : w[n] # c
    <3>1. \A n \in 1..Len(w) : w[n] # c
      BY <2>1, <2>5, <2>7
    <3>2. ASSUME NEW m \in 1..Len(w), NEW n \in 1..Len(w), w[m] = w[n] PROVE m = n
      <4> DEFINE up(i) == IF i < k THEN i ELSE i + 1
      <4>1. up(m) \in 1..Len(q) /\ up(n) \in 1..Len(q) /\ w[m] = q[up(m)] /\ w[n] = q[up(n)]
        BY <2>1, <2>3, <2>4
      <4>2. up(m) = up(n)
        BY <2>7, <3>2, <4>1
      <4> QED  BY <2>1, <4>2
    <3> QED  BY <3>1, <3>2
  <2> QED  BY <2>3, <2>5, <2>6, <2>7 DEF w
<1> QED  BY <1>1, <1>2

-----------------------------------------------------------------------------
\* Steps of the machine.  Its message is the first of the queue, and its client waits.
LEMMA Busy ==
  ASSUME SendInv, st # "Idle"
  PROVE  /\ active /\ signal = None /\ queue # <<>> /\ cur = Head(queue) /\ cur \in Client
         /\ answer[cur] = "waiting" /\ Size[cur] \in Nat
<1>1. active /\ signal = None /\ queue # <<>> /\ cur = Head(queue)
  BY DEF SendInv, FlowInv
<1>2. queue \in Seq(Client) /\ 1 \in 1..Len(queue) /\ cur = queue[1]
  BY <1>1 DEF SendInv, SendTypeOK
<1>3. cur \in Client /\ answer[cur] = "waiting"
  BY <1>2 DEF SendInv, QueueInv
<1> QED  BY <1>1, <1>3, SendAssumption

LEMMA MachineStep ==
  ASSUME SendInv, st # "Idle", UNCHANGED <<queue, active, cur, answer>>,
         SendTypeOK', RecordInv', WorkInv',
         \A c \in Client \ {cur} : accepted'[c] = accepted[c],
         st' # "Idle" => signal' = None,
         signal' = "ok" => accepted'[cur] = 1..Size[cur]
  PROVE  SendInv'
<1>1. /\ active /\ signal = None /\ queue # <<>> /\ cur = Head(queue) /\ cur \in Client
      /\ answer[cur] = "waiting"
  BY Busy
<1>2. QueueInv'
  BY DEF SendInv, QueueInv
<1>3. FlowInv'
  BY <1>1 DEF SendInv, FlowInv
<1>4. \A c \in Client : answer'[c] = "ok" => accepted'[c] = 1..Size[c]
  BY <1>1 DEF SendInv, OkInv
<1>5. OkInv'
  BY <1>1, <1>4 DEF OkInv
<1> QED  BY <1>2, <1>3, <1>5 DEF SendInv

\* A step of the machine that leaves the records alone.
LEMMA RecordsKept ==
  ASSUME SendInv, st # "Idle", UNCHANGED <<on, queue, active, cur, clients, stranded, record>>,
         SendTypeOK', WorkInv',
         st' # "Idle" => signal' = None, signal' = "ok" => accepted[cur] = 1..Size[cur]
  PROVE  SendInv'
<1>1. RecordInv'
  BY DEF SendInv, RecordInv, record
<1> QED  BY <1>1, MachineStep DEF record, clients

\* Complete: the machine rests, whatever the result.
LEMMA CompleteStep ==
  ASSUME SendInv, st # "Idle", NEW r \in Result, Complete(r),
         sendError' \in {"ok", "error"}, UNCHANGED <<on, record, clients, stranded>>,
         r = "ok" => accepted[cur] = 1..Size[cur]
  PROVE  SendInv'
<1>1. /\ st' = "Idle" /\ signal' = r /\ alive' = MayComplete
      /\ UNCHANGED <<queue, active, cur, status, sent, encoded, logged>>
  BY DEF Complete
<1>2. SendTypeOK'
  BY <1>1 DEF SendInv, SendTypeOK, State, MayComplete, record, clients
<1>3. WorkInv'
  BY <1>1 DEF WorkInv, Working
<1> QED  BY <1>1, <1>2, <1>3, RecordsKept

\* The message goes on with its next PDU, or all of it has gone.
LEMMA NextStep ==
  ASSUME SendInv, Working, SendNextPDU, UNCHANGED <<on, record, clients, stranded>>
  PROVE  SendInv'
<1>1. /\ st # "Idle" /\ encoded = Size[cur] /\ store[cur] = sent /\ sent <= Size[cur]
      /\ sent \in Nat
  BY DEF SendInv, WorkInv, Working, SendTypeOK
<1>2. cur \in Client /\ Size[cur] \in Nat /\ signal = None
  BY <1>1, Busy
<1>3. CASE /\ sent < encoded /\ st' = "SendPDU"
           /\ UNCHANGED <<alive, line, cur, status, sendError, sent, encoded, logged>>
  <2>1. SendTypeOK'
    BY <1>3 DEF SendInv, SendTypeOK, State, line, record, clients
  <2>2. WorkInv'
    BY <1>1, <1>3 DEF WorkInv, Working, record
  <2> QED  BY <1>1, <1>2, <1>3, <2>1, <2>2, RecordsKept, SendAssumption DEF line
<1>4. CASE sent >= encoded /\ Complete("ok") /\ UNCHANGED sendError
  <2>1. sent = Size[cur] /\ store[cur] # None
    BY <1>1, <1>2, <1>4, SendAssumption
  <2>2. accepted[cur] \subseteq 1..Size[cur] /\ 1..sent \subseteq accepted[cur]
    BY <1>1, <1>2, <2>1 DEF SendInv, RecordInv
  <2>3. sendError' \in {"ok", "error"} /\ "ok" \in Result
    BY <1>4 DEF SendInv, SendTypeOK, Result
  <2> QED  BY <1>1, <1>4, <2>1, <2>2, <2>3, CompleteStep
<1> QED  BY <1>3, <1>4 DEF SendNextPDU

\* The message cannot be sent.
LEMMA FailedStep ==
  ASSUME SendInv, st # "Idle", Failed, UNCHANGED <<on, record, clients, stranded>>
  PROVE  SendInv'
<1>1. sendError' = "error" /\ "error" \in Result /\ signal = None
  BY Busy DEF Failed, Result
<1>2. CASE /\ logged /\ st' = "UpdatingLog"
           /\ UNCHANGED <<alive, line, cur, status, sent, encoded, logged>>
  <2>1. SendTypeOK'
    BY <1>1, <1>2 DEF SendInv, SendTypeOK, State, line, record, clients
  <2>2. WorkInv'
    BY <1>1, <1>2 DEF WorkInv, Working
  <2> QED  BY <1>1, <1>2, <2>1, <2>2, RecordsKept, SendAssumption DEF line
<1>3. CASE ~logged /\ Complete("error")
  BY <1>1, <1>3, CompleteStep
<1> QED  BY <1>2, <1>3 DEF Failed

LEMMA SegmentStep ==
  ASSUME SendInv, st # "Idle", SegmentMessage, logged' \in BOOLEAN,
         UNCHANGED <<on, clients, stranded>>
  PROVE  SendInv'
<1>1. /\ cur \in Client /\ Size[cur] \in Nat /\ signal = None
      /\ store \in [Client -> Nat \cup {None}] /\ accepted \in [Client -> SUBSET Nat]
      /\ unrecorded \subseteq Client
  BY Busy DEF SendInv, SendTypeOK
<1>2. /\ st' = "Segmenting" /\ UNCHANGED <<alive, line, cur, sendError>>
      /\ \/ /\ status' = "ok" /\ sent' = StartsAt(cur) /\ encoded' = Size[cur]
            /\ store' = [store EXCEPT ![cur] = StartsAt(cur)]
            /\ accepted' = [accepted EXCEPT ![cur] = IF Found(cur) THEN @ ELSE {}]
            /\ unrecorded' = IF Found(cur) THEN unrecorded ELSE unrecorded \ {cur}
         \/ /\ status' = "error"
            /\ sent' \in {0, StartsAt(cur)} /\ encoded' \in 0..Size[cur]
            /\ store' = [store EXCEPT ![cur] = IF Found(cur) THEN @ ELSE None]
            /\ UNCHANGED <<accepted, unrecorded>>
  BY DEF SegmentMessage
<1>3. StartsAt(cur) \in 0..Size[cur] /\ (Found(cur) => store[cur] = StartsAt(cur))
  BY <1>1 DEF StartsAt, Found
<1>4. CASE /\ status' = "ok" /\ sent' = StartsAt(cur) /\ encoded' = Size[cur]
           /\ store' = [store EXCEPT ![cur] = StartsAt(cur)]
           /\ accepted' = [accepted EXCEPT ![cur] = IF Found(cur) THEN @ ELSE {}]
           /\ unrecorded' = IF Found(cur) THEN unrecorded ELSE unrecorded \ {cur}
  <2>1. SendTypeOK'
    BY <1>1, <1>2, <1>3, <1>4 DEF SendInv, SendTypeOK, State, line, clients
  <2>2. WorkInv'
    BY <1>1, <1>2, <1>3, <1>4 DEF WorkInv, Working
  <2>3. RecordInv'
    <3> SUFFICES ASSUME NEW c \in Client
                 PROVE  /\ accepted'[c] \subseteq 1..Size[c]
                        /\ store'[c] # None =>
                             /\ store'[c] \in 0..Size[c] /\ 1..store'[c] \subseteq accepted'[c]
                             /\ c \in unrecorded' \/ accepted'[c] = 1..store'[c]
      BY DEF RecordInv
    <3>1. CASE c # cur
      BY <1>1, <1>4, <3>1 DEF SendInv, RecordInv
    <3>2. CASE c = cur /\ Found(cur)
      <4>1. accepted'[c] = accepted[c] /\ store'[c] = store[c] /\ unrecorded' = unrecorded
        BY <1>1, <1>3, <1>4, <3>2
      <4> QED  BY <4>1 DEF SendInv, RecordInv
    <3>3. CASE c = cur /\ ~Found(cur)
      <4>1. accepted'[c] = {} /\ store'[c] = 0
        BY <1>1, <1>4, <3>3 DEF StartsAt
      <4>2. 1..0 = {} /\ 0 \in 0..Size[c]
        BY <1>1, <3>3
      <4> QED  BY <4>1, <4>2
    <3> QED  BY <3>1, <3>2, <3>3
  <2> QED  BY <1>1, <1>2, <1>4, <2>1, <2>2, <2>3, MachineStep, SendAssumption DEF line, clients
<1>5. CASE /\ status' = "error"
           /\ sent' \in {0, StartsAt(cur)} /\ encoded' \in 0..Size[cur]
           /\ store' = [store EXCEPT ![cur] = IF Found(cur) THEN @ ELSE None]
           /\ UNCHANGED <<accepted, unrecorded>>
  <2>1. SendTypeOK'
    BY <1>1, <1>2, <1>3, <1>5 DEF SendInv, SendTypeOK, State, line, clients
  <2>2. WorkInv'
    BY <1>2, <1>5 DEF WorkInv, Working
  <2>3. \A c \in Client : store'[c] = store[c] \/ store'[c] = None
    BY <1>1, <1>5
  <2>4. RecordInv'
    BY <1>5, <2>3 DEF SendInv, RecordInv
  <2> QED  BY <1>1, <1>2, <1>5, <2>1, <2>2, <2>4, MachineStep, SendAssumption DEF line, clients
<1> QED  BY <1>2, <1>4, <1>5

\* A PDU has been accepted, and is counted if that can be recorded.
LEMMA RecordStep ==
  ASSUME SendInv, st = "SendPDU", Record,
         UNCHANGED <<alive, line, cur, sendError, encoded, logged, on, clients, stranded>>
  PROVE  SendInv'
<1>1. /\ cur \in Client /\ Size[cur] \in Nat /\ signal = None
      /\ store \in [Client -> Nat \cup {None}] /\ accepted \in [Client -> SUBSET Nat]
      /\ unrecorded \subseteq Client /\ sent \in Nat
  BY Busy DEF SendInv, SendTypeOK
<1>2. /\ encoded = Size[cur] /\ store[cur] = sent /\ sent < Size[cur]
      /\ sent + 1 \in 1..Size[cur] /\ store[cur] # None
  BY <1>1, SendAssumption DEF SendInv, WorkInv, Working
<1>3. /\ st' = "UpdatingStore" /\ sent' = sent + 1
      /\ accepted' = [accepted EXCEPT ![cur] = @ \cup {sent + 1}]
      /\ \/ /\ status' = "ok" /\ store' = [store EXCEPT ![cur] = @ + 1] /\ UNCHANGED unrecorded
         \/ status' = "error" /\ unrecorded' = unrecorded \cup {cur} /\ UNCHANGED store
  BY DEF Record
<1>4. store'[cur] \in Nat
  BY <1>1, <1>2, <1>3
<1>5. SendTypeOK'
  <2>1. store' \in [Client -> Nat \cup {None}]
    BY <1>1, <1>2, <1>3
  <2>2. accepted' \in [Client -> SUBSET Nat]
    BY <1>1, <1>3
  <2>3. unrecorded' \subseteq Client /\ sent' \in Nat
    BY <1>1, <1>3
  <2> QED  BY <1>3, <2>1, <2>2, <2>3 DEF SendInv, SendTypeOK, State, line, clients
<1>6. WorkInv'
  BY <1>1, <1>2, <1>3 DEF WorkInv, Working
<1>7. RecordInv'
  <2> SUFFICES ASSUME NEW c \in Client
               PROVE  /\ accepted'[c] \subseteq 1..Size[c]
                      /\ store'[c] # None =>
                           /\ store'[c] \in 0..Size[c] /\ 1..store'[c] \subseteq accepted'[c]
                           /\ c \in unrecorded' \/ accepted'[c] = 1..store'[c]
    BY DEF RecordInv
  <2>1. CASE c # cur
    BY <1>1, <1>3, <2>1 DEF SendInv, RecordInv
  <2>2. CASE c = cur
    <3>1. /\ accepted'[c] = accepted[c] \cup {sent + 1} /\ accepted[c] \subseteq 1..Size[c]
          /\ 1..sent \subseteq accepted[c] /\ (c \in unrecorded \/ accepted[c] = 1..sent)
      BY <1>1, <1>2, <1>3, <2>2 DEF SendInv, RecordInv
    <3>2. 1..(sent + 1) = 1..sent \cup {sent + 1}
      BY <1>1
    <3>3. CASE store' = [store EXCEPT ![cur] = @ + 1] /\ UNCHANGED unrecorded
      <4>1. store'[c] = sent + 1
        BY <1>1, <1>2, <2>2, <3>3
      <4> QED  BY <1>1, <1>2, <2>2, <3>1, <3>2, <3>3, <4>1
    <3>4. CASE unrecorded' = unrecorded \cup {cur} /\ UNCHANGED store
      <4>1. store'[c] = sent /\ c \in unrecorded' /\ sent \in 0..Size[c]
        BY <1>1, <1>2, <2>2, <3>4
      <4> QED  BY <1>2, <2>2, <3>1, <4>1
    <3> QED  BY <1>3, <3>3, <3>4
  <2> QED  BY <2>1, <2>2
<1>8. \A c \in Client \ {cur} : accepted'[c] = accepted[c]
  BY <1>1, <1>3
<1> QED  BY <1>1, <1>3, <1>5, <1>6, <1>7, <1>8, MachineStep, SendAssumption DEF line, clients

LEMMA MachineSteps ==
  ASSUME SendInv,
         BearerSet \/ LogCreated \/ Segmented \/ PDUSent \/ StoreUpdated \/ LogUpdated \/ Timeout
  PROVE  SendInv'
<1>1. sendError \in {"ok", "error"} /\ logged \in BOOLEAN /\ "error" \in Result /\ "error" # "ok"
  BY DEF SendInv, SendTypeOK, Result
<1>2. CASE BearerSet
  <2>1. st = "SetBearer" /\ UNCHANGED <<on, clients, stranded>>
    BY <1>2 DEF BearerSet
  <2>2. CASE /\ st' = "CreatingLog"
             /\ UNCHANGED <<alive, line, cur, status, sendError, sent, encoded, logged, record>>
    <3>1. SendTypeOK'
      BY <2>1, <2>2 DEF SendInv, SendTypeOK, State, line, record, clients
    <3>2. WorkInv'
      BY <2>2 DEF WorkInv, Working
    <3> QED  BY <2>1, <2>2, <3>1, <3>2, Busy, RecordsKept, SendAssumption DEF line
  <2>3. CASE SegmentMessage /\ UNCHANGED logged
    BY <1>1, <2>1, <2>3, SegmentStep
  <2>4. CASE Complete("error") /\ UNCHANGED <<sendError, record>>
    BY <1>1, <2>1, <2>4, CompleteStep
  <2> QED  BY <1>2, <2>2, <2>3, <2>4 DEF BearerSet
<1>3. CASE LogCreated
  <2>1. st = "CreatingLog" /\ SegmentMessage /\ logged' \in BOOLEAN
        /\ UNCHANGED <<on, clients, stranded>>
    BY <1>3 DEF LogCreated
  <2> QED  BY <2>1, SegmentStep
<1>4. CASE Segmented
  <2>1. /\ st = "Segmenting" /\ UNCHANGED <<on, record, clients, stranded>>
        /\ (status = "ok" /\ SendNextPDU) \/ (status = "error" /\ Failed)
    BY <1>4 DEF Segmented
  <2> QED  BY <2>1, NextStep, FailedStep DEF Working
<1>5. CASE PDUSent
  <2>1. st = "SendPDU" /\ UNCHANGED <<on, clients, stranded>>
    BY <1>5 DEF PDUSent
  <2>2. CASE Record /\ UNCHANGED <<alive, line, cur, sendError, encoded, logged>>
    BY <2>1, <2>2, RecordStep
  <2>3. CASE Failed /\ UNCHANGED record
    BY <2>1, <2>3, FailedStep
  <2>4. CASE Complete("error") /\ UNCHANGED <<sendError, record>>
    BY <1>1, <2>1, <2>4, CompleteStep
  <2> QED  BY <1>5, <2>2, <2>3, <2>4 DEF PDUSent
<1>6. CASE StoreUpdated
  <2>1. st = "UpdatingStore" /\ UNCHANGED <<on, record, clients, stranded>>
    BY <1>6 DEF StoreUpdated
  <2>2. CASE /\ status = "ok" /\ logged /\ st' = "UpdatingLog"
             /\ UNCHANGED <<alive, line, cur, status, sendError, sent, encoded, logged>>
    <3>1. SendTypeOK'
      BY <2>1, <2>2 DEF SendInv, SendTypeOK, State, line, record, clients
    <3>2. WorkInv'
      BY <2>1, <2>2 DEF SendInv, WorkInv, Working, record
    <3> QED  BY <2>1, <2>2, <3>1, <3>2, Busy, RecordsKept, SendAssumption DEF line
  <2>3. CASE status = "ok" /\ SendNextPDU
    BY <2>1, <2>3, NextStep DEF Working
  <2>4. CASE Failed
    BY <2>1, <2>4, FailedStep
  <2> QED  BY <1>6, <2>2, <2>3, <2>4 DEF StoreUpdated
<1>7. CASE LogUpdated
  <2>1. /\ st = "UpdatingLog" /\ UNCHANGED <<on, record, clients, stranded>>
        /\ \/ sendError = "ok" /\ SendNextPDU
           \/ Complete("error") /\ UNCHANGED sendError
    BY <1>7 DEF LogUpdated
  <2> QED  BY <1>1, <2>1, NextStep, CompleteStep DEF Working
<1>8. CASE Timeout
  <2>1. st = "SendPDU" /\ Complete("error") /\ UNCHANGED <<on, sendError, record, clients, stranded>>
    BY <1>8 DEF Timeout
  <2> QED  BY <1>1, <2>1, CompleteStep
<1> QED  BY <1>2, <1>3, <1>4, <1>5, <1>6, <1>7, <1>8

-----------------------------------------------------------------------------
\* The queue and its clients.

LEMMA StartStep ==
  ASSUME SendInv, NEW q \in Seq(Client), q # <<>>, Start(q)
  PROVE  /\ active' = TRUE /\ signal' = None /\ st' = "SetBearer" /\ cur' = Head(q)
         /\ sendError' = "ok" /\ sent' = 0 /\ encoded' = 0 /\ logged' = FALSE /\ status' = status
BY DEF Start

\* What matters of a step that changes the queue.
LEMMA QueueStep ==
  ASSUME SendInv, SendTypeOK', QueueInv', FlowInv', UNCHANGED <<accepted, unrecorded>>,
         \A c \in Client : store'[c] = store[c] \/ store'[c] = None,
         \A c \in Client : answer'[c] = "ok" => accepted[c] = 1..Size[c],
         signal' = "ok" => accepted[Head(queue')] = 1..Size[Head(queue')],
         \/ st' \in {"Idle", "SetBearer"}
         \/ UNCHANGED <<st, cur, status, sendError, sent, encoded>> /\ store' = store
  PROVE  SendInv'
<1>1. RecordInv'
  BY DEF SendInv, RecordInv
<1>2. WorkInv'
  BY DEF SendInv, WorkInv, Working
<1>3. OkInv'
  BY DEF OkInv
<1> QED  BY <1>1, <1>2, <1>3 DEF SendInv

LEMMA PurgeStep ==
  ASSUME store \in [Client -> Nat \cup {None}], Purge
  PROVE  store' \in [Client -> Nat \cup {None}] /\ \A d \in Client : store'[d] \in {store[d], None}
BY DEF Purge

LEMMA RunLStep == ASSUME SendInv, RunL PROVE SendInv'
<1> DEFINE c == Head(queue)
<1>1. /\ active /\ signal # None /\ answer' = [answer EXCEPT ![c] = signal]
      /\ stranded' = stranded \ {c} /\ queue' = Tail(queue) /\ Start(queue')
      /\ alive' = MayStart(queue') /\ UNCHANGED <<on, accepted, unrecorded, tries>>
      /\ store' = store \/ Purge
  BY DEF RunL
<1>2. /\ queue # <<>> /\ st = "Idle" /\ queue \in Seq(Client)
      /\ signal \in Result
  BY <1>1 DEF SendInv, FlowInv, SendTypeOK
<1>3. c \in Client /\ c = queue[1] /\ 1 \in 1..Len(queue) /\ answer[c] = "waiting"
  BY <1>2 DEF SendInv, QueueInv
<1>4. /\ queue' \in Seq(Client) /\ Len(queue') = Len(queue) - 1
      /\ \A n \in 1..Len(queue') : queue'[n] = queue[n + 1] /\ n + 1 \in 1..Len(queue)
  BY <1>1, <1>2
<1>5. \A n \in 1..Len(queue') : queue'[n] # c
  BY <1>3, <1>4 DEF SendInv, QueueInv
<1>6. /\ answer \in [Client -> Result \cup {None, "waiting"}]
      /\ store \in [Client -> Nat \cup {None}]
  BY DEF SendInv, SendTypeOK
<1>7. QueueInv'
  <2>1. \A n \in 1..Len(queue') : answer'[queue'[n]] = "waiting"
    <3> TAKE n \in 1..Len(queue')
    <3>1. queue'[n] \in Client /\ queue'[n] # c /\ answer[queue'[n]] = "waiting"
      BY <1>4, <1>5 DEF SendInv, QueueInv
    <3> QED  BY <1>1, <1>6, <3>1
  <2>2. \A m, n \in 1..Len(queue') : queue'[m] = queue'[n] => m = n
    <3> TAKE m, n \in 1..Len(queue')
    <3>1. queue'[m] = queue[m + 1] /\ queue'[n] = queue[n + 1]
          /\ m + 1 \in 1..Len(queue) /\ n + 1 \in 1..Len(queue)
      BY <1>4
    <3>2. m + 1 = n + 1 => m = n
      OBVIOUS
    <3> QED  BY <3>1, <3>2 DEF SendInv, QueueInv
  <2> QED  BY <2>1, <2>2 DEF QueueInv
<1>8. \/ /\ queue' = <<>> /\ active' = FALSE /\ signal' = None /\ UNCHANGED machine
      \/ /\ queue' # <<>> /\ active' = TRUE /\ signal' = None /\ st' = "SetBearer"
         /\ cur' = Head(queue') /\ sendError' = "ok" /\ sent' = 0 /\ encoded' = 0
         /\ logged' = FALSE /\ status' = status
  BY <1>1 DEF Start
<1>9. FlowInv'
  BY <1>2, <1>8 DEF FlowInv, machine
<1>10. store' \in [Client -> Nat \cup {None}] /\ \A d \in Client : store'[d] \in {store[d], None}
  BY <1>1, <1>6, PurgeStep
<1>11. answer' \in [Client -> Result \cup {None, "waiting"}]
  BY <1>1, <1>2, <1>6
<1>12. /\ alive' \in BOOLEAN /\ active' \in BOOLEAN /\ signal' = None /\ logged' \in BOOLEAN
       /\ st' \in State /\ cur' \in Client \cup {None} /\ status' \in {"ok", "error"}
       /\ sendError' \in {"ok", "error"} /\ sent' \in Nat /\ encoded' \in Nat
  <2>1. alive' \in BOOLEAN
    BY <1>1 DEF MayStart, SendInv, SendTypeOK
  <2>2. CASE queue' = <<>>
    BY <1>8, <2>1, <2>2 DEF SendInv, SendTypeOK, machine
  <2>3. CASE queue' # <<>>
    <3>1. Head(queue') \in Client
      BY <1>4, <2>3
    <3>2. /\ active' = TRUE /\ signal' = None /\ st' = "SetBearer" /\ cur' = Head(queue')
          /\ sendError' = "ok" /\ sent' = 0 /\ encoded' = 0 /\ logged' = FALSE /\ status' = status
      BY <1>8, <2>3
    <3>3. status' \in {"ok", "error"} /\ st' \in State /\ 0 \in Nat
      BY <3>2 DEF SendInv, SendTypeOK, State
    <3> QED  BY <2>1, <3>1, <3>2, <3>3
  <2> QED  BY <2>2, <2>3
<1>13. SendTypeOK'
  BY <1>1, <1>4, <1>10, <1>11, <1>12 DEF SendInv, SendTypeOK
<1>14. \A d \in Client : answer'[d] = "ok" => accepted[d] = 1..Size[d]
  BY <1>1, <1>3, <1>6 DEF SendInv, OkInv
<1> QED  BY <1>1, <1>2, <1>7, <1>8, <1>9, <1>10, <1>13, <1>14, QueueStep, SendAssumption DEF machine

LEMMA SendStep ==
  ASSUME SendInv, NEW c \in Client, SendSmsMessage(c) PROVE SendInv'
<1>1. /\ answer[c] # "waiting" /\ tries[c] < MaxTries /\ tries' = [tries EXCEPT ![c] = @ + 1]
      /\ UNCHANGED <<on, record, stranded>>
      /\ \/ /\ answer' = [answer EXCEPT ![c] = "waiting"] /\ queue' = Append(queue, c)
            /\ IF active THEN UNCHANGED <<active, signal, machine>> ELSE Start(queue')
            /\ UNCHANGED alive
         \/ answer' = [answer EXCEPT ![c] = "error"] /\ UNCHANGED <<alive, line, machine>>
  BY DEF SendSmsMessage
<1>2. /\ answer \in [Client -> Result \cup {None, "waiting"}] /\ queue \in Seq(Client)
      /\ tries \in [Client -> 0..MaxTries]
  BY DEF SendInv, SendTypeOK
<1>3. tries' \in [Client -> 0..MaxTries]
  BY <1>1, <1>2, SendAssumption
<1>4. \A n \in 1..Len(queue) : queue[n] \in Client /\ queue[n] # c
  BY <1>1, <1>2 DEF SendInv, QueueInv
<1>5. \A d \in Client : answer'[d] = "ok" => accepted[d] = 1..Size[d]
  BY <1>1, <1>2 DEF SendInv, OkInv
<1>6. answer' \in [Client -> Result \cup {None, "waiting"}]
  BY <1>1, <1>2 DEF Result
<1>7. CASE /\ answer' = [answer EXCEPT ![c] = "waiting"] /\ queue' = Append(queue, c)
           /\ IF active THEN UNCHANGED <<active, signal, machine>> ELSE Start(queue')
           /\ UNCHANGED alive
  <2>1. /\ queue' \in Seq(Client) /\ queue' # <<>> /\ Len(queue') = Len(queue) + 1
        /\ \A n \in 1..Len(queue) : queue'[n] = queue[n]
        /\ queue'[Len(queue) + 1] = c /\ Len(queue) \in Nat
    BY <1>2, <1>7, AppendProperties
  <2>2. \A n \in 1..Len(queue') : n \in 1..Len(queue) \/ n = Len(queue) + 1
    BY <2>1
  <2>3. QueueInv'
    <3>1. \A n \in 1..Len(queue') : answer'[queue'[n]] = "waiting"
      BY <1>2, <1>4, <1>7, <2>1, <2>2 DEF SendInv, QueueInv
    <3>2. \A m, n \in 1..Len(queue') : queue'[m] = queue'[n] => m = n
      BY <1>4, <2>1, <2>2 DEF SendInv, QueueInv
    <3> QED  BY <3>1, <3>2 DEF QueueInv
  <2>4. CASE active
    <3>1. UNCHANGED <<active, signal, machine>> /\ queue # <<>> /\ Head(queue') = Head(queue)
      <4>1. queue # <<>> /\ 1 \in 1..Len(queue)
        BY <1>2, <2>4 DEF SendInv, FlowInv
      <4> QED  BY <1>2, <1>7, <2>1, <2>4, <4>1
    <3>2. SendTypeOK'
      BY <1>1, <1>3, <1>6, <1>7, <2>1, <3>1 DEF SendInv, SendTypeOK, machine, record
    <3>3. FlowInv'
      BY <2>1, <3>1 DEF SendInv, FlowInv, machine
    <3>4. signal' = "ok" => accepted[Head(queue')] = 1..Size[Head(queue')]
      BY <3>1 DEF SendInv, OkInv
    <3> QED  BY <1>1, <1>5, <2>3, <3>1, <3>2, <3>3, <3>4, QueueStep DEF record, machine
  <2>5. CASE ~active
    <3>1. Start(queue')
      BY <1>7, <2>5
    <3>2. /\ active' = TRUE /\ signal' = None /\ st' = "SetBearer" /\ cur' = Head(queue')
          /\ sendError' = "ok" /\ sent' = 0 /\ encoded' = 0 /\ logged' = FALSE /\ status' = status
      BY <2>1, <3>1, StartStep
    <3>3. Head(queue') \in Client /\ status \in {"ok", "error"} /\ 0 \in Nat
      BY <2>1 DEF SendInv, SendTypeOK
    <3>4. st' \in State /\ cur' \in Client /\ logged' \in BOOLEAN /\ active' \in BOOLEAN
      BY <3>2, <3>3 DEF State
    <3>5. SendTypeOK'
      BY <1>1, <1>3, <1>6, <1>7, <2>1, <3>2, <3>3, <3>4 DEF SendInv, SendTypeOK, record
    <3>6. FlowInv'
      BY <2>1, <3>2 DEF FlowInv
    <3> QED  BY <1>1, <1>5, <2>3, <3>2, <3>5, <3>6, QueueStep, SendAssumption DEF record
  <2> QED  BY <2>4, <2>5
<1>8. CASE answer' = [answer EXCEPT ![c] = "error"] /\ UNCHANGED <<alive, line, machine>>
  <2>1. SendTypeOK'
    BY <1>1, <1>3, <1>6, <1>8 DEF SendInv, SendTypeOK, line, machine, record
  <2>2. QueueInv'
    BY <1>2, <1>4, <1>8 DEF SendInv, QueueInv, line
  <2>3. FlowInv'
    BY <1>8 DEF SendInv, FlowInv, line, machine
  <2>4. signal' = "ok" => accepted[Head(queue')] = 1..Size[Head(queue')]
    BY <1>8 DEF SendInv, OkInv, line
  <2> QED  BY <1>1, <1>5, <1>8, <2>1, <2>2, <2>3, <2>4, QueueStep DEF record, machine
<1> QED  BY <1>1, <1>7, <1>8

\* A request that is answered with KErrCancel leaves the queue.
LEMMA RemovedStep ==
  ASSUME SendInv, NEW c \in Client, answer' = [answer EXCEPT ![c] = "cancel"],
         queue' = Without(queue, c), UNCHANGED accepted
  PROVE  /\ queue' \in Seq(Client) /\ QueueInv'
         /\ queue # <<>> /\ Head(queue) # c => queue' # <<>> /\ Head(queue') = Head(queue)
         /\ answer' \in [Client -> Result \cup {None, "waiting"}]
         /\ \A d \in Client : answer'[d] = "ok" => accepted[d] = 1..Size[d]
<1>1. /\ answer \in [Client -> Result \cup {None, "waiting"}] /\ queue \in Seq(Client)
      /\ \A m, n \in 1..Len(queue) : queue[m] = queue[n] => m = n
  BY DEF SendInv, SendTypeOK, QueueInv
<1>2. /\ queue' \in Seq(Client)
      /\ \A n \in 1..Len(queue') : \E m \in 1..Len(queue) : queue'[n] = queue[m]
      /\ queue # <<>> /\ Head(queue) # c => queue' # <<>> /\ Head(queue') = Head(queue)
      /\ \A m, n \in 1..Len(queue') : queue'[m] = queue'[n] => m = n
      /\ \A n \in 1..Len(queue') : queue'[n] # c
  <2> DEFINE w == Without(queue, c)
  <2>1. /\ w \in Seq(Client)
        /\ \A n \in 1..Len(w) : \E m \in 1..Len(queue) : w[n] = queue[m]
        /\ queue # <<>> /\ Head(queue) # c => w # <<>> /\ Head(w) = Head(queue)
        /\ (\A m, n \in 1..Len(queue) : queue[m] = queue[n] => m = n) =>
             /\ \A m, n \in 1..Len(w) : w[m] = w[n] => m = n
             /\ \A n \in 1..Len(w) : w[n] # c
    BY <1>1, WithoutSeq
  <2> HIDE DEF w
  <2>2. queue' = w
    BY DEF w
  <2> QED  BY <1>1, <2>1, <2>2
<1>3. \A n \in 1..Len(queue') : answer'[queue'[n]] = "waiting"
  <2> TAKE n \in 1..Len(queue')
  <2>1. queue'[n] \in Client /\ queue'[n] # c /\ answer[queue'[n]] = "waiting"
    BY <1>2 DEF SendInv, QueueInv
  <2> QED  BY <1>1, <2>1
<1>4. QueueInv'
  BY <1>2, <1>3 DEF QueueInv
<1>5. answer' \in [Client -> Result \cup {None, "waiting"}]
      /\ \A d \in Client : answer'[d] = "ok" => accepted[d] = 1..Size[d]
  BY <1>1 DEF Result, SendInv, OkInv
<1> QED  BY <1>2, <1>4, <1>5

\* CompleteRequest: the machine stops if it worked for the client.
LEMMA CompleteRequestStep ==
  ASSUME SendInv, NEW c \in Client, answer' = [answer EXCEPT ![c] = "cancel"],
         CompleteRequest(c), UNCHANGED <<record, tries>>, on' \in BOOLEAN,
         stranded' \subseteq Client
  PROVE  SendInv'
<1>1. /\ queue' = Without(queue, c) /\ alive' = MayCancel(c)
      /\ IF StopsMachine(c)
         THEN /\ active' = FALSE /\ signal' = None /\ st' = "Idle"
              /\ UNCHANGED <<cur, status, sendError, sent, encoded, logged>>
         ELSE UNCHANGED <<active, signal, machine>>
  BY DEF CompleteRequest
<1>2. /\ queue' \in Seq(Client) /\ QueueInv'
      /\ queue # <<>> /\ Head(queue) # c => queue' # <<>> /\ Head(queue') = Head(queue)
      /\ answer' \in [Client -> Result \cup {None, "waiting"}]
      /\ \A d \in Client : answer'[d] = "ok" => accepted[d] = 1..Size[d]
  BY <1>1, RemovedStep DEF record
<1>3. alive' \in BOOLEAN
  BY <1>1 DEF MayCancel
<1>4. CASE StopsMachine(c)
  <2>1. SendTypeOK'
    BY <1>1, <1>2, <1>3, <1>4 DEF SendInv, SendTypeOK, State, record
  <2>2. FlowInv'
    BY <1>1, <1>4 DEF FlowInv
  <2> QED  BY <1>1, <1>2, <1>4, <2>1, <2>2, QueueStep, SendAssumption DEF record
<1>5. CASE ~StopsMachine(c)
  <2>1. SendTypeOK'
    BY <1>1, <1>2, <1>3, <1>5 DEF SendInv, SendTypeOK, machine, record
  <2>2. active => queue # <<>> /\ queue' # <<>> /\ Head(queue') = Head(queue)
    BY <1>2, <1>5 DEF StopsMachine, SendInv, FlowInv
  <2>3. FlowInv'
    BY <1>1, <1>5, <2>2 DEF SendInv, FlowInv, machine
  <2>4. signal' = "ok" => accepted[Head(queue')] = 1..Size[Head(queue')]
    BY <1>1, <1>5, <2>2, SendAssumption DEF SendInv, OkInv, FlowInv
  <2> QED  BY <1>1, <1>2, <1>5, <2>1, <2>3, <2>4, QueueStep DEF record, machine
<1> QED  BY <1>4, <1>5

LEMMA CancelStep ==
  ASSUME SendInv, NEW c \in Client, CancelObserver(c) PROVE SendInv'
<1> DEFINE rest == Without(queue, c)
<1>1. /\ answer' = [answer EXCEPT ![c] = "cancel"] /\ stranded' = stranded \ {c}
      /\ UNCHANGED <<on, record, tries>>
      /\ \/ rest # <<>> /\ queue' = rest /\ Start(rest) /\ alive' = (MayStart(rest) /\ MayCancel(c))
         \/ CompleteRequest(c)
  BY DEF CancelObserver
<1>2. on' \in BOOLEAN /\ stranded' \subseteq Client
  BY <1>1 DEF SendInv, SendTypeOK
<1>3. CASE rest # <<>> /\ queue' = rest /\ Start(rest) /\ alive' = (MayStart(rest) /\ MayCancel(c))
  <2>1. /\ queue' \in Seq(Client) /\ QueueInv'
        /\ answer' \in [Client -> Result \cup {None, "waiting"}]
        /\ \A d \in Client : answer'[d] = "ok" => accepted[d] = 1..Size[d]
    BY <1>1, <1>3, RemovedStep DEF record
  <2>2. /\ active' = TRUE /\ signal' = None /\ st' = "SetBearer" /\ cur' = Head(queue')
        /\ sendError' = "ok" /\ sent' = 0 /\ encoded' = 0 /\ logged' = FALSE /\ status' = status
    BY <1>3, <2>1, StartStep
  <2>3. Head(queue') \in Client /\ status \in {"ok", "error"} /\ 0 \in Nat
    BY <1>3, <2>1 DEF SendInv, SendTypeOK
  <2>4. /\ st' \in State /\ cur' \in Client /\ logged' \in BOOLEAN /\ active' \in BOOLEAN
        /\ alive' \in BOOLEAN
    BY <1>3, <2>2, <2>3 DEF State
  <2>5. SendTypeOK'
    BY <1>1, <1>2, <2>1, <2>2, <2>3, <2>4 DEF SendInv, SendTypeOK, record
  <2>6. FlowInv'
    BY <1>3, <2>2 DEF FlowInv
  <2> QED  BY <1>1, <2>1, <2>2, <2>5, <2>6, QueueStep, SendAssumption DEF record
<1>4. CASE CompleteRequest(c)
  BY <1>1, <1>2, <1>4, CompleteRequestStep
<1> QED  BY <1>1, <1>3, <1>4

LEMMA PowerStep ==
  ASSUME SendInv, OnInv, alive, PowerDown \/ PowerUp PROVE SendInv'
<1>1. CASE PowerDown
  <2>1. /\ on' = FALSE /\ stranded' = Range(queue') /\ UNCHANGED <<record, tries>>
        /\ IF active
           THEN /\ answer' = [answer EXCEPT ![Head(queue)] = "cancel"]
                /\ CompleteRequest(Head(queue))
           ELSE UNCHANGED <<alive, line, machine, answer>>
    BY <1>1 DEF PowerDown
  <2>2. CASE active
    <3>1. Head(queue) \in Client /\ queue' = Without(queue, Head(queue))
          /\ answer' = [answer EXCEPT ![Head(queue)] = "cancel"]
      BY <2>1, <2>2 DEF SendInv, FlowInv, SendTypeOK, CompleteRequest
    <3>2. queue' \in Seq(Client)
      BY <2>1, <3>1, RemovedStep DEF record
    <3>3. stranded' \subseteq Client
      BY <2>1, <3>2 DEF Range
    <3> QED  BY <2>1, <2>2, <3>1, <3>3, CompleteRequestStep
  <2>3. CASE ~active
    <3>1. UNCHANGED <<alive, line, machine, answer>>
      BY <2>1, <2>3
    <3>2. stranded' \subseteq Client
      BY <2>1, <3>1 DEF SendInv, SendTypeOK, Range, line
    <3>3. SendTypeOK'
      BY <2>1, <3>1, <3>2 DEF SendInv, SendTypeOK, line, machine, record
    <3>4. QueueInv' /\ FlowInv' /\ WorkInv' /\ RecordInv' /\ OkInv'
      BY <2>1, <3>1 DEF SendInv, QueueInv, FlowInv, WorkInv, Working, RecordInv, OkInv,
                        line, machine, record
    <3> QED  BY <3>3, <3>4 DEF SendInv
  <2> QED  BY <2>2, <2>3
<1>2. CASE PowerUp
  <2>1. /\ ~on /\ on' = TRUE /\ Purge
        /\ UNCHANGED <<alive, line, machine, accepted, unrecorded, clients, stranded>>
    BY <1>2 DEF PowerUp
  <2>2. ~active /\ st = "Idle"
    BY <2>1 DEF OnInv, SendInv, FlowInv
  <2>3. /\ store' \in [Client -> Nat \cup {None}]
        /\ \A d \in Client : store'[d] \in {store[d], None}
    BY <2>1, PurgeStep DEF SendInv, SendTypeOK
  <2>4. SendTypeOK'
    BY <2>1, <2>3 DEF SendInv, SendTypeOK, line, machine, clients
  <2>5. QueueInv' /\ FlowInv' /\ OkInv'
    BY <2>1 DEF SendInv, QueueInv, FlowInv, OkInv, line, machine, clients
  <2>6. WorkInv'
    BY <2>1, <2>2 DEF WorkInv, Working, line, machine
  <2>7. RecordInv'
    BY <2>1, <2>3 DEF SendInv, RecordInv
  <2> QED  BY <2>4, <2>5, <2>6, <2>7 DEF SendInv
<1> QED  BY <1>1, <1>2

-----------------------------------------------------------------------------
LEMMA SendInit == Init => SendInv
<1> SUFFICES ASSUME Init PROVE SendInv
  OBVIOUS
<1>1. /\ alive = TRUE /\ on = TRUE /\ queue = <<>> /\ active = FALSE /\ signal = None
      /\ st = "Idle" /\ cur = None /\ status = "ok" /\ sendError = "ok"
      /\ sent = 0 /\ encoded = 0 /\ logged = FALSE
      /\ store = [c \in Client |-> None] /\ accepted = [c \in Client |-> {}]
      /\ unrecorded = {} /\ stranded = {}
      /\ answer = [c \in Client |-> None] /\ tries = [c \in Client |-> 0]
  BY DEF Init
<1>2. SendTypeOK
  <2>1. queue \in Seq(Client) /\ st \in State /\ 0 \in Nat
    BY <1>1 DEF State
  <2>2. /\ store \in [Client -> Nat \cup {None}]
        /\ answer \in [Client -> Result \cup {None, "waiting"}]
        /\ tries \in [Client -> 0..MaxTries] /\ accepted \in [Client -> SUBSET Nat]
    BY <1>1, SendAssumption
  <2> QED  BY <1>1, <2>1, <2>2 DEF SendTypeOK
<1>3. QueueInv /\ FlowInv /\ WorkInv
  BY <1>1 DEF QueueInv, FlowInv, WorkInv, Working
<1>4. RecordInv /\ OkInv
  BY <1>1, SendAssumption DEF RecordInv, OkInv
<1> QED  BY <1>2, <1>3, <1>4 DEF SendInv

\* The queue is active only while the modem is on: PowerDown cancels it, and the stack
\* panics when it starts with the modem off.
LEMMA OnStep == OnInv /\ [Next]_vars => OnInv'
<1> SUFFICES ASSUME OnInv, [Next]_vars PROVE OnInv'
  OBVIOUS
<1>1. CASE (Steps /\ ~RunL) \/ Timeout
  BY <1>1 DEF Next, vars, OnInv, Steps, BearerSet, LogCreated, Segmented, PDUSent, StoreUpdated,
              LogUpdated, Timeout, SegmentMessage, SendNextPDU, Failed, Complete, Record, line
<1>2. CASE RunL
  BY <1>2 DEF RunL, Start, MayStart, OnInv
<1>3. CASE PowerDown
  <2>1. CASE active
    BY <1>3, <2>1 DEF PowerDown, CompleteRequest, StopsMachine, OnInv
  <2> QED  BY <1>3, <2>1 DEF PowerDown, OnInv, line
<1>4. CASE PowerUp
  BY <1>4 DEF PowerUp, OnInv
<1>5. ASSUME NEW c \in Client, SendSmsMessage(c) PROVE OnInv'
  BY <1>5 DEF SendSmsMessage, Start, OnInv, line
<1>6. ASSUME alive, NEW c \in Client, CancelObserver(c) PROVE OnInv'
  <2> DEFINE rest == Without(queue, c)
  <2>1. \/ Start(rest) /\ alive' = (MayStart(rest) /\ MayCancel(c)) /\ on' = on
        \/ CompleteRequest(c) /\ on' = on
    BY <1>6 DEF CancelObserver
  <2>2. CASE Start(rest) /\ alive' = (MayStart(rest) /\ MayCancel(c)) /\ on' = on
    <3>1. CASE rest = <<>>
      BY <2>2, <3>1 DEF Start, OnInv
    <3>2. CASE rest # <<>>
      <4>1. alive' => on
        BY <2>2, <3>2 DEF MayStart
      <4> QED  BY <2>2, <4>1 DEF OnInv
    <3> QED  BY <3>1, <3>2
  <2>3. CASE CompleteRequest(c) /\ on' = on
    BY <1>6, <2>3 DEF CompleteRequest, OnInv
  <2> QED  BY <2>1, <2>2, <2>3
<1>7. CASE UNCHANGED vars
  BY <1>7 DEF vars, line, OnInv
<1> QED  BY <1>1, <1>2, <1>3, <1>4, <1>5, <1>6, <1>7 DEF Next

LEMMA SendNext == SendInv /\ OnInv /\ [Next]_vars => SendInv'
<1> SUFFICES ASSUME SendInv, OnInv, [Next]_vars PROVE SendInv'
  OBVIOUS
<1>1. CASE Steps \/ Timeout
  BY <1>1, MachineSteps, RunLStep DEF Steps
<1>2. CASE alive /\ (PowerDown \/ PowerUp)
  BY <1>2, PowerStep
<1>3. CASE \E c \in Client : SendSmsMessage(c) \/ CancelObserver(c)
  BY <1>3, SendStep, CancelStep
<1>4. CASE UNCHANGED vars
  <2>1. SendTypeOK'
    BY <1>4 DEF SendInv, SendTypeOK, vars, line, machine, record, clients
  <2>2. QueueInv' /\ FlowInv' /\ WorkInv' /\ RecordInv' /\ OkInv'
    BY <1>4 DEF SendInv, QueueInv, FlowInv, WorkInv, Working, RecordInv, OkInv,
                vars, line, machine, record, clients
  <2> QED  BY <2>1, <2>2 DEF SendInv
<1> QED  BY <1>1, <1>2, <1>3, <1>4 DEF Next

LEMMA SendInvariant == Spec => []SendInv
<1>1. Init => OnInv
  BY DEF Init, OnInv
<1> QED  BY <1>1, SendInit, SendNext, OnStep, PTL DEF Spec

\* The type invariant of CSmspMessageQueue, CSmsMessageSend and the segmentation store.
THEOREM SendTypeCorrect == Spec => []SendTypeOK
<1>1. SendInv => SendTypeOK
  BY DEF SendInv
<1> QED  BY <1>1, SendInvariant, PTL

\* CSmspMessageQueue::CompleteFirst with KErrNone: the TSY has accepted every PDU of
\* the message, over however many attempts.
THEOREM KErrNoneMeansSent == Spec => []SentMeansSent
<1>1. SendInv => SentMeansSent
  BY DEF SendInv, OkInv, SentMeansSent
<1> QED  BY <1>1, SendInvariant, PTL

\* CSmsSegmentationStore: what has been counted is not sent again with the message.
THEOREM NeverSentTwice == Spec => []NothingSentTwice
<1>1. SendInv => NothingSentTwice
  <2> SUFFICES ASSUME SendInv, st = "SendPDU", sent + 1 \in accepted[cur] PROVE cur \in unrecorded
    BY DEF NothingSentTwice
  <2>1. cur \in Client /\ sent \in Nat /\ store[cur] = sent /\ store[cur] # None
    BY Busy, SendAssumption DEF SendInv, WorkInv, Working, SendTypeOK
  <2>2. cur \in unrecorded \/ accepted[cur] = 1..sent
    BY <2>1 DEF SendInv, RecordInv
  <2>3. sent + 1 \notin 1..sent
    BY <2>1
  <2> QED  BY <2>2, <2>3
<1> QED  BY <1>1, SendInvariant, PTL

\* CSmsMessageSend works for the first message of CSmspMessageQueue, which no other
\* handler deletes under it.
THEOREM AlwaysWorksForFirst == Spec => []WorksForFirst
<1>1. SendInv => WorksForFirst
  BY DEF SendInv, FlowInv, WorksForFirst
<1> QED  BY <1>1, SendInvariant, PTL
=============================================================================
